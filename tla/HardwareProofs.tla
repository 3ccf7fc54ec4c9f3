--------------------------- MODULE HardwareProofs ---------------------------
(***************************************************************************)
(* Proofs about what MCHardware composes: the start and stop of the        *)
(* sysmodule (Lifecycle), the services and platform constants of Board     *)
(* (BoardBringUp), what is done to the SoC's clocks and counters behind    *)
(* PCV's back (SocClocks), the chips behind I2C (PowerChips) and the       *)
(* temperature sensors (Thermal), each for any value of its constants.     *)
(***************************************************************************)
EXTENDS MCHardware, FiniteSetTheorems, WellFoundedInduction, TLAPS

Threads == {"ipc", "governor", "loads", "misc"}

ThreadStates == {"none", "created", "running", "ended", "freed"}

Logger == [initialized : BOOLEAN, enabled : BOOLEAN, age : 0..Interval,
           wrote : {"none", "line", "nothing"}]

\* What the requests work with.
Needed == {"clockManager", "config", "fileUtils"}

\* What main has brought up when it is at a step of its start.
Before == [appInit           |-> {},
           fileUtils         |-> {},
           config            |-> {"fileUtils"},
           board             |-> {"fileUtils", "config"},
           processManagement |-> {"fileUtils", "config"},
           qlaunch           |-> {"fileUtils", "config"},
           clockManager      |-> {"fileUtils", "config"},
           ipcService        |-> Needed,
           setRunning        |-> Needed]

---------------------------------------------------------------------------
(* The inductive invariant. *)

\* mainAt, threads, logger, logFlag and front are records and functions of their kind.
Types ==
    /\ mainAt = [phase |-> mainAt.phase, step |-> mainAt.step]
    /\ mainAt.phase \in {"up", "loop", "down", "ended"}
    /\ threads \in [Threads -> ThreadStates]
    /\ serving \in DOMAIN Uses \cup {"none"}
    /\ logger \in Logger
    /\ logFlag \in [there : BOOLEAN, since : 0..Interval]
    /\ front \in [pid : Nat, title : GameTitles \cup {"Qlaunch"}]

\* No thread was closed.
NoneFreed == \A t \in Threads : threads[t] # "freed"

\* The IPC service is gone, and its thread before it.
IpcGone == threads["ipc"] = "freed" /\ "ipcService" \notin up

\* Before the loop main goes through Startup, and the IPC thread does not run.
Rising ==
    mainAt.phase = "up" =>
        /\ mainAt.step \in DOMAIN Before
        /\ Before[mainAt.step] \subseteq up
        /\ threads["ipc"] \in {"none", "created"} /\ NoneFreed /\ ~stopping

\* In the loop, and until the IPC thread is asked to end, all is up.
Open ==
    Looping \/ Ending("stopIpc") =>
        Needed \subseteq up /\ threads["ipc"] = "running" /\ NoneFreed /\ ~stopping

\* While main waits for the IPC thread all is still up.
Waiting ==
    /\ Ending("joinIpc") =>
          Needed \subseteq up /\ threads["ipc"] \in {"running", "ended"} /\ NoneFreed
    /\ Ending("ipcService") =>
          Needed \subseteq up /\ threads["ipc"] = "ended" /\ NoneFreed

\* Whatever main closes later, it closes after the IPC thread and its service.
Closing ==
    /\ mainAt.phase = "down" => \E i \in DOMAIN Shutdown : mainAt.step = Shutdown[i]
    /\ mainAt.phase = "down" /\ mainAt.step \notin {"stopIpc", "joinIpc", "ipcService"} => IpcGone
    /\ (\E t \in Threads \ {"ipc"} : threads[t] = "freed") => IpcGone
    /\ mainAt.step = "fault" => IpcGone

\* Only a running IPC thread serves, and then with what it needs.
Serving ==
    serving # "none" => threads["ipc"] = "running" /\ Uses[serving] \subseteq up

IInv == Types /\ Rising /\ Open /\ Waiting /\ Closing /\ Serving

\* The flag the log goes by is the file's, or the file changed after the last look.
FlagKnown ==
    logger.initialized => (logger.enabled = logFlag.there \/ logFlag.since <= logger.age)

\* Between the two questions the game in front was seen, and so was the home menu
\* if it is another game than the one asked about.
FrontSeen ==
    question # 0 =>
        /\ front.title \in seen
        /\ front.pid = question \/ "Qlaunch" \in seen

---------------------------------------------------------------------------
(* Where main goes. *)

\* Follow goes to the next place of a sequence that names every step once.
LEMMA NextStep ==
    ASSUME NEW steps, NEW i \in DOMAIN steps, NEW last,
           \A j \in DOMAIN steps : steps[j] = steps[i] => j = i
    PROVE  Follow(steps, steps[i], last) =
               IF i < Len(steps) THEN [mainAt EXCEPT !.step = steps[i + 1]] ELSE last
<1>1. (CHOOSE j \in DOMAIN steps : steps[j] = steps[i]) = i
  OBVIOUS
<1> QED BY <1>1 DEF Follow

\* After each step of its start main is at the next, and after the last in the loop.
LEMMA StartOrder ==
    ASSUME Types, mainAt.phase = "up", NEW i \in DOMAIN Startup, NEW last,
           mainAt.step = Startup[i]
    PROVE  Follow(Startup, Startup[i], last) =
               IF i < 9 THEN [phase |-> "up", step |-> Startup[i + 1]] ELSE last
<1>1. DOMAIN Startup = 1..9 /\ Len(Startup) = 9
  BY DEF Startup
<1>2. \A j \in 1..9 : Startup[j] = Startup[i] => j = i
  BY <1>1 DEF Startup
<1>3. ASSUME NEW s PROVE [mainAt EXCEPT !.step = s] = [phase |-> "up", step |-> s]
  BY DEF Types
<1>4. \A j \in DOMAIN Startup : Startup[j] = Startup[i] => j = i
  BY <1>1, <1>2
<1>5. Follow(Startup, Startup[i], last) =
          IF i < Len(Startup) THEN [mainAt EXCEPT !.step = Startup[i + 1]] ELSE last
  BY ONLY <1>4, i \in DOMAIN Startup, NextStep
<1> QED BY <1>1, <1>3, <1>5

\* After each step of its end main is at the next, and after the last it returns.
LEMMA EndOrder ==
    ASSUME Types, mainAt.phase = "down", NEW i \in DOMAIN Shutdown, NEW last,
           mainAt.step = Shutdown[i]
    PROVE  Follow(Shutdown, mainAt.step, last) =
               IF i < 10 THEN [phase |-> "down", step |-> Shutdown[i + 1]] ELSE last
<1>1. DOMAIN Shutdown = 1..10 /\ Len(Shutdown) = 10
  BY DEF Shutdown
<1>2. \A j \in 1..10 : Shutdown[j] = Shutdown[i] => j = i
  BY <1>1 DEF Shutdown
<1>3. ASSUME NEW s PROVE [mainAt EXCEPT !.step = s] = [phase |-> "down", step |-> s]
  BY DEF Types
<1>4. \A j \in DOMAIN Shutdown : Shutdown[j] = Shutdown[i] => j = i
  BY <1>1, <1>2
<1>5. Follow(Shutdown, Shutdown[i], last) =
          IF i < Len(Shutdown) THEN [mainAt EXCEPT !.step = Shutdown[i + 1]] ELSE last
  BY ONLY <1>4, i \in DOMAIN Shutdown, NextStep
<1> QED BY <1>1, <1>3, <1>5

---------------------------------------------------------------------------
(* The log. *)

\* A look at the flag, or a line, leaves a log of its kind.
LEMMA LogTypes ==
    ASSUME Types
    PROVE  LogLine \in Logger /\ \A b \in BOOLEAN : RefreshFlags(b) \in Logger
<1>1. logger \in Logger /\ logFlag.there \in BOOLEAN /\ 0 \in 0..Interval
  BY LifeAssumption DEF Types
<1>2. ASSUME NEW b \in BOOLEAN PROVE RefreshFlags(b) \in Logger
  BY <1>1 DEF RefreshFlags, Logger
<1>3. ASSUME NEW l \in Logger, NEW w \in {"line", "nothing"}
      PROVE  [l EXCEPT !.wrote = w] \in Logger
  BY DEF Logger
<1>4. LogLine \in Logger
  <2>1. RefreshFlags(FALSE) \in Logger
    BY <1>2
  <2>2. (IF RefreshFlags(FALSE).enabled THEN "line" ELSE "nothing") \in {"line", "nothing"}
    BY Zenon
  <2> QED BY <1>1, <1>3, <2>1, <2>2 DEF LogLine
<1> QED BY <1>2, <1>4

\* A thread's new state is a state.
LEMMA ThreadTypes ==
    ASSUME Types
    PROVE  /\ \A t \in Threads, u \in ThreadStates :
                 [threads EXCEPT ![t] = u] \in [Threads -> ThreadStates]
           /\ \A ts : Close(ts) \in [Threads -> ThreadStates]
<1>1. \A t \in Threads, u \in ThreadStates :
         [threads EXCEPT ![t] = u] \in [Threads -> ThreadStates]
  BY DEF Types
<1>2. ASSUME NEW ts PROVE Close(ts) \in [Threads -> ThreadStates]
  <2>1. DOMAIN threads = Threads /\ \A t \in Threads : threads[t] \in ThreadStates
    BY DEF Types
  <2>2. "freed" \in ThreadStates
    BY DEF ThreadStates
  <2> QED BY <2>1, <2>2 DEF Close
<1> QED BY <1>1, <1>2

---------------------------------------------------------------------------
(* Types. *)

LEMMA TypesInit == LifeInit => Types
<1> SUFFICES ASSUME LifeInit PROVE Types
  OBVIOUS
<1>1. logger \in Logger
  BY LifeAssumption DEF LifeInit, Logger
<1>2. logFlag \in [there : BOOLEAN, since : 0..Interval]
  BY LifeAssumption DEF LifeInit
<1>3. threads \in [Threads -> ThreadStates]
  BY DEF LifeInit, Threads, ThreadStates
<1>4. serving = "none" /\ front \in [pid : Nat, title : GameTitles \cup {"Qlaunch"}]
  BY DEF LifeInit
<1>5. mainAt = [phase |-> mainAt.phase, step |-> mainAt.step] /\ mainAt.phase = "up"
  BY DEF LifeInit
<1> QED BY <1>1, <1>2, <1>3, <1>4, <1>5 DEF Types

\* The steps of main's start.
LEMMA TypesStart == ASSUME Types, NEW i \in DOMAIN Startup, StartsUp(Startup[i]) PROVE Types'
<1>1. mainAt.phase = "up" /\ mainAt.step = Startup[i]
  BY DEF StartsUp, Starting
<1>2. mainAt' = [phase |-> mainAt'.phase, step |-> mainAt'.step]
      /\ mainAt'.phase \in {"up", "loop", "down", "ended"}
  <2>1. mainAt' = IF i < 9 THEN [phase |-> "up", step |-> Startup[i + 1]]
                  ELSE [phase |-> "loop", step |-> "tick"]
    BY <1>1, StartOrder DEF StartsUp
  <2> QED BY <2>1
<1>3. threads' \in [Threads -> ThreadStates]
  <2>1. Threads = {"ipc", "governor", "loads", "misc"} /\ {"running", "created"} \subseteq ThreadStates
    BY DEF Threads, ThreadStates
  <2>2. CASE BoardInitialize
    <3>1. [threads EXCEPT !["loads"] = "running"] \in [Threads -> ThreadStates]
      BY <2>1, ThreadTypes
    <3> QED BY <2>1, <2>2, <3>1 DEF BoardInitialize
  <2>3. CASE UNCHANGED threads \/ \E t \in Threads, u \in {"running", "created"} :
                 threads' = [threads EXCEPT ![t] = u]
    BY <2>1, <2>3, ThreadTypes DEF Types
  <2> QED BY <2>1, <2>2, <2>3 DEF StartsUp, AppInit, FileUtilsInitialize, ConfigInitialize,
       PmInitialize, WaitForQLaunch, ManagerInitialize, IpcInitialize, StartRunning
<1>4. logger' \in Logger
  <2>1. CASE FileUtilsInitialize
    <3>1. RefreshFlags(TRUE) \in Logger
      BY LogTypes
    <3>2. (IF logFlag.there THEN "line" ELSE "nothing") \in {"line", "nothing"}
      BY Zenon
    <3> QED BY <2>1, <3>1, <3>2 DEF FileUtilsInitialize, Logger
  <2>2. CASE logger' = LogLine \/ UNCHANGED logger
    BY <2>2, LogTypes DEF Types
  <2> QED BY <2>1, <2>2 DEF StartsUp, AppInit, ConfigInitialize, BoardInitialize, PmInitialize,
       WaitForQLaunch, ManagerInitialize, IpcInitialize, StartRunning
<1>5. UNCHANGED <<serving, logFlag, front>>
  BY DEF StartsUp
<1> QED BY <1>2, <1>3, <1>4, <1>5 DEF Types

\* The steps of main's end.
LEMMA TypesEnd ==
    ASSUME Types, GoesDown, \E i \in DOMAIN Shutdown : mainAt.step = Shutdown[i]
    PROVE  Types'
<1>1. mainAt.phase = "down"
  BY DEF GoesDown, StopIpc, JoinIpc, LastLine, FileUtilsExit, AppExit, TakeDown, Ending
<1>2. PICK i \in DOMAIN Shutdown : mainAt.step = Shutdown[i]
  OBVIOUS
<1>3. mainAt' = [phase |-> mainAt'.phase, step |-> mainAt'.step]
      /\ mainAt'.phase \in {"up", "loop", "down", "ended"}
  <2>1. mainAt' = IF i < 10 THEN [phase |-> "down", step |-> Shutdown[i + 1]]
                  ELSE [phase |-> "ended", step |-> "returned"]
    BY <1>1, <1>2, EndOrder DEF GoesDown, Died
  <2> QED BY <2>1
<1>4. threads' \in [Threads -> ThreadStates]
  BY ThreadTypes DEF GoesDown, StopIpc, JoinIpc, LastLine, FileUtilsExit, AppExit, TakeDown, Types
<1>5. logger' \in Logger
  BY LogTypes DEF GoesDown, StopIpc, JoinIpc, LastLine, FileUtilsExit, AppExit, TakeDown, Types, Logger
<1> QED BY <1>3, <1>4, <1>5 DEF Types, GoesDown

\* Every other step.
LEMMA TypesElse ==
    ASSUME Types, NEW i \in DOMAIN Startup,
           \/ InitFails(Startup[i]) \/ LeaveLoop \/ Throws \/ ThreadFaults
           \/ StartGame \/ EndGame \/ AskPid \/ AskTitle
           \/ TakeRequest \/ FinishRequest \/ IpcThreadEnds
           \/ ToggleFlag \/ Clock \/ Logs
    PROVE  Types'
<1>1. CASE InitFails(Startup[i]) \/ LeaveLoop \/ ThreadFaults
  BY <1>1 DEF InitFails, LeaveLoop, ThreadFaults, Died, Types
<1>2. CASE Throws \/ Logs
  BY <1>2, LogTypes DEF Throws, Logs, Died, Types
<1>3. CASE StartGame \/ EndGame
  <2>1. front' \in [pid : Nat, title : GameTitles \cup {"Qlaunch"}]
    BY <1>3, LifeAssumption DEF StartGame, EndGame, Types
  <2> QED BY <1>3, <2>1 DEF StartGame, EndGame, Types
<1>4. CASE AskPid \/ AskTitle
  BY <1>4 DEF AskPid, AskTitle, Types
<1>5. CASE TakeRequest \/ FinishRequest
  BY <1>5 DEF TakeRequest, FinishRequest, Types
<1>6. CASE IpcThreadEnds
  <2>1. "ipc" \in Threads /\ "ended" \in ThreadStates
    BY DEF Threads, ThreadStates
  <2>2. threads' \in [Threads -> ThreadStates]
    BY <1>6, <2>1, ThreadTypes DEF IpcThreadEnds
  <2> QED BY <1>6, <2>2 DEF IpcThreadEnds, Types
<1>7. CASE ToggleFlag
  <2>1. logFlag' \in [there : BOOLEAN, since : 0..Interval]
    BY <1>7, LifeAssumption DEF ToggleFlag, Types
  <2> QED BY <1>7, <2>1 DEF ToggleFlag, Types
<1>8. CASE Clock
  <2>1. \A n \in 0..Interval : Older(n) \in 0..Interval
    BY LifeAssumption DEF Older
  <2>2. logFlag' \in [there : BOOLEAN, since : 0..Interval]
    BY <1>8, <2>1 DEF Clock, Types
  <2>3. logger' \in Logger
    BY <1>8, <2>1 DEF Clock, Types, Logger
  <2> QED BY <1>8, <2>2, <2>3 DEF Clock, Types
<1> QED BY <1>1, <1>2, <1>3, <1>4, <1>5, <1>6, <1>7, <1>8

---------------------------------------------------------------------------
(* The inductive invariant holds. *)

LEMMA IInvInit == LifeInit => IInv
<1> SUFFICES ASSUME LifeInit PROVE IInv
  OBVIOUS
<1>1. Types
  BY TypesInit
<1>2. Rising
  <2>1. NoneFreed /\ threads["ipc"] = "none"
    BY DEF LifeInit, NoneFreed, Threads
  <2>2. mainAt.step = "appInit" /\ Before["appInit"] = {} /\ "appInit" \in DOMAIN Before
    BY DEF LifeInit, Before
  <2> QED BY <2>1, <2>2 DEF LifeInit, Rising
<1>3. Open /\ Waiting /\ Closing /\ Serving
  BY DEF LifeInit, Open, Waiting, Closing, Serving, Looping, Ending, Threads
<1> QED BY <1>1, <1>2, <1>3 DEF IInv

\* What main and the threads have does not change with the log, the game in front
\* or the end of a request.
LEMMA Undisturbed ==
    ASSUME IInv, Types', UNCHANGED <<mainAt, up, threads, stopping>>,
           UNCHANGED serving \/ serving' = "none"
    PROVE  IInv'
<1>1. Rising' /\ Open' /\ Waiting' /\ Closing'
  BY DEF IInv, Rising, Open, Waiting, Closing, Looping, Ending, NoneFreed, IpcGone
<1>2. Serving'
  BY DEF IInv, Serving
<1> QED BY <1>1, <1>2 DEF IInv

\* Main ends where it stands; a fault needs a thread that was closed.
LEMMA Ends ==
    ASSUME IInv, Types', UNCHANGED <<up, threads, stopping, serving>>, NEW why,
           mainAt' = Died(why), why = "fault" => IpcGone
    PROVE  IInv'
<1>1. mainAt'.phase = "ended" /\ mainAt'.step = why
  BY DEF Died
<1>2. Rising' /\ Open' /\ Waiting'
  BY <1>1 DEF Rising, Open, Waiting, Looping, Ending
<1>3. Closing' /\ Serving'
  BY <1>1 DEF IInv, Closing, Serving, IpcGone, Ending
<1> QED BY <1>2, <1>3 DEF IInv

\* A step of main's start brings up what the steps after it count on.
LEMMA StartBrings ==
    ASSUME NEW i \in DOMAIN Startup
    PROVE  /\ i < 9 => /\ Startup[i + 1] \in DOMAIN Before
                       /\ Before[Startup[i + 1]] \subseteq Before[Startup[i]] \cup {Startup[i]}
           /\ Startup[i] \in DOMAIN Before
           /\ i = 9 <=> Startup[i] = "setRunning"
<1>1. i \in 1..9
  BY DEF Startup
<1>2. CASE i = 1  BY <1>2 DEF Startup, Before
<1>3. CASE i = 2  BY <1>3 DEF Startup, Before
<1>4. CASE i = 3  BY <1>4 DEF Startup, Before
<1>5. CASE i = 4  BY <1>5 DEF Startup, Before
<1>6. CASE i = 5  BY <1>6 DEF Startup, Before
<1>7. CASE i = 6  BY <1>7 DEF Startup, Before
<1>8. CASE i = 7  BY <1>8 DEF Startup, Before, Needed
<1>9. CASE i = 8  BY <1>9 DEF Startup, Before
<1>10. CASE i = 9 BY <1>10 DEF Startup, Before
<1> QED BY <1>1, <1>2, <1>3, <1>4, <1>5, <1>6, <1>7, <1>8, <1>9, <1>10

LEMMA StartKeeps == ASSUME IInv, NEW i \in DOMAIN Startup, StartsUp(Startup[i]) PROVE IInv'
<1> DEFINE s == Startup[i]
<1>1. mainAt.phase = "up" /\ mainAt.step = s /\ s \in DOMAIN Before /\ Before[s] \subseteq up
      /\ threads["ipc"] \in {"none", "created"} /\ NoneFreed /\ ~stopping
  BY DEF StartsUp, Starting, IInv, Rising
<1>2. Types /\ Types' /\ serving = "none" /\ serving' = "none" /\ ~stopping'
  BY <1>1, TypesStart DEF IInv, Serving, StartsUp
<1>3. mainAt' = IF i < 9 THEN [phase |-> "up", step |-> Startup[i + 1]]
                ELSE [phase |-> "loop", step |-> "tick"]
  BY <1>1, <1>2, StartOrder DEF StartsUp
<1>4. up \subseteq up' /\ (s \in Needed => s \in up')
  BY DEF StartsUp, AppInit, FileUtilsInitialize, ConfigInitialize, BoardInitialize, PmInitialize,
     WaitForQLaunch, ManagerInitialize, IpcInitialize, StartRunning, Needed
<1>5. /\ s # "setRunning" => threads'["ipc"] \in {"none", "created"}
      /\ s = "setRunning" => threads'["ipc"] = "running"
      /\ NoneFreed'
  <2>1. Threads = {"ipc", "governor", "loads", "misc"} /\ DOMAIN threads = Threads
    BY <1>2 DEF Types, Threads
  <2>2. CASE s = "setRunning"
    <3>1. StartRunning
      BY <2>2 DEF StartsUp
    <3> QED BY <1>1, <2>1, <2>2, <3>1 DEF StartRunning, NoneFreed
  <2>3. CASE s # "setRunning"
    <3>1. CASE AppInit \/ FileUtilsInitialize \/ ConfigInitialize \/ PmInitialize \/ WaitForQLaunch
      BY <1>1, <2>3, <3>1 DEF AppInit, FileUtilsInitialize, ConfigInitialize, PmInitialize,
         WaitForQLaunch, NoneFreed
    <3>2. CASE BoardInitialize
      BY <1>1, <2>1, <2>3, <3>2 DEF BoardInitialize, NoneFreed
    <3>3. CASE ManagerInitialize
      BY <1>1, <2>1, <2>3, <3>3 DEF ManagerInitialize, NoneFreed
    <3>4. CASE IpcInitialize
      BY <1>1, <2>1, <2>3, <3>4 DEF IpcInitialize, NoneFreed
    <3> QED BY <2>3, <3>1, <3>2, <3>3, <3>4 DEF StartsUp
  <2> QED BY <2>2, <2>3
<1>6. CASE i < 9
  <2>1. mainAt'.phase = "up" /\ mainAt'.step = Startup[i + 1]
    BY <1>3, <1>6
  <2>2. s # "setRunning"
    BY <1>6, StartBrings
  <2>3. Startup[i + 1] \in DOMAIN Before /\ Before[Startup[i + 1]] \subseteq up'
    <3>1. \A t \in DOMAIN Before : Before[t] \subseteq Needed
      BY DEF Before, Needed
    <3>2. Startup[i + 1] \in DOMAIN Before
          /\ Before[Startup[i + 1]] \subseteq Before[s] \cup {s}
      BY <1>6, StartBrings
    <3> QED BY <1>1, <1>4, <3>1, <3>2
  <2>4. Rising'
    BY <1>2, <1>5, <2>1, <2>2, <2>3 DEF Rising
  <2>5. Open' /\ Waiting' /\ Closing' /\ Serving'
    <3>1. mainAt'.step # "fault"
      BY <2>1, <2>3 DEF Before
    <3> QED BY <1>2, <1>5, <2>1, <3>1
         DEF Open, Waiting, Closing, Serving, Looping, Ending, NoneFreed
  <2> QED BY <1>2, <2>4, <2>5 DEF IInv
<1>7. CASE ~(i < 9)
  <2>1. mainAt'.phase = "loop" /\ mainAt'.step = "tick"
    BY <1>3, <1>7
  <2>2. i = 9
    BY <1>7 DEF Startup
  <2>3. s = "setRunning"
    BY <2>2, StartBrings
  <2>4. Needed \subseteq up'
    <3>1. Before["setRunning"] = Needed
      BY DEF Before
    <3> QED BY <1>1, <1>4, <2>3, <3>1
  <2> QED BY <1>2, <1>5, <2>1, <2>3, <2>4
       DEF IInv, Rising, Open, Waiting, Closing, Serving, Looping, Ending, NoneFreed
<1> QED BY <1>6, <1>7

\* A step of main's end, in its place.
LEMMA EndKeeps == ASSUME IInv, GoesDown PROVE IInv'
<1>1. mainAt.phase = "down" /\ mainAt = [phase |-> "down", step |-> mainAt.step]
  BY DEF GoesDown, StopIpc, JoinIpc, LastLine, FileUtilsExit, AppExit, TakeDown, Ending
<1>2. PICK i \in DOMAIN Shutdown : mainAt.step = Shutdown[i]
  BY <1>1 DEF IInv, Closing
<1>3. Types /\ Types' /\ UNCHANGED serving
  BY <1>2, TypesEnd DEF IInv, GoesDown
<1>4. i \in 1..10
  BY DEF Shutdown
<1>5. mainAt' = IF i < 10 THEN [phase |-> "down", step |-> Shutdown[i + 1]] ELSE Died("returned")
  BY <1>1, <1>2, <1>3, EndOrder DEF GoesDown
<1>6. CASE i = 1
  <2>1. mainAt.step = "stopIpc" /\ mainAt' = [phase |-> "down", step |-> "joinIpc"]
    BY <1>2, <1>5, <1>6 DEF Shutdown
  <2>2. StopIpc
    BY <1>1, <2>1 DEF GoesDown, JoinIpc, LastLine, FileUtilsExit, AppExit, TakeDown, Ending, Closes
  <2>3. UNCHANGED <<up, threads>> /\ Needed \subseteq up /\ threads["ipc"] = "running" /\ NoneFreed
    BY <1>1, <2>1, <2>2 DEF StopIpc, IInv, Open, Ending
  <2> QED BY <1>2, <1>3, <2>1, <2>3
       DEF IInv, Rising, Open, Waiting, Closing, Serving, Looping, Ending, NoneFreed, IpcGone, Shutdown
<1>7. CASE i = 2
  <2>1. mainAt.step = "joinIpc" /\ mainAt' = [phase |-> "down", step |-> "ipcService"]
    BY <1>2, <1>5, <1>7 DEF Shutdown
  <2>2. JoinIpc
    BY <1>1, <2>1 DEF GoesDown, StopIpc, LastLine, FileUtilsExit, AppExit, TakeDown, Ending, Closes
  <2>3. UNCHANGED <<up, threads>> /\ Needed \subseteq up /\ threads["ipc"] = "ended" /\ NoneFreed
    BY <1>1, <2>1, <2>2 DEF JoinIpc, IInv, Waiting, Ending
  <2> QED BY <1>2, <1>3, <2>1, <2>3
       DEF IInv, Rising, Open, Waiting, Closing, Serving, Looping, Ending, NoneFreed, IpcGone, Shutdown
<1>8. CASE i > 2
  <2>1. IpcGone' /\ serving = "none"
    <3>1. CASE i = 3
      <4>1. mainAt.step = "ipcService"
        BY <1>2, <3>1 DEF Shutdown
      <4>2. TakeDown("ipcService") /\ threads["ipc"] = "ended"
        BY <1>1, <4>1 DEF GoesDown, StopIpc, JoinIpc, LastLine, FileUtilsExit, AppExit, TakeDown,
           Ending, IInv, Waiting
      <4>3. "ipc" \in DOMAIN threads
        BY <1>3 DEF Types, Threads
      <4> QED BY <4>2, <4>3 DEF TakeDown, Closes, Close, IpcGone, IInv, Serving
    <3>2. CASE i > 3
      <4>1. mainAt.step \notin {"stopIpc", "joinIpc", "ipcService"}
        BY <1>2, <1>4, <3>2 DEF Shutdown
      <4>2. IpcGone
        BY <1>1, <4>1 DEF IInv, Closing
      <4>3. threads'["ipc"] = "freed" /\ up' \subseteq up
        BY <1>3, <4>2 DEF GoesDown, StopIpc, JoinIpc, LastLine, FileUtilsExit, AppExit, TakeDown,
           Close, IpcGone, Types, Threads
      <4> QED BY <4>2, <4>3 DEF IpcGone, IInv, Serving
    <3> QED BY <1>4, <1>8, <3>1, <3>2
  <2>2. CASE i = 10
    <3>1. mainAt'.phase = "ended" /\ mainAt'.step = "returned"
      BY <1>5, <2>2 DEF Died
    <3> QED BY <1>3, <2>1, <3>1
         DEF IInv, Rising, Open, Waiting, Closing, Serving, Looping, Ending
  <2>3. CASE i < 10
    <3>1. mainAt'.phase = "down" /\ mainAt'.step = Shutdown[i + 1] /\ i + 1 \in DOMAIN Shutdown
      BY <1>4, <1>5, <2>3 DEF Shutdown
    <3>2. mainAt'.step \notin {"stopIpc", "joinIpc", "ipcService", "fault"}
      BY <1>4, <1>8, <2>3, <3>1 DEF Shutdown
    <3> QED BY <1>3, <2>1, <3>1, <3>2
         DEF IInv, Rising, Open, Waiting, Closing, Serving, Looping, Ending
  <2> QED BY <1>4, <2>2, <2>3
<1> QED BY <1>4, <1>6, <1>7, <1>8

\* The loop, the requests, and the ends of the process.
LEMMA ElseKeeps ==
    ASSUME IInv, Types', NEW i \in DOMAIN Startup,
           \/ InitFails(Startup[i]) \/ LeaveLoop \/ Throws \/ ThreadFaults
           \/ StartGame \/ EndGame \/ AskPid \/ AskTitle
           \/ TakeRequest \/ FinishRequest \/ IpcThreadEnds
           \/ ToggleFlag \/ Clock \/ Logs
    PROVE  IInv'
<1>1. CASE InitFails(Startup[i])
  <2>1. Startup[i] # "fault"
    BY <1>1 DEF InitFails, MayFail
  <2> QED BY <1>1, <2>1, Ends DEF InitFails
<1>2. CASE LeaveLoop
  <2>1. Looping /\ mainAt'.phase = "down" /\ mainAt'.step = "stopIpc"
        /\ UNCHANGED <<up, threads, stopping, serving>>
    BY <1>2 DEF LeaveLoop, Shutdown
  <2>2. Rising' /\ Open' /\ Waiting' /\ Serving'
    BY <2>1 DEF IInv, Rising, Open, Waiting, Serving, Looping, Ending, NoneFreed
  <2>3. Closing'
    <3>1. "stopIpc" = Shutdown[1] /\ 1 \in DOMAIN Shutdown
      BY DEF Shutdown
    <3> QED BY <2>1, <3>1 DEF IInv, Closing, IpcGone
  <2> QED BY <2>2, <2>3 DEF IInv
<1>3. CASE Throws
  BY <1>3, Ends DEF Throws
<1>4. CASE ThreadFaults
  <2>1. IpcGone
    BY <1>4 DEF ThreadFaults, IInv, Closing, Threads
  <2> QED BY <1>4, <2>1, Ends DEF ThreadFaults
<1>5. CASE StartGame \/ EndGame \/ AskPid \/ AskTitle \/ ToggleFlag \/ Clock \/ Logs
  BY <1>5, Undisturbed DEF StartGame, EndGame, AskPid, AskTitle, ToggleFlag, Clock, Logs
<1>6. CASE FinishRequest
  BY <1>6, Undisturbed DEF FinishRequest
<1>7. CASE TakeRequest
  <2>1. UNCHANGED <<mainAt, up, threads, stopping>> /\ threads["ipc"] = "running"
        /\ mainAt.phase # "ended" /\ ~stopping
    BY <1>7 DEF TakeRequest, Alive
  <2>2. Rising' /\ Open' /\ Waiting' /\ Closing'
    BY <2>1 DEF IInv, Rising, Open, Waiting, Closing, Looping, Ending, NoneFreed, IpcGone
  <2>3. Serving'
    <3>1. ASSUME mainAt.phase \in {"loop", "down"} PROVE Needed \subseteq up
      <4>1. mainAt.phase = "down" => mainAt = [phase |-> "down", step |-> mainAt.step]
        BY DEF IInv, Types
      <4> QED BY <2>1, <3>1, <4>1 DEF IInv, Open, Waiting, Closing, IpcGone, Looping, Ending
    <3>2. mainAt.phase \in {"loop", "down"}
      BY <2>1 DEF IInv, Rising, Types
    <3>3. \A r \in DOMAIN Uses : Uses[r] \subseteq Needed
      BY DEF Uses, Needed
    <3> QED BY <1>7, <2>1, <3>1, <3>2, <3>3 DEF TakeRequest, Serving
  <2> QED BY <2>2, <2>3 DEF IInv
<1>8. CASE IpcThreadEnds
  <2>1. UNCHANGED <<mainAt, up, stopping>> /\ stopping /\ threads["ipc"] = "running"
        /\ serving' = "none" /\ threads' = [threads EXCEPT !["ipc"] = "ended"]
    BY <1>8 DEF IpcThreadEnds
  <2>2. threads'["ipc"] = "ended" /\ \A t \in Threads \ {"ipc"} : threads'[t] = threads[t]
    BY <2>1 DEF IInv, Types, Threads
  <2>3. ~IpcGone /\ (NoneFreed => NoneFreed')
    BY <2>1, <2>2 DEF IpcGone, NoneFreed
  <2>4. Rising' /\ Open' /\ Serving'
    BY <2>1 DEF IInv, Rising, Open, Serving, Looping, Ending
  <2>5. Waiting' /\ Closing'
    BY <2>1, <2>2, <2>3 DEF IInv, Waiting, Closing, Ending
  <2> QED BY <2>4, <2>5 DEF IInv
<1> QED BY <1>1, <1>2, <1>3, <1>4, <1>5, <1>6, <1>7, <1>8

LEMMA IInvNext == IInv /\ [LifeNext]_life => IInv'
<1> SUFFICES ASSUME IInv, [LifeNext]_life PROVE IInv'
  OBVIOUS
<1>1. CASE UNCHANGED life
  BY <1>1 DEF life, IInv, Types, Rising, Open, Waiting, Closing, Serving, Looping, Ending,
     NoneFreed, IpcGone
<1>2. ASSUME NEW i \in DOMAIN Startup, StartsUp(Startup[i]) PROVE IInv'
  BY <1>2, StartKeeps
<1>3. CASE GoesDown
  BY <1>3, EndKeeps
<1>4. ASSUME NEW i \in DOMAIN Startup,
             \/ InitFails(Startup[i]) \/ LeaveLoop \/ Throws \/ ThreadFaults
             \/ StartGame \/ EndGame \/ AskPid \/ AskTitle
             \/ TakeRequest \/ FinishRequest \/ IpcThreadEnds
             \/ ToggleFlag \/ Clock \/ Logs
      PROVE  IInv'
  <2>1. Types'
    BY <1>4, TypesElse DEF IInv
  <2> QED BY <1>4, <2>1, ElseKeeps
<1>5. 1 \in DOMAIN Startup
  BY DEF Startup
<1> QED BY <1>1, <1>2, <1>3, <1>4, <1>5 DEF LifeNext

LEMMA Invariant == LifeSpec => []IInv
BY IInvInit, IInvNext, PTL DEF LifeSpec

\* The order of main keeps up whatever a request works with until its answer, and a
\* thread closed while it ran faults only after the IPC service is gone.
THEOREM ServedByLiveHolds == LifeSpec => []ServedByLive
<1>1. IInv => ServedByLive
  BY DEF IInv, Serving, Closing, IpcGone, ServedByLive
<1> QED BY <1>1, Invariant, PTL

---------------------------------------------------------------------------
(* The log follows its flag. *)

\* A look, or a line, that a step may take leaves the flag known, and a line says
\* what the file said within the last interval.
LEMMA LineFollowsFlag ==
    ASSUME Types, FlagKnown, logger' = LogLine, UNCHANGED logFlag
    PROVE  /\ FlagKnown'
           /\ logger'.wrote # logger.wrote /\ logger'.wrote # "none" =>
                 (logger'.wrote = "line") = logFlag.there \/ logFlag.since < Interval
<1>1. CASE ~logger.initialized
  BY <1>1 DEF LogLine, FlagKnown
<1>2. CASE logger.initialized
  <2> DEFINE l == RefreshFlags(FALSE)
  <2>1. logger \in Logger /\ logFlag.since \in 0..Interval /\ logFlag.there \in BOOLEAN
    BY DEF Types
  <2>2. l \in Logger /\ l.initialized = TRUE
    BY <1>2, <2>1, LogTypes DEF RefreshFlags, Logger
  <2>3. \/ l.enabled = logFlag.there
        \/ l.enabled = logger.enabled /\ l.age = logger.age /\ logger.age < Interval
    BY <2>1, LifeAssumption DEF RefreshFlags, Logger
  <2>4. \/ l.enabled = logFlag.there
        \/ logFlag.since <= l.age /\ logFlag.since < Interval
    <3>1. CASE l.enabled = logFlag.there
      BY <3>1
    <3>2. CASE l.enabled = logger.enabled /\ l.age = logger.age /\ logger.age < Interval
      <4>1. CASE logger.enabled = logFlag.there
        BY <3>2, <4>1
      <4>2. CASE logFlag.since <= logger.age
        <5>1. logger.age \in 0..Interval /\ logFlag.since \in 0..Interval
          BY <2>1 DEF Logger
        <5>2. logFlag.since < Interval
          BY <3>2, <4>2, <5>1, LifeAssumption
        <5> QED BY <3>2, <4>2, <5>2
      <4> QED BY <1>2, <4>1, <4>2 DEF FlagKnown
    <3> QED BY <2>3, <3>1, <3>2
  <2> HIDE DEF l
  <2>5. logger' = [l EXCEPT !.wrote = IF l.enabled THEN "line" ELSE "nothing"]
    BY <1>2 DEF LogLine, l
  <2>6. /\ logger'.enabled = l.enabled /\ logger'.age = l.age
        /\ logger'.wrote = IF l.enabled THEN "line" ELSE "nothing"
    BY <2>2, <2>5 DEF Logger
  <2>7. (logger'.wrote = "line") = l.enabled
    BY <2>2, <2>6 DEF Logger
  <2> QED BY <2>1, <2>2, <2>4, <2>6, <2>7 DEF FlagKnown, Logger
<1> QED BY <1>1, <1>2

\* What a step may do to the log and to its flag.
LEMMA LogMoves ==
    ASSUME [LifeNext]_life
    PROVE  \/ (logger' = LogLine \/ UNCHANGED logger) /\ UNCHANGED logFlag
           \/ (FileUtilsInitialize \/ FileUtilsExit) /\ UNCHANGED logFlag
           \/ ToggleFlag \/ Clock
<1>1. CASE UNCHANGED life
  BY <1>1 DEF life
<1>2. ASSUME NEW i \in DOMAIN Startup, StartsUp(Startup[i]) \/ InitFails(Startup[i])
      PROVE  (FileUtilsInitialize \/ logger' = LogLine \/ UNCHANGED logger) /\ UNCHANGED logFlag
  BY <1>2 DEF StartsUp, InitFails, AppInit, ConfigInitialize, BoardInitialize, PmInitialize,
     WaitForQLaunch, ManagerInitialize, IpcInitialize, StartRunning
<1>3. CASE GoesDown
  BY <1>3 DEF GoesDown, StopIpc, JoinIpc, LastLine, AppExit, TakeDown
<1>4. CASE LeaveLoop \/ Throws \/ ThreadFaults \/ StartGame \/ EndGame \/ AskPid \/ AskTitle
           \/ TakeRequest \/ FinishRequest \/ IpcThreadEnds \/ Logs
  BY <1>4 DEF LeaveLoop, Throws, ThreadFaults, StartGame, EndGame, AskPid, AskTitle,
     TakeRequest, FinishRequest, IpcThreadEnds, Logs
<1> QED BY <1>1, <1>2, <1>3, <1>4 DEF LifeNext

LEMMA LogStep ==
    ASSUME Types, Types', FlagKnown, [LifeNext]_life
    PROVE  /\ FlagKnown'
           /\ logger'.wrote # logger.wrote /\ logger'.wrote # "none" =>
                 (logger'.wrote = "line") = logFlag.there \/ logFlag.since < Interval
<1>1. logger \in Logger /\ logger' \in Logger /\ logFlag \in [there : BOOLEAN, since : 0..Interval]
  BY DEF Types
<1>2. CASE logger' = LogLine /\ UNCHANGED logFlag
  BY <1>2, LineFollowsFlag
<1>3. CASE UNCHANGED <<logger, logFlag>>
  BY <1>3 DEF FlagKnown
<1>4. CASE FileUtilsInitialize /\ UNCHANGED logFlag
  <2> DEFINE w == IF logFlag.there THEN "line" ELSE "nothing"
  <2>1. /\ RefreshFlags(TRUE) = [logger EXCEPT !.enabled = logFlag.there, !.age = 0]
        /\ logger' = [RefreshFlags(TRUE) EXCEPT !.initialized = TRUE, !.wrote = w]
    BY <1>4 DEF RefreshFlags, FileUtilsInitialize
  <2>2. logger'.enabled = logFlag.there /\ logger'.wrote = w
    BY <1>1, <2>1 DEF Logger
  <2>3. (w = "line") = logFlag.there
    BY <1>1
  <2> QED BY <1>4, <2>2, <2>3 DEF FlagKnown
<1>5. CASE FileUtilsExit /\ UNCHANGED logFlag
  <2>1. logger'.initialized = FALSE /\ logger'.wrote = logger.wrote
    BY <1>1, <1>5 DEF FileUtilsExit, Logger
  <2> QED BY <2>1 DEF FlagKnown
<1>6. CASE ToggleFlag
  <2>1. UNCHANGED logger /\ logFlag'.since = 0 /\ 0 <= logger.age
    BY <1>1, <1>6 DEF ToggleFlag, Logger
  <2> QED BY <2>1 DEF FlagKnown
<1>7. CASE Clock
  <2>1. /\ logger'.initialized = logger.initialized /\ logger'.enabled = logger.enabled
        /\ logger'.age = Older(logger.age) /\ logger'.wrote = "none"
    BY <1>1, <1>7 DEF Clock, Logger
  <2>2. logFlag'.there = logFlag.there /\ logFlag'.since = Older(logFlag.since)
    BY <1>1, <1>7 DEF Clock
  <2>3. \A m, n \in 0..Interval : m <= n => Older(m) <= Older(n)
    BY LifeAssumption DEF Older
  <2>4. logger.age \in 0..Interval /\ logFlag.since \in 0..Interval
    BY <1>1 DEF Logger
  <2>5. logFlag.since <= logger.age => logFlag'.since <= logger'.age
    BY <2>1, <2>2, <2>3, <2>4
  <2> QED BY <2>1, <2>2, <2>5 DEF FlagKnown
<1> QED BY <1>2, <1>3, <1>4, <1>5, <1>6, <1>7, LogMoves

LEMMA FlagAlwaysKnown == LifeSpec => [](IInv /\ FlagKnown)
<1>1. LifeInit => IInv /\ FlagKnown
  BY IInvInit DEF LifeInit, FlagKnown
<1>2. (IInv /\ FlagKnown) /\ [LifeNext]_life => (IInv /\ FlagKnown)'
  <2>1. IInv /\ [LifeNext]_life => IInv'
    BY IInvNext
  <2>2. IInv => Types
    BY DEF IInv
  <2>3. IInv' => Types'
    BY DEF IInv
  <2> QED BY <2>1, <2>2, <2>3, LogStep
<1> QED BY <1>1, <1>2, PTL DEF LifeSpec

\* A line is logged or left out against the flag file only while the file's last
\* change is younger than an interval.
THEOREM LogFollowsFlagHolds == LifeSpec => LogFollowsFlag
<1>1. (IInv /\ FlagKnown) /\ (IInv /\ FlagKnown)' /\ [LifeNext]_life =>
         [logger'.wrote # logger.wrote /\ logger'.wrote # "none" =>
             \/ (logger'.wrote = "line") = logFlag.there
             \/ logFlag.since < Interval]_life
  <2>1. IInv => Types
    BY DEF IInv
  <2>2. IInv' => Types'
    BY DEF IInv
  <2> QED BY <2>1, <2>2, LogStep
<1> QED BY <1>1, FlagAlwaysKnown, PTL DEF LifeSpec, LogFollowsFlag

---------------------------------------------------------------------------
(* The title answered was in front. *)

LEMMA FrontStep ==
    ASSUME Types, FrontSeen, [LifeNext]_life
    PROVE  FrontSeen' /\ (question # 0 /\ question' = 0 => tid' \in seen)
<1>1. front \in [pid : Nat, title : GameTitles \cup {"Qlaunch"}]
  BY DEF Types
<1>2. CASE StartGame
  <2>1. PICK t \in GameTitles :
           /\ front' = [pid |-> front.pid + 1, title |-> t]
           /\ seen' = IF question = 0 THEN seen ELSE seen \cup {t}
    BY <1>2 DEF StartGame
  <2>2. front'.title = t /\ front.title = "Qlaunch" /\ UNCHANGED question
    BY <1>2, <2>1 DEF StartGame
  <2> QED BY <2>1, <2>2 DEF FrontSeen
<1>3. CASE EndGame
  <2>1. front'.pid = front.pid /\ front'.title = "Qlaunch" /\ UNCHANGED question
        /\ seen' = IF question = 0 THEN seen ELSE seen \cup {"Qlaunch"}
    BY <1>1, <1>3 DEF EndGame
  <2> QED BY <2>1 DEF FrontSeen
<1>4. CASE AskPid
  BY <1>4 DEF AskPid, FrontSeen
<1>5. CASE AskTitle
  <2>1. question # 0 /\ question' = 0 /\ tid' = Title(question)
    BY <1>5 DEF AskTitle
  <2>2. Title(question) \in seen
    BY <2>1 DEF FrontSeen, Title
  <2> QED BY <2>1, <2>2 DEF FrontSeen
<1>6. CASE UNCHANGED <<front, question, seen>>
  BY <1>6 DEF FrontSeen
<1>7. ASSUME NEW i \in DOMAIN Startup, StartsUp(Startup[i]) \/ InitFails(Startup[i])
      PROVE  UNCHANGED <<front, question, seen>>
  BY <1>7 DEF StartsUp, InitFails
<1>8. CASE UNCHANGED life \/ GoesDown \/ LeaveLoop \/ Throws \/ ThreadFaults
           \/ TakeRequest \/ FinishRequest \/ IpcThreadEnds \/ ToggleFlag \/ Clock \/ Logs
  <2>1. UNCHANGED <<front, question, seen>>
    BY <1>8 DEF life, GoesDown, LeaveLoop, Throws, ThreadFaults, TakeRequest, FinishRequest,
       IpcThreadEnds, ToggleFlag, Clock, Logs
  <2> QED BY <1>6, <2>1
<1> QED BY <1>2, <1>3, <1>4, <1>5, <1>6, <1>7, <1>8 DEF LifeNext

\* Whatever games end and start between its two calls, GetCurrentApplicationId
\* answers a title that was in front in the meantime.
THEOREM TidWasInFrontHolds == LifeSpec => TidWasInFront
<1>1. LifeInit => FrontSeen
  BY DEF LifeInit, FrontSeen
<1>2. IInv => Types
  BY DEF IInv
<1>3. IInv /\ FrontSeen /\ [LifeNext]_life => FrontSeen'
  BY <1>2, FrontStep
<1>4. IInv /\ FrontSeen /\ [LifeNext]_life =>
         [question # 0 /\ question' = 0 => tid' \in seen]_life
  BY <1>2, FrontStep
<1> QED BY <1>1, <1>3, <1>4, Invariant, PTL DEF LifeSpec, TidWasInFront

---------------------------------------------------------------------------
(* Scans. *)

\* A non-empty set of naturals has a least element.
LEMMA LeastExists ==
    ASSUME NEW S, S \subseteq Nat, S # {}
    PROVE  \E x \in S : \A y \in S : x <= y
<1>1. PICK x \in S : \A y \in S : <<y, x>> \notin OpToRel(<, Nat)
  BY WFMin, NatLessThanWellFounded, Zenon
<1>2. \A y \in S : ~(y < x)
  BY <1>1, Zenon DEF OpToRel
<1> QED BY <1>2

\* Min is it.
LEMMA LeastOf ==
    ASSUME NEW S, S \subseteq Nat, S # {}
    PROVE  /\ Min(S) \in S
           /\ \A y \in S : Min(S) <= y
BY LeastExists DEF Min

---------------------------------------------------------------------------
(* The services. *)

ServiceNames == {Services[i] : i \in 1..Len(Services)}

\* The guards of a service that are open when Initialize is about to open the
\* k-th one are at most this many.
OpenedBefore == [clkrst |-> <<1, 12>>, apm |-> <<2, 12>>, psm |-> <<3, 10>>, tc |-> <<4, 12>>,
                 i2c |-> <<5, 6>>, pmdmnt |-> <<7, 12>>, rgltr |-> <<8, 12>>, nv |-> <<9, 12>>,
                 pwm |-> <<11, 12>>]

AtMost(svc, k) ==
    IF k <= OpenedBefore[svc][1] THEN 0 ELSE IF k <= OpenedBefore[svc][2] THEN 1 ELSE 2

\* The services Initialize opens.
LEMMA ServiceNamesAre ==
    /\ Len(Services) = 11 /\ DOMAIN Services = 1..11
    /\ ServiceNames = {"clkrst", "apm", "psm", "tc", "i2c", "pmdmnt", "rgltr", "nv", "pwm"}
<1>1. Len(Services) = 11 /\ DOMAIN Services = 1..11
  BY DEF Services
<1>2. ASSUME NEW i \in 1..11
      PROVE Services[i] \in {"clkrst", "apm", "psm", "tc", "i2c", "pmdmnt", "rgltr", "nv", "pwm"}
  BY DEF Services
<1>3. /\ Services[1] = "clkrst" /\ Services[2] = "apm" /\ Services[3] = "psm" /\ Services[4] = "tc"
      /\ Services[5] = "i2c" /\ Services[7] = "pmdmnt" /\ Services[8] = "rgltr" /\ Services[9] = "nv"
      /\ Services[11] = "pwm"
  BY DEF Services
<1>4. {1, 2, 3, 4, 5, 7, 8, 9, 11} \subseteq 1..11
  OBVIOUS
<1> QED BY <1>1, <1>2, <1>3, <1>4 DEF ServiceNames

\* Opening the k-th service raises its bound, and no bound falls.
LEMMA BoundGrows ==
    ASSUME NEW k \in 1..11, NEW svc \in ServiceNames
    PROVE  /\ AtMost(svc, k) \in 0..2 /\ AtMost(svc, k + 1) \in 0..2
           /\ AtMost(svc, k) <= AtMost(svc, k + 1)
           /\ svc = Services[k] => AtMost(svc, k) + 1 <= AtMost(svc, k + 1)
<1>1. svc \in {"clkrst", "apm", "psm", "tc", "i2c", "pmdmnt", "rgltr", "nv", "pwm"}
  BY ServiceNamesAre
<1>2. /\ OpenedBefore[svc][1] \in 1..11 /\ OpenedBefore[svc][2] \in 2..12
      /\ OpenedBefore[svc][1] < OpenedBefore[svc][2]
  BY <1>1 DEF OpenedBefore
<1>3. svc = Services[k] => k = OpenedBefore[svc][1] \/ k = OpenedBefore[svc][2]
  <2> SUFFICES ASSUME svc = Services[k]
               PROVE k = OpenedBefore[svc][1] \/ k = OpenedBefore[svc][2]
    OBVIOUS
  <2> QED BY DEF Services, OpenedBefore
<1> DEFINE a == OpenedBefore[svc][1]
           b == OpenedBefore[svc][2]
<1>4. AtMost(svc, k) = (IF k <= a THEN 0 ELSE IF k <= b THEN 1 ELSE 2)
  BY DEF AtMost
<1>5. AtMost(svc, k + 1) = (IF k + 1 <= a THEN 0 ELSE IF k + 1 <= b THEN 1 ELSE 2)
  BY DEF AtMost
<1>6. a \in 1..11 /\ b \in 2..12 /\ a < b /\ (svc = Services[k] => k = a \/ k = b)
  BY <1>2, <1>3
<1> HIDE DEF a, b
<1> QED BY <1>4, <1>5, <1>6

\* Two different places of a list are two.
LEMMA TwoPlaces ==
    ASSUME NEW a \in Nat, NEW b \in Nat, a # b
    PROVE  IsFiniteSet({a, b}) /\ Cardinality({a, b}) = 2
<1>1. IsFiniteSet({a}) /\ Cardinality({a}) = 1
  BY FS_Singleton
<1>2. {a, b} = {a} \cup {b} /\ b \notin {a}
  OBVIOUS
<1> QED BY <1>1, <1>2, FS_AddElement

\* Exit closes every service at least as often as Initialize can have opened it.
LEMMA ExitClosesAll ==
    ASSUME NEW svc \in ServiceNames
    PROVE  LET n == Cardinality({i \in DOMAIN ExitOrder : ExitOrder[i] = svc})
           IN  n \in Nat /\ AtMost(svc, 12) <= n
<1> DEFINE at == {i \in DOMAIN ExitOrder : ExitOrder[i] = svc}
<1>1. DOMAIN ExitOrder = 1..11
  BY DEF ExitOrder
<1>2. IsFiniteSet(at)
  <2>1. IsFiniteSet(1..11)
    <3> DEFINE lo == 1  hi == 11
    <3>1. lo \in Int /\ hi \in Int
      OBVIOUS
    <3> HIDE DEF lo, hi
    <3>2. IsFiniteSet(lo..hi)
      BY <3>1, FS_Interval
    <3> QED BY <3>2 DEF lo, hi
  <2>2. at \subseteq 1..11
    BY <1>1
  <2> QED BY <2>1, <2>2, FS_Subset
<1>3. Cardinality(at) \in Nat
  BY <1>2, FS_CardinalityType
<1>4. \A S \in SUBSET at : Cardinality(S) <= Cardinality(at)
  BY <1>2, FS_Subset
<1>5. svc \in {"clkrst", "apm", "psm", "tc", "i2c", "pmdmnt", "rgltr", "nv", "pwm"}
  BY ServiceNamesAre
<1>6. CASE svc \in {"psm", "i2c"}
  <2>1. PICK x \in 1..11, y \in 1..11 : x # y /\ ExitOrder[x] = svc /\ ExitOrder[y] = svc
    <3>1. /\ ExitOrder[3] = "psm" /\ ExitOrder[9] = "psm"
          /\ ExitOrder[6] = "i2c" /\ ExitOrder[7] = "i2c"
      BY DEF ExitOrder
    <3> QED BY <3>1, <1>6
  <2>2. {x, y} \in SUBSET at /\ x \in Nat /\ y \in Nat
    BY <2>1, <1>1
  <2>3. Cardinality({x, y}) = 2
    BY <2>1, <2>2, TwoPlaces
  <2>4. AtMost(svc, 12) \in 0..2
    <3>1. 11 \in 1..11 /\ 11 + 1 = 12
      OBVIOUS
    <3> QED BY <3>1, BoundGrows
  <2> QED BY <1>3, <1>4, <2>2, <2>3, <2>4
<1>7. CASE svc \notin {"psm", "i2c"}
  <2>1. PICK x \in 1..11 : ExitOrder[x] = svc
    <3>1. /\ ExitOrder[1] = "clkrst" /\ ExitOrder[2] = "apm" /\ ExitOrder[4] = "rgltr"
          /\ ExitOrder[5] = "tc" /\ ExitOrder[8] = "pwm" /\ ExitOrder[10] = "pmdmnt"
          /\ ExitOrder[11] = "nv"
      BY DEF ExitOrder
    <3> QED BY <3>1, <1>5, <1>7
  <2>2. {x} \in SUBSET at /\ Cardinality({x}) = 1
    BY <2>1, <1>1, FS_Singleton
  <2>3. AtMost(svc, 12) \in 0..1
    BY <1>5, <1>7 DEF AtMost, OpenedBefore
  <2> QED BY <1>3, <1>4, <2>2, <2>3
<1> QED BY <1>3, <1>6, <1>7

---------------------------------------------------------------------------
(* The voltage floor by bracket. *)

\* The floor a Mariko bracket gives a RAM clock, and an Erista one.
MarikoFloor(b, mhz) ==
    LET row == MarikoRam[b + 1]
    IN  IF mhz <= 1600 THEN 0
        ELSE IF mhz >= 1633 /\ mhz < row[1]
        THEN RampVolt(mhz, row[1], IF b = 0 THEN 535 ELSE 525)
        ELSE StepVolt(row, mhz, 590, 10)

\* GpuVmin of a Mariko console with bracket b.
LEMMA FloorOfBracket ==
    ASSUME NEW b \in 0..3, NEW mhz \in Nat
    PROVE  Vmin("Mariko", b)!GpuVmin(mhz) = MarikoFloor(b, mhz)
<1> DEFINE s == "Mariko"
<1>1. Vmin(s, b)!MarikoRam = MarikoRam
  BY DEF Vmin!MarikoRam, MarikoRam
<1>2. Vmin(s, b)!Row(b) = b
  BY DEF Vmin!Row
<1>3. ASSUME NEW row, NEW v, NEW d
      PROVE  Vmin(s, b)!StepVolt(row, mhz, v, d) = StepVolt(row, mhz, v, d)
  BY DEF Vmin!StepVolt, StepVolt, Vmin!Min, Min
<1>4. ASSUME NEW f, NEW v PROVE Vmin(s, b)!RampVolt(mhz, f, v) = RampVolt(mhz, f, v)
  BY DEF Vmin!RampVolt, RampVolt, Vmin!Lower, Lower
<1> DEFINE row == MarikoRam[b + 1]
           start == IF b = 0 THEN 535 ELSE 525
<1>5. row[1] \in Nat
  BY DEF MarikoRam
<1>6. CASE mhz <= 1600
  BY <1>6 DEF Vmin!GpuVmin, MarikoFloor
<1>7. CASE ~(mhz <= 1600) /\ mhz >= 1633 /\ mhz < row[1]
  <2>1. Vmin(s, b)!GpuVmin(mhz) = Vmin(s, b)!RampVolt(mhz, row[1], start)
    BY <1>1, <1>2, <1>5, <1>7 DEF Vmin!GpuVmin
  <2>2. MarikoFloor(b, mhz) = RampVolt(mhz, row[1], start)
    BY <1>7 DEF MarikoFloor
  <2> QED BY <2>1, <2>2, <1>4
<1>8. CASE ~(mhz <= 1600) /\ ~(mhz >= 1633 /\ mhz < row[1])
  <2>1. Vmin(s, b)!GpuVmin(mhz) = Vmin(s, b)!StepVolt(row, mhz, 590, 10)
    BY <1>1, <1>2, <1>5, <1>8 DEF Vmin!GpuVmin
  <2>2. MarikoFloor(b, mhz) = StepVolt(row, mhz, 590, 10)
    BY <1>8 DEF MarikoFloor
  <2> QED BY <2>1, <2>2, <1>3
<1> QED BY <1>6, <1>7, <1>8
\* A ramp's value in steps of 5 mV, from its start to 590 mV.
Rounded(r, v) == Lower(IF ((r + 2) \div 5) * 5 < v THEN v ELSE ((r + 2) \div 5) * 5, 590)

\* The ramp stays between its start and 590 mV, and a ramp that is steeper from
\* a start not lower is never below another.
LEMMA RampRounds ==
    ASSUME NEW a \in Int, NEW b \in Int, NEW s \in Int, NEW t \in Int, a >= b, s >= t, s <= 590
    PROVE  /\ Rounded(a, s) \in Int /\ Rounded(b, t) \in Int
           /\ s <= Rounded(a, s) /\ Rounded(a, s) <= 590
           /\ t <= Rounded(b, t) /\ Rounded(b, t) <= 590
           /\ Rounded(a, s) >= Rounded(b, t)
<1> DEFINE x == (a + 2) \div 5
           y == (b + 2) \div 5
<1>1. x \in Int /\ y \in Int /\ x >= y
  OBVIOUS
<1> HIDE DEF x, y
<1>2. Rounded(a, s) = Lower(IF x * 5 < s THEN s ELSE x * 5, 590)
  BY DEF Rounded, x
<1>3. Rounded(b, t) = Lower(IF y * 5 < t THEN t ELSE y * 5, 590)
  BY DEF Rounded, y
<1> QED BY <1>1, <1>2, <1>3 DEF Lower

\* The DVFS ramp's values.
LEMMA RampIs ==
    ASSUME NEW mhz, NEW first, NEW start
    PROVE  LET r == start + ((mhz - 1633) * (590 - start)) \div (first - 1633)
           IN  RampVolt(mhz, first, start) = Rounded(r, start)
BY DEF RampVolt, Rounded

\* The ramp falls as the speedo rises.
LEMMA RampFalls ==
    ASSUME NEW mhz \in Nat, mhz >= 1633, NEW b \in 0..2
    PROVE  LET lower(c) == RampVolt(mhz, MarikoRam[c + 1][1], IF c = 0 THEN 535 ELSE 525)
           IN  lower(b) \in 525..590 /\ lower(b + 1) \in 525..590 /\ lower(b) >= lower(b + 1)
<1> DEFINE x == mhz - 1633
           raw0 == 535 + (x * 55) \div 500
           raw1 == 525 + (x * 65) \div 667
           raw2 == 525 + (x * 65) \div 800
           raw3 == 525 + (x * 65) \div 867
<1>1. x \in Nat
  OBVIOUS
<1>2. /\ raw0 \in Int /\ raw1 \in Int /\ raw2 \in Int /\ raw3 \in Int
      /\ raw0 >= raw1 /\ raw1 >= raw2 /\ raw2 >= raw3
  <2> HIDE DEF x
  <2> QED BY <1>1
<1>3. /\ MarikoRam[1][1] = 2133 /\ MarikoRam[2][1] = 2300 /\ MarikoRam[3][1] = 2433
      /\ MarikoRam[4][1] = 2500
  BY DEF MarikoRam
<1>4. RampVolt(mhz, MarikoRam[1][1], 535) = Rounded(raw0, 535)
  <2>1. 590 - 535 = 55 /\ 2133 - 1633 = 500
    OBVIOUS
  <2>2. RampVolt(mhz, 2133, 535)
          = Rounded(535 + ((mhz - 1633) * (590 - 535)) \div (2133 - 1633), 535)
    BY RampIs
  <2> QED BY <1>3, <2>1, <2>2
<1>5. RampVolt(mhz, MarikoRam[2][1], 525) = Rounded(raw1, 525)
  <2>1. 590 - 525 = 65 /\ 2300 - 1633 = 667
    OBVIOUS
  <2>2. RampVolt(mhz, 2300, 525)
          = Rounded(525 + ((mhz - 1633) * (590 - 525)) \div (2300 - 1633), 525)
    BY RampIs
  <2> QED BY <1>3, <2>1, <2>2
<1>6. RampVolt(mhz, MarikoRam[3][1], 525) = Rounded(raw2, 525)
  <2>1. 590 - 525 = 65 /\ 2433 - 1633 = 800
    OBVIOUS
  <2>2. RampVolt(mhz, 2433, 525)
          = Rounded(525 + ((mhz - 1633) * (590 - 525)) \div (2433 - 1633), 525)
    BY RampIs
  <2> QED BY <1>3, <2>1, <2>2
<1>7. RampVolt(mhz, MarikoRam[4][1], 525) = Rounded(raw3, 525)
  <2>1. 590 - 525 = 65 /\ 2500 - 1633 = 867
    OBVIOUS
  <2>2. RampVolt(mhz, 2500, 525)
          = Rounded(525 + ((mhz - 1633) * (590 - 525)) \div (2500 - 1633), 525)
    BY RampIs
  <2> QED BY <1>3, <2>1, <2>2
<1> HIDE DEF raw0, raw1, raw2, raw3
<1>8. /\ Rounded(raw0, 535) \in Int /\ Rounded(raw1, 525) \in Int
      /\ 525 <= Rounded(raw0, 535) /\ Rounded(raw0, 535) <= 590
      /\ 525 <= Rounded(raw1, 525) /\ Rounded(raw1, 525) <= 590
      /\ Rounded(raw0, 535) >= Rounded(raw1, 525)
  <2>1. 525 \in Int /\ 535 \in Int /\ 535 >= 525 /\ 525 >= 525 /\ 535 <= 590 /\ 525 <= 590
    OBVIOUS
  <2> QED BY <1>2, <2>1, RampRounds
<1>9. /\ Rounded(raw2, 525) \in Int
      /\ 525 <= Rounded(raw2, 525) /\ Rounded(raw2, 525) <= 590
      /\ Rounded(raw1, 525) >= Rounded(raw2, 525)
  <2>1. 525 \in Int /\ 535 \in Int /\ 535 >= 525 /\ 525 >= 525 /\ 535 <= 590 /\ 525 <= 590
    OBVIOUS
  <2> QED BY <1>2, <2>1, RampRounds
<1>10. /\ Rounded(raw3, 525) \in Int
      /\ 525 <= Rounded(raw3, 525) /\ Rounded(raw3, 525) <= 590
      /\ Rounded(raw2, 525) >= Rounded(raw3, 525)
  <2>1. 525 \in Int /\ 535 \in Int /\ 535 >= 525 /\ 525 >= 525 /\ 535 <= 590 /\ 525 <= 590
    OBVIOUS
  <2> QED BY <1>2, <2>1, RampRounds
<1>11. CASE b = 0
  BY <1>11, <1>4, <1>5, <1>8
<1>12. CASE b = 1
  BY <1>12, <1>5, <1>6, <1>8, <1>9
<1>13. CASE b = 2
  BY <1>13, <1>6, <1>7, <1>9, <1>10
<1> QED BY <1>11, <1>12, <1>13

\* A table whose entries are higher reaches every clock no later.
LEMMA StepFalls ==
    ASSUME NEW r, NEW q, DOMAIN r = 1..22, DOMAIN q = 1..22, Len(r) = 22, Len(q) = 22,
           \A i \in 1..22 : r[i] \in Nat /\ q[i] \in Nat /\ r[i] <= q[i],
           NEW mhz \in Nat
    PROVE  /\ StepVolt(r, mhz, 590, 10) \in Nat /\ StepVolt(q, mhz, 590, 10) \in Nat
           /\ StepVolt(r, mhz, 590, 10) >= StepVolt(q, mhz, 590, 10)
           /\ StepVolt(q, mhz, 590, 10) >= 590
<1> DEFINE R == {22} \cup {i \in 1..22 : mhz <= r[i]}
           Q == {22} \cup {i \in 1..22 : mhz <= q[i]}
<1>1. R \subseteq Q /\ R # {} /\ Q # {} /\ R \subseteq 1..22 /\ Q \subseteq 1..22
  OBVIOUS
<1>2. StepVolt(r, mhz, 590, 10) = 590 + 10 * (Min(R) - 1)
  BY DEF StepVolt
<1>3. StepVolt(q, mhz, 590, 10) = 590 + 10 * (Min(Q) - 1)
  BY DEF StepVolt
<1> HIDE DEF R, Q
<1>4. R \subseteq Nat /\ Q \subseteq Nat
  BY <1>1
<1>5. Min(R) \in R /\ Min(Q) \in Q /\ \A y \in Q : Min(Q) <= y
  BY <1>1, <1>4, LeastOf
<1>6. Min(R) \in 1..22 /\ Min(Q) \in 1..22 /\ Min(Q) <= Min(R)
  BY <1>1, <1>5
<1> QED BY <1>2, <1>3, <1>6

\* Faster RAM has no lower row.
LEMMA RowsRise ==
    ASSUME NEW b \in 0..2
    PROVE  LET r == MarikoRam[b + 1]
               q == MarikoRam[b + 2]
           IN  /\ DOMAIN r = 1..22 /\ DOMAIN q = 1..22 /\ Len(r) = 22 /\ Len(q) = 22
               /\ \A i \in 1..22 : r[i] \in Nat /\ q[i] \in Nat /\ r[i] <= q[i]
<1>1. CASE b = 0
  BY <1>1 DEF MarikoRam
<1>2. CASE b = 1
  BY <1>2 DEF MarikoRam
<1>3. CASE b = 2
  BY <1>3 DEF MarikoRam
<1> QED BY <1>1, <1>2, <1>3

\* A higher bracket never has a higher floor.
LEMMA FloorFalls ==
    ASSUME NEW mhz \in Nat, NEW b \in 0..2
    PROVE  /\ MarikoFloor(b, mhz) \in Nat /\ MarikoFloor(b + 1, mhz) \in Nat
           /\ MarikoFloor(b, mhz) >= MarikoFloor(b + 1, mhz)
<1> DEFINE r == MarikoRam[b + 1]
           q == MarikoRam[b + 1 + 1]
           ramp(c) == RampVolt(mhz, MarikoRam[c + 1][1], IF c = 0 THEN 535 ELSE 525)
<1>1. b + 1 + 1 = b + 2
  OBVIOUS
<1>2. /\ DOMAIN r = 1..22 /\ DOMAIN q = 1..22 /\ Len(r) = 22 /\ Len(q) = 22
      /\ \A i \in 1..22 : r[i] \in Nat /\ q[i] \in Nat /\ r[i] <= q[i]
  BY <1>1, RowsRise
<1>3. /\ StepVolt(r, mhz, 590, 10) \in Nat /\ StepVolt(q, mhz, 590, 10) \in Nat
      /\ StepVolt(r, mhz, 590, 10) >= StepVolt(q, mhz, 590, 10)
      /\ StepVolt(q, mhz, 590, 10) >= 590
  BY <1>2, StepFalls
<1>4. r[1] \in Nat /\ q[1] \in Nat /\ r[1] <= q[1]
  BY <1>2
<1>5. MarikoFloor(b, mhz) = IF mhz <= 1600 THEN 0
                            ELSE IF mhz >= 1633 /\ mhz < r[1] THEN ramp(b)
                            ELSE StepVolt(r, mhz, 590, 10)
  BY DEF MarikoFloor
<1>6. MarikoFloor(b + 1, mhz) = IF mhz <= 1600 THEN 0
                                ELSE IF mhz >= 1633 /\ mhz < q[1] THEN ramp(b + 1)
                                ELSE StepVolt(q, mhz, 590, 10)
  BY DEF MarikoFloor
<1>7. mhz >= 1633 => ramp(b) \in 525..590 /\ ramp(b + 1) \in 525..590 /\ ramp(b) >= ramp(b + 1)
  BY RampFalls
<1> HIDE DEF r, q, ramp
<1> QED BY <1>3, <1>4, <1>5, <1>6, <1>7

---------------------------------------------------------------------------
(* The inductive invariant of BoardBringUp. *)

\* The counters of the service guards are bounded by what was opened, the
\* bracket is none or the fetched one, and a debug handle is of one process.
BringUpIInv ==
    /\ phase \in {"opening", "up", "exited", "aborted"}
    /\ step \in 1..Len(Services)
    /\ refs \in [ServiceNames -> 0..2]
    /\ phase = "opening" => \A s \in ServiceNames : refs[s] <= AtMost(s, step)
    /\ phase = "up" => \A s \in ServiceNames : refs[s] <= AtMost(s, 12)
    /\ phase = "exited" => \A s \in ServiceNames : refs[s] = 0
    /\ console \in [soc : {"Mariko", "Erista"}, speedo : Speedos, model : {1, 2, 4}, dram : {9},
                    ext : {0, 1}, bracket : -1..3, type : {"Icosa", "Hoag", "Aula", "Iowa"},
                    id : Int]
    /\ console.bracket \in {-1, FetchedBracket(console.soc, console.speedo)}
    /\ search \in [at : {"none", "process", "region", "lost", "done"}, i : Int]
    /\ open = {} \/ \E x : open = {x}
    /\ search.at = "done" => open = {}

\* The invariant holds at first.
LEMMA BringUpIInvInit == BringUpInit => BringUpIInv
<1> SUFFICES ASSUME BringUpInit PROVE BringUpIInv
  OBVIOUS
<1>1. step = 1 /\ Len(Services) = 11 /\ phase = "opening"
  BY ServiceNamesAre DEF BringUpInit
<1>2. refs = [s \in ServiceNames |-> 0]
  BY DEF BringUpInit, ServiceNames
<1>3. \A s \in ServiceNames : 0 <= AtMost(s, 1)
  <2>1. 1 \in 1..11
    OBVIOUS
  <2> QED BY <2>1, BoundGrows
<1>4. /\ console \in [soc : {"Mariko", "Erista"}, speedo : Speedos, model : {1, 2, 4}, dram : {9},
                      ext : {0, 1}, bracket : -1..3, type : {"Icosa", "Hoag", "Aula", "Iowa"},
                      id : Int]
      /\ console.bracket = -1
  BY DEF BringUpInit
<1>5. search = [at |-> "none", i |-> 0] /\ open = {}
  BY DEF BringUpInit
<1> QED BY <1>1, <1>2, <1>3, <1>4, <1>5 DEF BringUpIInv

\* A service opened keeps it.
LEMMA BringUpOpens == ASSUME BringUpIInv, OpenService PROVE BringUpIInv'
<1>1. PICK works \in BOOLEAN :
          /\ refs' = Guard(Services[step], works)
          /\ phase' = IF ~works /\ step \notin Optional THEN "aborted"
                      ELSE IF step = Len(Services) THEN "up" ELSE "opening"
          /\ step' = IF phase' = "opening" THEN step + 1 ELSE step
          /\ search' = IF phase' = "up" THEN [at |-> "process", i |-> 1] ELSE search
          /\ console' = IF works /\ step = 8
                        THEN [console EXCEPT
                                !.bracket = FetchedBracket(console.soc, console.speedo),
                                !.type = ConsoleType(console.soc, console.model),
                                !.id = DramId(console.soc, console.dram, console.ext)]
                        ELSE console
  BY DEF OpenService
<1>2. phase = "opening" /\ UNCHANGED open
  BY DEF OpenService
<1>3. Len(Services) = 11 /\ step \in 1..11
  BY ServiceNamesAre DEF BringUpIInv
<1>4. refs \in [ServiceNames -> 0..2] /\ \A s \in ServiceNames : refs[s] <= AtMost(s, step)
  BY <1>2 DEF BringUpIInv
<1>5. DOMAIN refs' = ServiceNames /\ refs' = [s \in ServiceNames |-> refs'[s]]
  BY <1>1, <1>4 DEF Guard
<1>6. \A s \in ServiceNames : refs'[s] \in 0..2 /\ refs'[s] <= AtMost(s, step + 1)
  <2> SUFFICES ASSUME NEW s \in ServiceNames
               PROVE refs'[s] \in 0..2 /\ refs'[s] <= AtMost(s, step + 1)
    OBVIOUS
  <2>1. refs'[s] = IF s = Services[step] /\ works THEN refs[s] + 1 ELSE refs[s]
    BY <1>1, <1>4 DEF Guard
  <2>2. /\ AtMost(s, step) \in 0..2 /\ AtMost(s, step + 1) \in 0..2
        /\ AtMost(s, step) <= AtMost(s, step + 1)
        /\ s = Services[step] => AtMost(s, step) + 1 <= AtMost(s, step + 1)
    BY <1>3, BoundGrows
  <2>3. refs[s] \in 0..2 /\ refs[s] <= AtMost(s, step)
    BY <1>4
  <2> QED BY <2>1, <2>2, <2>3
<1>7. refs' \in [ServiceNames -> 0..2]
  BY <1>5, <1>6
<1>8. /\ phase' \in {"opening", "up", "aborted"}
      /\ phase' = "opening" => step # 11 /\ step' = step + 1
      /\ phase' # "opening" => step' = step
      /\ phase' = "up" => step = 11
  BY <1>1, <1>3
<1>9. step' \in 1..11
  BY <1>3, <1>8
<1>10. phase' = "opening" => \A s \in ServiceNames : refs'[s] <= AtMost(s, step')
  BY <1>6, <1>8
<1>11. phase' = "up" => \A s \in ServiceNames : refs'[s] <= AtMost(s, 12)
  <2>1. 11 + 1 = 12
    OBVIOUS
  <2> QED BY <1>6, <1>8, <2>1
<1>12. /\ console' \in [soc : {"Mariko", "Erista"}, speedo : Speedos, model : {1, 2, 4}, dram : {9},
                        ext : {0, 1}, bracket : -1..3, type : {"Icosa", "Hoag", "Aula", "Iowa"},
                        id : Int]
       /\ console'.bracket \in {-1, FetchedBracket(console'.soc, console'.speedo)}
  <2>1. /\ console \in [soc : {"Mariko", "Erista"}, speedo : Speedos, model : {1, 2, 4}, dram : {9},
                        ext : {0, 1}, bracket : -1..3, type : {"Icosa", "Hoag", "Aula", "Iowa"},
                        id : Int]
        /\ console.bracket \in {-1, FetchedBracket(console.soc, console.speedo)}
    BY DEF BringUpIInv
  <2>2. CASE console' = console
    BY <2>1, <2>2
  <2>3. CASE console' # console
    <3>1. console' = [console EXCEPT
                        !.bracket = FetchedBracket(console.soc, console.speedo),
                        !.type = ConsoleType(console.soc, console.model),
                        !.id = DramId(console.soc, console.dram, console.ext)]
      BY <1>1, <2>3
    <3>2. FetchedBracket(console.soc, console.speedo) \in -1..3
      BY DEF FetchedBracket, SetGpuBracket
    <3>3. ConsoleType(console.soc, console.model) \in {"Icosa", "Hoag", "Aula", "Iowa"}
      BY DEF ConsoleType
    <3>4. DramId(console.soc, console.dram, console.ext) \in Int
      BY <2>1 DEF DramId
    <3>5. /\ console'.soc = console.soc /\ console'.speedo = console.speedo
          /\ console'.bracket = FetchedBracket(console.soc, console.speedo)
      BY <2>1, <3>1
    <3>6. ASSUME NEW b \in -1..3, NEW t \in {"Icosa", "Hoag", "Aula", "Iowa"}, NEW n \in Int
          PROVE  [console EXCEPT !.bracket = b, !.type = t, !.id = n]
                   \in [soc : {"Mariko", "Erista"}, speedo : Speedos, model : {1, 2, 4}, dram : {9},
                        ext : {0, 1}, bracket : -1..3, type : {"Icosa", "Hoag", "Aula", "Iowa"},
                        id : Int]
      BY <2>1
    <3>7. console' \in [soc : {"Mariko", "Erista"}, speedo : Speedos, model : {1, 2, 4}, dram : {9},
                        ext : {0, 1}, bracket : -1..3, type : {"Icosa", "Hoag", "Aula", "Iowa"},
                        id : Int]
      BY <3>1, <3>2, <3>3, <3>4, <3>6, Zenon
    <3> QED BY <3>5, <3>7
  <2> QED BY <2>2, <2>3
<1>13. /\ search' \in [at : {"none", "process", "region", "lost", "done"}, i : Int]
       /\ search'.at = "done" => search.at = "done"
  <2>1. search \in [at : {"none", "process", "region", "lost", "done"}, i : Int]
    BY DEF BringUpIInv
  <2> QED BY <1>1, <2>1
<1>14. (open = {} \/ \E x : open = {x}) /\ (search.at = "done" => open = {})
  BY DEF BringUpIInv
<1> QED BY <1>2, <1>3, <1>7, <1>8, <1>9, <1>10, <1>11, <1>12, <1>13, <1>14 DEF BringUpIInv

\* What one process or region less means for the search.
LEMMA SearchMoves ==
    ASSUME BringUpIInv
    PROVE  [search EXCEPT !.i = @ + 1]
             = [at |-> search.at, i |-> search.i + 1]
           /\ search.at \in {"none", "process", "region", "lost", "done"} /\ search.i + 1 \in Int
BY DEF BringUpIInv

\* Every step keeps it.
LEMMA BringUpIInvNext == BringUpIInv /\ [BringUpNext]_bringUp => BringUpIInv'
<1> SUFFICES ASSUME BringUpIInv, [BringUpNext]_bringUp PROVE BringUpIInv'
  OBVIOUS
<1>1. CASE OpenService
  BY <1>1, BringUpOpens
<1>2. CASE FanThreadStarts
  BY <1>2 DEF FanThreadStarts, BringUpIInv
<1>3. CASE TryProcess
  <2>1. \/ open' = {}
        \/ open' = {search.i}
    BY <1>3 DEF TryProcess
  <2>2. /\ search' \in [at : {"none", "process", "region", "lost", "done"}, i : Int]
        /\ search'.at # "done"
    BY <1>3, SearchMoves DEF TryProcess
  <2>3. UNCHANGED <<phase, step, refs, console>>
    BY <1>3 DEF TryProcess
  <2> QED BY <2>1, <2>2, <2>3 DEF BringUpIInv
<1>4. CASE NotFound
  <2>1. /\ search' \in [at : {"none", "process", "region", "lost", "done"}, i : Int]
        /\ search'.at # "done"
    BY <1>4 DEF NotFound
  <2>2. UNCHANGED <<phase, step, refs, console, open>>
    BY <1>4 DEF NotFound
  <2> QED BY <2>1, <2>2 DEF BringUpIInv
<1>5. CASE NextRegion
  <2>1. /\ search' \in [at : {"none", "process", "region", "lost", "done"}, i : Int]
        /\ search'.at = "done" => open' = {}
        /\ open' = open \/ open' = {}
    BY <1>5, SearchMoves DEF NextRegion, Released
  <2>2. UNCHANGED <<phase, step, refs, console>>
    BY <1>5 DEF NextRegion
  <2>3. open' = {} \/ \E x : open' = {x}
    BY <2>1, Zenon DEF BringUpIInv
  <2> QED BY <2>1, <2>2, <2>3 DEF BringUpIInv
<1>6. CASE RegionsEnd
  BY <1>6 DEF RegionsEnd, Released, BringUpIInv
<1>7. CASE Exit
  <2>1. phase = "up" /\ phase' = "exited" /\ refs' = CloseAll(refs, ExitOrder)
    BY <1>7 DEF Exit
  <2>2. refs \in [ServiceNames -> 0..2] /\ \A s \in ServiceNames : refs[s] <= AtMost(s, 12)
    BY <2>1 DEF BringUpIInv
  <2>3. ASSUME NEW s \in ServiceNames PROVE refs'[s] = 0
    <3> DEFINE n == Cardinality({i \in DOMAIN ExitOrder : ExitOrder[i] = s})
    <3>1. refs'[s] = IF refs[s] <= n THEN 0 ELSE refs[s] - n
      BY <2>1, <2>2 DEF CloseAll
    <3>2. n \in Nat /\ AtMost(s, 12) <= n
      BY ExitClosesAll
    <3>3. AtMost(s, 12) \in 0..2
      <4>1. 11 \in 1..11 /\ 11 + 1 = 12
        OBVIOUS
      <4> QED BY <4>1, BoundGrows
    <3>4. refs[s] \in 0..2 /\ refs[s] <= AtMost(s, 12)
      BY <2>2
    <3> HIDE DEF n
    <3> QED BY <3>1, <3>2, <3>3, <3>4
  <2>4. refs' \in [ServiceNames -> 0..2]
    <3>1. DOMAIN refs' = ServiceNames /\ refs' = [s \in ServiceNames |-> refs'[s]]
      BY <2>1, <2>2 DEF CloseAll
    <3> QED BY <3>1, <2>3
  <2>5. UNCHANGED <<step, console, search, open>>
    BY <1>7 DEF Exit
  <2> QED BY <2>1, <2>3, <2>4, <2>5 DEF BringUpIInv
<1>8. CASE UNCHANGED bringUp
  <2>1. UNCHANGED <<phase, step, refs, console, search, open>>
    BY <1>8 DEF bringUp
  <2>2. open' = {} \/ \E x : open' = {x}
    BY <2>1, Zenon DEF BringUpIInv
  <2>3. /\ phase' \in {"opening", "up", "exited", "aborted"} /\ step' \in 1..Len(Services)
        /\ phase' = "opening" => \A s \in ServiceNames : refs'[s] <= AtMost(s, step')
        /\ phase' = "up" => \A s \in ServiceNames : refs'[s] <= AtMost(s, 12)
    BY <2>1, Zenon DEF BringUpIInv
  <2>4. /\ refs' \in [ServiceNames -> 0..2]
        /\ phase' = "exited" => \A s \in ServiceNames : refs'[s] = 0
    BY <2>1, Zenon DEF BringUpIInv
  <2>5. /\ console' \in [soc : {"Mariko", "Erista"}, speedo : Speedos, model : {1, 2, 4}, dram : {9},
                         ext : {0, 1}, bracket : -1..3, type : {"Icosa", "Hoag", "Aula", "Iowa"},
                         id : Int]
        /\ console'.bracket \in {-1, FetchedBracket(console'.soc, console'.speedo)}
    BY <2>1 DEF BringUpIInv
  <2>6. /\ search' \in [at : {"none", "process", "region", "lost", "done"}, i : Int]
        /\ search'.at = "done" => open' = {}
    BY <2>1, Zenon DEF BringUpIInv
  <2> QED BY <2>1, <2>2, <2>3, <2>4, <2>5, <2>6 DEF BringUpIInv
<1> QED BY <1>1, <1>2, <1>3, <1>4, <1>5, <1>6, <1>7, <1>8 DEF BringUpNext

\* A Mariko console's bracket by Erista's ranges is never above its own.
LEMMA BracketNotAbove ==
    ASSUME NEW speedo \in Nat
    PROVE  /\ SetGpuBracket("Erista", speedo) \in 0..3 /\ SetGpuBracket("Mariko", speedo) \in 0..3
           /\ SetGpuBracket("Erista", speedo) <= SetGpuBracket("Mariko", speedo)
<1>1. /\ "Mariko" # "Erista"
      /\ 1926..2025 = {i \in Int : 1926 <= i /\ i <= 2025}
      /\ 2026..2100 = {i \in Int : 2026 <= i /\ i <= 2100}
      /\ 2101..2200 = {i \in Int : 2101 <= i /\ i <= 2200}
  OBVIOUS
<1>2. SetGpuBracket("Mariko", speedo) =
         IF speedo <= 1624 THEN 0 ELSE IF speedo <= 1689 THEN 1 ELSE IF speedo <= 1753 THEN 2 ELSE 3
  BY DEF SetGpuBracket
<1>3. /\ SetGpuBracket("Erista", speedo) \in 0..3
      /\ SetGpuBracket("Erista", speedo) # 0 => speedo >= 1926
  BY <1>1 DEF SetGpuBracket
<1> QED BY <1>2, <1>3

\* GpuVmin of an Erista console is a voltage.
LEMMA EristaFloorIs ==
    ASSUME NEW b \in 0..3, NEW mhz \in Nat
    PROVE  Vmin("Erista", b)!GpuVmin(mhz) \in Int
<1> DEFINE s == "Erista"
           R == {Len(EristaRam)} \cup {i \in DOMAIN EristaRam : mhz <= EristaRam[i]}
<1>1. Len(EristaRam) = 19 /\ DOMAIN EristaRam = 1..19
  BY DEF EristaRam
<1>2. R \subseteq 1..19 /\ R # {} /\ R \subseteq Nat
  BY <1>1
<1>3. Min(R) \in 1..19
  <2> HIDE DEF R
  <2> QED BY <1>2, LeastOf
<1>4. CASE mhz <= 1600
  BY <1>4 DEF Vmin!GpuVmin
<1>5. CASE ~(mhz <= 1600)
  <2>1. Vmin(s, b)!EristaRam = EristaRam /\ Vmin(s, b)!Row(b) = b
    BY DEF Vmin!EristaRam, EristaRam, Vmin!Row
  <2>2. Vmin(s, b)!GpuVmin(mhz) = Vmin(s, b)!StepVolt(EristaRam, mhz, 725 - 10 * b, 5)
    BY <2>1, <1>5 DEF Vmin!GpuVmin
  <2>3. Vmin(s, b)!StepVolt(EristaRam, mhz, 725 - 10 * b, 5) = 725 - 10 * b + 5 * (Min(R) - 1)
    BY DEF Vmin!StepVolt, Vmin!Min, Min
  <2> HIDE DEF R
  <2> QED BY <2>2, <2>3, <1>3
<1> QED BY <1>4, <1>5

\* The invariant of the run follows.
LEMMA BringUpIInvImplies == BringUpIInv => BringUpTypeOK /\ BringUpInv
<1> SUFFICES ASSUME BringUpIInv PROVE BringUpTypeOK /\ BringUpInv
  OBVIOUS
<1>1. DOMAIN refs = ServiceNames /\ \A s \in ServiceNames : refs[s] \in 0..2
  BY DEF BringUpIInv
<1>2. ServicesBalanced
  BY <1>1 DEF ServicesBalanced, BringUpIInv
<1>3. DebugHandleReleased
  BY DEF DebugHandleReleased, BringUpIInv
<1>4. BracketOnSafeSide
  <2> SUFFICES ASSUME console.bracket # -1, NEW mhz \in RamClocks
               PROVE Vmin(console.soc, console.bracket)!GpuVmin(mhz)
                      >= Vmin(console.soc, SetGpuBracket(console.soc, console.speedo))!GpuVmin(mhz)
    BY DEF BracketOnSafeSide
  <2>1. /\ console.soc \in {"Mariko", "Erista"} /\ console.speedo \in Nat /\ mhz \in Nat
        /\ console.bracket = SetGpuBracket("Erista", console.speedo)
    BY BringUpAssumption DEF BringUpIInv, FetchedBracket
  <2> DEFINE e == SetGpuBracket("Erista", console.speedo)
             m == SetGpuBracket("Mariko", console.speedo)
  <2>2. e \in 0..3 /\ m \in 0..3 /\ e <= m
    BY <2>1, BracketNotAbove
  <2>3. CASE console.soc = "Mariko"
    <3>1. /\ Vmin("Mariko", e)!GpuVmin(mhz) = MarikoFloor(e, mhz)
          /\ Vmin("Mariko", m)!GpuVmin(mhz) = MarikoFloor(m, mhz)
      <4> HIDE DEF e, m
      <4> QED BY <2>1, <2>2, FloorOfBracket
    <3>2. MarikoFloor(e, mhz) >= MarikoFloor(m, mhz)
      <4> HIDE DEF e, m
      <4>1. /\ MarikoFloor(0, mhz) \in Nat /\ MarikoFloor(0 + 1, mhz) \in Nat
            /\ MarikoFloor(0, mhz) >= MarikoFloor(0 + 1, mhz)
            /\ MarikoFloor(1 + 1, mhz) \in Nat /\ MarikoFloor(1, mhz) >= MarikoFloor(1 + 1, mhz)
            /\ MarikoFloor(2 + 1, mhz) \in Nat /\ MarikoFloor(2, mhz) >= MarikoFloor(2 + 1, mhz)
        <5>1. 0 \in 0..2 /\ 1 \in 0..2 /\ 2 \in 0..2
          OBVIOUS
        <5> QED BY <2>1, <5>1, FloorFalls
      <4>2. 0 + 1 = 1 /\ 1 + 1 = 2 /\ 2 + 1 = 3
        OBVIOUS
      <4>3. /\ MarikoFloor(0, mhz) \in Nat /\ MarikoFloor(1, mhz) \in Nat
            /\ MarikoFloor(2, mhz) \in Nat /\ MarikoFloor(3, mhz) \in Nat
            /\ MarikoFloor(0, mhz) >= MarikoFloor(1, mhz)
            /\ MarikoFloor(1, mhz) >= MarikoFloor(2, mhz)
            /\ MarikoFloor(2, mhz) >= MarikoFloor(3, mhz)
        BY <4>1, <4>2
      <4>4. e \in {0, 1, 2, 3} /\ m \in {0, 1, 2, 3}
        BY <2>2
      <4> QED BY <2>2, <4>3, <4>4
    <3>3. console.bracket = e /\ SetGpuBracket(console.soc, console.speedo) = m
      BY <2>1, <2>3
    <3> HIDE DEF e, m
    <3> QED BY <2>3, <3>1, <3>2, <3>3
  <2>4. CASE console.soc = "Erista"
    <3>1. Vmin("Erista", e)!GpuVmin(mhz) \in Int
      <4> HIDE DEF e
      <4> QED BY <2>1, <2>2, EristaFloorIs
    <3> QED BY <2>1, <2>4, <3>1
  <2> QED BY <2>1, <2>3, <2>4
<1>5. step \in 1..Len(Services) /\ phase \in {"opening", "up", "exited", "aborted"}
  BY DEF BringUpIInv
<1>6. console.bracket \in -1..3
  BY DEF BringUpIInv
<1>7. Cardinality(open) <= 1
  <2>1. CASE open = {}
    BY <2>1, FS_EmptySet
  <2>2. CASE \E x : open = {x}
    BY <2>2, FS_Singleton
  <2> QED BY <2>1, <2>2 DEF BringUpIInv
<1> QED BY <1>1, <1>2, <1>3, <1>4, <1>5, <1>6, <1>7 DEF BringUpTypeOK, BringUpInv

\* Whatever fails while the board comes up, Exit leaves no service open, the
\* search for PCV's voltage table leaves no process stopped once it found PCV,
\* and the bracket that is fetched too early errs on the side of a higher floor
\* (board.cpp Initialize and Exit, board_misc.cpp GetPcvHandle, board_fuse.cpp
\* FetchHardwareInfos): for all speedo fuses and RAM clocks.
THEOREM BringUpInvHolds == BringUpSpec => [](BringUpTypeOK /\ BringUpInv)
<1>1. BringUpSpec => []BringUpIInv
  BY BringUpIInvInit, BringUpIInvNext, PTL DEF BringUpSpec
<1> QED BY <1>1, BringUpIInvImplies, PTL

\* Quotients.
LEMMA ExactQuotient ==
    ASSUME NEW a \in Nat \ {0}, NEW b \in Nat
    PROVE  (a * b) \div a = b
OBVIOUS

\* A larger number has no smaller quotient.
LEMMA QuotientGrows ==
    ASSUME NEW x \in Nat, NEW y \in Nat, x <= y, NEW d \in Nat \ {0}
    PROVE  x \div d \in Nat /\ y \div d \in Nat /\ x \div d <= y \div d
<1> DEFINE q == x \div d   r == y \div d
<1>1. q \in Int /\ r \in Int /\ d * q <= x /\ x < d * (q + 1) /\ d * r <= y /\ y < d * (r + 1)
  OBVIOUS
<1> HIDE DEF q, r
<1>2. d * q < d * (r + 1)
  BY <1>1
<1> QED BY <1>1, <1>2

\* A number between two multiples has a quotient between their factors.
LEMMA QuotientBetween ==
    ASSUME NEW x \in Nat, NEW d \in Nat \ {0}, NEW lo \in Nat, NEW hi \in Nat,
           d * lo <= x, x <= d * hi
    PROVE  x \div d \in Nat /\ lo <= x \div d /\ x \div d <= hi
<1> DEFINE q == x \div d
<1>1. q \in Int /\ d * q <= x /\ x < d * (q + 1)
  OBVIOUS
<1> HIDE DEF q
<1>2. d * lo < d * (q + 1) /\ d * q <= d * hi
  BY <1>1
<1> QED BY <1>1, <1>2

\* The remainder of a number below twice the divisor.
LEMMA Remainder ==
    ASSUME NEW d \in Nat \ {0}, NEW x \in 0..(2 * d - 1)
    PROVE  x % d = IF x < d THEN x ELSE x - d
OBVIOUS

---------------------------------------------------------------------------
(* The sum of the GPU's samples. *)

\* The partial sums the loop goes through.
PartialSums(g, a, n) ==
    /\ g \in [0..n -> Int]
    /\ g[0] = 0
    /\ \A k \in 1..n : g[k] = g[k - 1] + a[k]

\* There are partial sums up to every length: the least length without any
\* would have a predecessor with some.
LEMMA PartialSumsExist ==
    ASSUME NEW N \in Nat, NEW a \in [1..N -> Nat]
    PROVE  \E g : PartialSums(g, a, N)
<1> DEFINE Without == {n \in 0..N : ~ \E g : PartialSums(g, a, n)}
<1>0. N \in 0..N
  OBVIOUS
<1> SUFFICES Without = {}
  BY <1>0
<1> SUFFICES ASSUME Without # {} PROVE FALSE
  OBVIOUS
<1>1. Without \subseteq Nat
  OBVIOUS
<1>2. PICK n \in Without : \A k \in Without : n <= k
  <2> HIDE DEF Without
  <2> QED BY <1>1, LeastExists
<1>3. n # 0
  <2>1. PartialSums([k \in 0..0 |-> 0], a, 0)
    BY DEF PartialSums
  <2> QED BY <2>1
<1>4. n \in 1..N /\ n - 1 \in 0..N /\ n - 1 \notin Without
  BY <1>2, <1>3
<1>5. PICK g : PartialSums(g, a, n - 1)
  BY <1>4
<1>6. a[n] \in Nat
  BY <1>4
<1> DEFINE h == [k \in 0..n |-> IF k = n THEN g[n - 1] + a[n] ELSE g[k]]
<1>7. g \in [0..(n - 1) -> Int] /\ g[0] = 0 /\ \A k \in 1..(n - 1) : g[k] = g[k - 1] + a[k]
  BY <1>5 DEF PartialSums
<1>8. h \in [0..n -> Int]
  BY <1>4, <1>6, <1>7
<1>9. h[0] = 0
  BY <1>4, <1>7
<1>10. \A k \in 1..n : h[k] = h[k - 1] + a[k]
  BY <1>4, <1>7
<1>11. PartialSums(h, a, n)
  BY <1>8, <1>9, <1>10 DEF PartialSums
<1> QED BY <1>2, <1>11

\* SumOf is the last of the partial sums.
LEMMA SumOfIs ==
    ASSUME NEW a \in [1..Samples -> Nat]
    PROVE  \E g : PartialSums(g, a, Samples) /\ SumOf(a) = g[Samples]
<1>0. Samples \in Nat \ {0}
  BY SocAssumption
<1> DEFINE Right(g) == g = [n \in 0..Samples |-> IF n = 0 THEN 0 ELSE g[n - 1] + a[n]]
           sum == CHOOSE g : Right(g)
<1>1. SumOf(a) = sum[Samples]
  BY DEF SumOf
<1>2. PICK g : PartialSums(g, a, Samples)
  BY <1>0, PartialSumsExist
<1>3. Right(g)
  <2>1. g \in [0..Samples -> Int] /\ g[0] = 0 /\ \A k \in 1..Samples : g[k] = g[k - 1] + a[k]
    BY <1>2 DEF PartialSums
  <2>2. \A k \in 0..Samples : g[k] = IF k = 0 THEN 0 ELSE g[k - 1] + a[k]
    BY <1>0, <2>1
  <2> QED BY <2>1, <2>2
<1>4. Right(sum)
  <2> HIDE DEF Right
  <2> QED BY <1>3
<1>5. sum = [n \in 0..Samples |-> IF n = 0 THEN 0 ELSE sum[n - 1] + a[n]]
  BY <1>4
<1> HIDE DEF sum, Right
<1>6. sum[0] = 0 /\ \A k \in 1..Samples : sum[k] = sum[k - 1] + a[k]
  BY <1>0, <1>5
<1>7. PartialSums(g, a, Samples) /\ sum[Samples] = g[Samples]
  <2>1. g \in [0..Samples -> Int] /\ g[0] = 0 /\ \A k \in 1..Samples : g[k] = g[k - 1] + a[k]
    BY <1>2 DEF PartialSums
  <2> DEFINE Off == {k \in 0..Samples : sum[k] # g[k]}
  <2>2. Off = {}
    <3> SUFFICES ASSUME Off # {} PROVE FALSE
      OBVIOUS
    <3>1. Off \subseteq Nat
      OBVIOUS
    <3>2. PICK k \in Off : \A j \in Off : k <= j
      <4> HIDE DEF Off
      <4> QED BY <3>1, LeastExists
    <3>3. k # 0 /\ k \in 0..Samples
      BY <3>2, <1>6, <2>1
    <3>4. k \in 1..Samples /\ k - 1 \in 0..Samples /\ k - 1 \notin Off
      BY <1>0, <3>2, <3>3
    <3>5. sum[k] = g[k]
      BY <1>6, <2>1, <3>4
    <3> QED BY <3>2, <3>5
  <2>3. Samples \in 0..Samples
    BY <1>0
  <2> QED BY <1>2, <2>2, <2>3
<1> QED BY <1>1, <1>7

\* A product with one factor less is the other factor less.
LEMMA TimesPred ==
    ASSUME NEW k \in Int, NEW x \in Int
    PROVE  (k - 1) * x = k * x - x /\ k * x \in Int
  OBVIOUS

\* Partial sums of values between two bounds are between the bounds' multiples.
LEMMA PartialSumsBetween ==
    ASSUME NEW N \in Nat, NEW a \in [1..N -> Nat], NEW g, PartialSums(g, a, N),
           NEW lo \in Nat, NEW hi \in Nat, \A i \in 1..N : lo <= a[i] /\ a[i] <= hi
    PROVE  N * lo <= g[N] /\ g[N] <= N * hi
<1>1. g \in [0..N -> Int] /\ g[0] = 0 /\ \A k \in 1..N : g[k] = g[k - 1] + a[k]
  BY DEF PartialSums
<1> DEFINE Outside == {k \in 0..N : ~(k * lo <= g[k] /\ g[k] <= k * hi)}
<1>2. Outside = {}
  <2> SUFFICES ASSUME Outside # {} PROVE FALSE
    OBVIOUS
  <2>1. Outside \subseteq Nat
    OBVIOUS
  <2>2. PICK k \in Outside : \A j \in Outside : k <= j
    <3> HIDE DEF Outside
    <3> QED BY <2>1, LeastExists
  <2>3. k # 0
    BY <1>1, <2>2
  <2>4. k \in 1..N /\ k - 1 \in 0..N /\ k - 1 \notin Outside
    BY <2>2, <2>3
  <2>5. (k - 1) * lo <= g[k - 1] /\ g[k - 1] <= (k - 1) * hi /\ g[k - 1] \in Int
    BY <1>1, <2>4
  <2>6. g[k] = g[k - 1] + a[k] /\ lo <= a[k] /\ a[k] <= hi /\ a[k] \in Nat
    BY <1>1, <2>4
  <2> HIDE DEF Outside
  <2>7. (k - 1) * lo = k * lo - lo /\ k * lo \in Int
    BY <2>4, TimesPred
  <2>8. (k - 1) * hi = k * hi - hi /\ k * hi \in Int
    BY <2>4, TimesPred
  <2> DEFINE P == k * lo
             Q == k * hi
  <2>9. /\ P \in Int /\ Q \in Int /\ g[k - 1] \in Int
        /\ P - lo <= g[k - 1] /\ g[k - 1] <= Q - hi
    BY <2>5, <2>7, <2>8
  <2> HIDE DEF P, Q
  <2>10. P <= g[k] /\ g[k] <= Q
    <3> DEFINE before == g[k - 1]
               sample == a[k]
    <3>1. /\ before \in Int /\ P - lo <= before /\ before <= Q - hi
          /\ sample \in Int /\ lo <= sample /\ sample <= hi
          /\ g[k] = before + sample
      BY <2>6, <2>9
    <3> HIDE DEF before, sample
    <3> QED BY <2>9, <3>1
  <2> QED BY <2>2, <2>10 DEF P, Q, Outside
<1>3. N \in 0..N
  OBVIOUS
<1> QED BY <1>2, <1>3

\* The sum of the samples lies between the multiples of their bounds.
LEMMA SumBetween ==
    ASSUME NEW a \in [1..Samples -> Nat], NEW lo \in Nat, NEW hi \in Nat,
           \A i \in 1..Samples : lo <= a[i] /\ a[i] <= hi
    PROVE  /\ SumOf(a) \in Nat
           /\ SumOf(a) \div Samples \in Nat
           /\ lo <= SumOf(a) \div Samples /\ SumOf(a) \div Samples <= hi
<1>1. Samples \in Nat \ {0}
  BY SocAssumption
<1>2. PICK g : PartialSums(g, a, Samples) /\ SumOf(a) = g[Samples]
  BY SumOfIs
<1>3. Samples * lo <= SumOf(a) /\ SumOf(a) <= Samples * hi
  BY <1>1, <1>2, PartialSumsBetween
<1>4. SumOf(a) \in Int
  BY <1>1, <1>2 DEF PartialSums
<1>5. SumOf(a) \in Nat
  <2>1. Samples * lo \in Nat
    BY <1>1
  <2> QED BY <1>3, <1>4, <2>1
<1> QED BY <1>1, <1>3, <1>5, QuotientBetween

---------------------------------------------------------------------------
(* The ring of samples. *)

\* Loads.
Tenths == 0..1000

\* Loads are the integers up to 1000.
LEMMA TenthsAre == \A x : x \in Tenths <=> x \in Int /\ 0 <= x /\ x <= 1000
BY DEF Tenths

\* Before the ring is full its entries are the samples taken; then the slot
\* written next holds the oldest of the last ones.
RingFits ==
    /\ ring = [array |-> ring.array, count |-> ring.count, load |-> ring.load, last |-> ring.last]
    /\ ring.array \in [1..Samples -> Tenths]
    /\ ring.count \in 0..(2 * Samples - 1)
    /\ ring.load \in Tenths
    /\ ring.last \in Seq(Tenths)
    /\ ring.count < Samples =>
          /\ Len(ring.last) = ring.count
          /\ \A j \in 1..ring.count : ring.last[j] = ring.array[j]
    /\ ring.count >= Samples =>
          /\ Len(ring.last) = Samples
          /\ \A j \in 1..Samples :
                LET i == ring.count - Samples + j
                IN  ring.last[j] = ring.array[IF i <= Samples THEN i ELSE i - Samples]

\* The load shown lies between two of the samples it was taken from.
LoadFits ==
    ring.count >= Samples =>
        /\ \E i \in 1..Samples : ring.last[i] <= ring.load
        /\ \E i \in 1..Samples : ring.last[i] >= ring.load

\* A sample replaces the oldest, and the new load is the samples' mean.
LEMMA RingStep ==
    ASSUME RingFits, SampleGpu
    PROVE  RingFits' /\ LoadFits'
<1> DEFINE N == Samples
           c == ring.count
           s == Slot(ring.count)
<1>1. N \in Nat \ {0}
  BY SocAssumption
<1>2. PICK x \in GpuSamples :
         LET a == [ring.array EXCEPT ![s] = x]
         IN  ring' = [array |-> a, count |-> IF c = 2 * Samples - 1 THEN Samples ELSE c + 1,
                      load |-> SumOf(a) \div Samples,
                      last |-> IF Len(ring.last) < Samples THEN Append(ring.last, x)
                               ELSE Append(Tail(ring.last), x)]
  BY DEF SampleGpu
<1>3. x \in Tenths /\ Tenths \subseteq Nat
  <2>1. x \in Tenths
    BY SocAssumption DEF Tenths
  <2> QED BY <2>1, TenthsAre
<1>4. /\ ring.array \in [1..N -> Tenths] /\ c \in 0..(2 * N - 1)
      /\ ring.last \in Seq(Tenths)
      /\ c < N => Len(ring.last) = c /\ \A j \in 1..c : ring.last[j] = ring.array[j]
      /\ c >= N => /\ Len(ring.last) = N
                  /\ \A j \in 1..N :
                        LET i == c - N + j
                        IN  ring.last[j] = ring.array[IF i <= N THEN i ELSE i - N]
  BY DEF RingFits
<1>0. c \in Int /\ 0 <= c /\ c <= 2 * N - 1 /\ N \in Int /\ 1 <= N
  BY <1>1, <1>4
<1>5. s \in 1..N /\ s = IF c < N THEN c + 1 ELSE c - N + 1
  <2>1. c % N = IF c < N THEN c ELSE c - N
    BY <1>1, <1>4, Remainder
  <2>2. s = (c % N) + 1
    BY DEF Slot
  <2> QED BY <1>0, <2>1, <2>2
<1> DEFINE a == [ring.array EXCEPT ![s] = x]
           l == IF Len(ring.last) < N THEN Append(ring.last, x) ELSE Append(Tail(ring.last), x)
           k == IF c = 2 * N - 1 THEN N ELSE c + 1
<1>6. ring' = [array |-> a, count |-> k, load |-> SumOf(a) \div N, last |-> l]
  BY <1>2
<1> HIDE DEF s
<1>7. /\ a \in [1..N -> Tenths] /\ a[s] = x
      /\ \A i \in 1..N : i # s => a[i] = ring.array[i]
  BY <1>3, <1>4, <1>5
<1>8. k \in 0..(2 * N - 1) /\ (k >= N <=> c >= N - 1)
  <2>1. k \in Int /\ 0 <= k /\ k <= 2 * N - 1
    BY <1>0
  <2>2. k >= N <=> c >= N - 1
    BY <1>0
  <2> QED BY <1>0, <2>1, <2>2
<1>9. l \in Seq(Tenths)
  BY <1>1, <1>3, <1>4
<1>10. ASSUME k < N
       PROVE  Len(l) = k /\ \A j \in 1..k : l[j] = a[j]
  <2>1. c < N - 1 /\ k = c + 1 /\ s = k /\ Len(ring.last) = c
    BY <1>1, <1>4, <1>5, <1>8, <1>10
  <2>2. l = Append(ring.last, x)
    BY <1>1, <1>4, <2>1
  <2>3. Len(l) = k /\ l[k] = x /\ \A j \in 1..c : l[j] = ring.last[j]
    BY <1>3, <1>4, <2>1, <2>2
  <2>4. \A j \in 1..k : j # k => (j \in 1..c /\ j # s /\ j \in 1..N)
    <3>1. k \in Int /\ k = c + 1 /\ s = k /\ c < N - 1
      BY <1>0, <2>1
    <3> HIDE DEF k, c, N
    <3> SUFFICES ASSUME NEW j \in 1..k, j # k
                 PROVE  j \in 1..c /\ j # s /\ j \in 1..N
      OBVIOUS
    <3>2. j \in Int /\ 1 <= j /\ j <= c /\ j # s /\ j <= N
      BY <1>0, <3>1
    <3> QED BY <1>0, <3>2
  <2>5. ASSUME NEW j \in 1..k PROVE l[j] = a[j]
    BY <1>4, <1>7, <2>1, <2>3, <2>4
  <2> QED BY <2>3, <2>5
<1>11. ASSUME k >= N
       PROVE  /\ Len(l) = N
              /\ \A j \in 1..N :
                    LET i == k - N + j
                    IN  l[j] = a[IF i <= N THEN i ELSE i - N]
  <2>1. CASE c < N
    <3>1. c = N - 1 /\ k = N /\ s = N /\ Len(ring.last) = N - 1
      BY <1>1, <1>4, <1>5, <1>8, <1>11, <2>1
    <3>2. l = Append(ring.last, x)
      BY <1>1, <1>4, <3>1
    <3>3. Len(l) = N /\ l[N] = x /\ \A j \in 1..(N - 1) : l[j] = ring.last[j]
      BY <1>1, <1>3, <1>4, <3>1, <3>2
    <3>4. ASSUME NEW j \in 1..N PROVE l[j] = a[j] /\ k - N + j = j /\ j <= N
      <4>1. CASE j = N
        BY <1>1, <1>7, <3>1, <3>3, <4>1
      <4>2. CASE j # N
        <5>1. j \in 1..(N - 1) /\ j \in 1..c /\ j # s
          BY <1>1, <3>1, <4>2
        <5> QED BY <1>1, <1>4, <1>7, <2>1, <3>1, <3>3, <5>1
      <4> QED BY <4>1, <4>2
    <3> HIDE DEF l, k, a
    <3> QED BY <3>3, <3>4
  <2>2. CASE c >= N
    <3>1. Len(ring.last) = N /\ s = c - N + 1 /\ c - N \in 0..(N - 1)
      BY <1>1, <1>4, <1>5, <2>2
    <3>2. l = Append(Tail(ring.last), x)
      BY <1>1, <3>1
    <3>3. Len(l) = N /\ l[N] = x /\ \A j \in 1..(N - 1) : l[j] = ring.last[j + 1]
      <4>1. ring.last # << >>
        BY <1>1, <1>4, <3>1
      <4>2. Tail(ring.last) \in Seq(Tenths) /\ Len(Tail(ring.last)) = N - 1
            /\ \A j \in 1..(N - 1) : Tail(ring.last)[j] = ring.last[j + 1]
        BY <1>1, <1>4, <3>1, <4>1
      <4> HIDE DEF l
      <4> QED BY <1>1, <1>3, <3>2, <4>2
    <3>4. ASSUME NEW j \in 1..N
          PROVE  LET i == k - N + j
                 IN  l[j] = a[IF i <= N THEN i ELSE i - N]
      <4> DEFINE i == k - N + j
                 at == IF i <= N THEN i ELSE i - N
      <4>1. CASE j = N
        <5>1. at = s
          BY <1>1, <1>4, <3>1, <4>1
        <5> QED BY <1>7, <3>3, <4>1, <5>1
      <4>2. CASE j # N
        <5>1. j \in 1..(N - 1) /\ j + 1 \in 1..N
          BY <1>1, <4>2
        <5> DEFINE ii == c - N + (j + 1)
                   old == IF ii <= N THEN ii ELSE ii - N
        <5>2. ring.last[j + 1] = ring.array[old]
          BY <1>4, <2>2, <5>1
        <5>3. at = old /\ at \in 1..N /\ at # s
          <6>1. k = IF c = 2 * N - 1 THEN N ELSE c + 1
            OBVIOUS
          <6>2. i = k - N + j /\ ii = c - N + (j + 1) /\ j \in Int /\ 1 <= j /\ j <= N - 1
            BY <1>0, <5>1
          <6> HIDE DEF k, i, ii
          <6>3. at = IF i <= N THEN i ELSE i - N
            OBVIOUS
          <6>4. old = IF ii <= N THEN ii ELSE ii - N
            OBVIOUS
          <6> HIDE DEF at, old
          <6>5. k \in Int /\ s = c - N + 1
            BY <1>0, <3>1, <6>1
          <6>6. CASE c = 2 * N - 1
            <7>1. k = N /\ i = j /\ ii = N + j /\ s = N
              BY <1>0, <6>1, <6>2, <6>5, <6>6
            <7> QED BY <1>0, <6>2, <6>3, <6>4, <7>1
          <6>7. CASE c # 2 * N - 1
            <7>1. k = c + 1 /\ i = ii /\ ii = s + j
              BY <1>0, <6>1, <6>2, <6>5, <6>7
            <7>2. s \in Int /\ 1 <= s /\ s < N
              BY <1>0, <2>2, <6>5, <6>7
            <7> QED BY <1>0, <6>2, <6>3, <6>4, <7>1, <7>2
          <6> QED BY <6>6, <6>7
        <5>4. l[j] = ring.last[j + 1]
          BY <3>3, <5>1
        <5>5. a[at] = ring.array[at]
          BY <1>7, <5>3
        <5> HIDE DEF at, old, l, a
        <5>6. l[j] = a[at]
          BY <5>2, <5>3, <5>4, <5>5
        <5> QED BY <5>6 DEF at
      <4> QED BY <4>1, <4>2
    <3> HIDE DEF l, k, a
    <3> QED BY <3>3, <3>4
  <2> HIDE DEF a, l, k
  <2> QED BY <1>0, <2>1, <2>2
<1> DEFINE v == SumOf(a) \div N
<1>12. a \in [1..N -> Nat]
  BY <1>3, <1>7
<1>13. v \in Tenths
  <2>1. \A i \in 1..N : 0 <= a[i] /\ a[i] <= 1000
    <3> HIDE DEF a
    <3>1. \A i \in 1..N : a[i] \in Tenths
      BY <1>7
    <3> QED BY <3>1, TenthsAre
  <2> DEFINE lo == 0   hi == 1000
  <2>2. lo \in Nat /\ hi \in Nat /\ \A i \in 1..N : lo <= a[i] /\ a[i] <= hi
    BY <2>1
  <2> HIDE DEF lo, hi, a
  <2>3. v \in Nat /\ lo <= v /\ v <= hi
    BY <1>12, <2>2, SumBetween
  <2> QED BY <2>3, TenthsAre DEF lo, hi
<1> HIDE DEF a, l, k, v
<1>14. RingFits'
  <2>1. /\ ring' = [array |-> ring'.array, count |-> ring'.count, load |-> ring'.load,
                    last |-> ring'.last]
        /\ ring'.array = a /\ ring'.count = k /\ ring'.load = v /\ ring'.last = l
    BY <1>6 DEF v
  <2> QED BY <1>7, <1>8, <1>9, <1>10, <1>11, <1>13, <2>1 DEF RingFits
<1>15. ASSUME k >= N
       PROVE  \A i \in 1..N : \E j \in 1..N : a[i] = l[j]
  <2> SUFFICES ASSUME NEW i \in 1..N PROVE \E j \in 1..N : a[i] = l[j]
    OBVIOUS
  <2> DEFINE j == IF i > k - N THEN i - (k - N) ELSE i - (k - N) + N
             ii == k - N + j
  <2>1. j \in 1..N /\ i = IF ii <= N THEN ii ELSE ii - N
    BY <1>1, <1>8, <1>15
  <2>2. l[j] = a[IF ii <= N THEN ii ELSE ii - N]
    BY <1>11, <1>15, <2>1
  <2> QED BY <2>1, <2>2
<1>16. ASSUME k >= N
       PROVE  (\E i \in 1..N : l[i] <= v) /\ (\E i \in 1..N : l[i] >= v)
  <2>1. \A i \in 1..N : l[i] \in Tenths
    BY <1>9, <1>11, <1>16
  <2>2. \E i \in 1..N : l[i] <= v
    <3> SUFFICES ASSUME \A i \in 1..N : ~(l[i] <= v) PROVE FALSE
      OBVIOUS
    <3>0. \A i \in 1..N : a[i] \in Int /\ a[i] <= 1000
      <4>1. \A i \in 1..N : a[i] \in Tenths
        BY <1>7
      <4> QED BY <4>1, TenthsAre
    <3>1. \A i \in 1..N : v + 1 <= a[i] /\ a[i] <= 1000
      <4>1. \A i \in 1..N : l[i] \in Int /\ ~(l[i] <= v) /\ v \in Int
        BY <1>13, <2>1, TenthsAre
      <4>2. \A i \in 1..N : v + 1 <= l[i]
        BY <4>1
      <4> QED BY <1>15, <1>16, <3>0, <4>2
    <3> DEFINE lo == v + 1   hi == 1000
    <3>2. lo \in Nat /\ hi \in Nat /\ \A i \in 1..N : lo <= a[i] /\ a[i] <= hi
      BY <1>13, <3>1, TenthsAre
    <3> HIDE DEF lo, hi
    <3>3. lo <= v
      BY <1>12, <3>2, SumBetween DEF v
    <3> QED BY <1>13, <3>3, TenthsAre DEF lo
  <2>3. \E i \in 1..N : l[i] >= v
    <3> SUFFICES ASSUME \A i \in 1..N : ~(l[i] >= v) PROVE FALSE
      OBVIOUS
    <3>1. \A i \in 1..N : 0 <= a[i] /\ a[i] <= v - 1
      BY <1>7, <1>13, <1>15, <1>16, <2>1, TenthsAre
    <3>2. v - 1 \in Nat
      <4>1. 1 \in 1..N
        BY <1>1
      <4> QED BY <1>7, <1>13, <3>1, <4>1, TenthsAre
    <3> DEFINE lo == 0   hi == v - 1
    <3>3. lo \in Nat /\ hi \in Nat /\ \A i \in 1..N : lo <= a[i] /\ a[i] <= hi
      BY <3>1, <3>2
    <3> HIDE DEF lo, hi
    <3>4. v <= hi
      BY <1>12, <3>3, SumBetween DEF v
    <3> QED BY <1>13, <3>4, TenthsAre DEF hi
  <2> QED BY <2>2, <2>3
<1>17. LoadFits'
  <2>1. ring'.count = k /\ ring'.load = v /\ ring'.last = l
    BY <1>6 DEF v
  <2> QED BY <1>16, <2>1 DEF LoadFits
<1> QED BY <1>14, <1>17

---------------------------------------------------------------------------
(* The loads of GPU, CPU and memory. *)

\* A core's load never leaves its range, however long its window.
LEMMA UsageBounded ==
    ASSUME NEW t \in Nat
    PROVE  Usage(t) \in Nat /\ Usage(t) <= 1000
<1> DEFINE x == (9600 - t) * 1000 + 4800
<1>1. CASE t > 9600
  BY <1>1 DEF Usage, WindowTicks
<1>2. CASE ~(t > 9600)
  <2>1. Usage(t) = x \div 9600
    <3>1. 9600 \div 2 = 4800
      OBVIOUS
    <3> QED BY <1>2, <3>1 DEF Usage, WindowTicks
  <2>2. x \in Nat /\ x <= 9604800
    BY <1>2
  <2> HIDE DEF x
  <2>3. x \div 9600 \in Nat /\ x \div 9600 <= 1000
    BY <2>2
  <2> QED BY <2>1, <2>3
<1> QED BY <1>1, <1>2

\* Idle ticks are counts.
IdleFits == idle \in [0..2 -> Nat]

\* Nor does the greatest of the cores' loads.
LEMMA CpuLoadBounded ==
    ASSUME IdleFits
    PROVE  GetMaxCpuLoad(idle) \in Tenths
<1>1. idle[0] \in Nat /\ idle[1] \in Nat /\ idle[2] \in Nat
  <2>1. 0 \in 0..2 /\ 1 \in 0..2 /\ 2 \in 0..2
    OBVIOUS
  <2> QED BY <2>1 DEF IdleFits
<1>2. /\ Usage(idle[0]) \in Nat /\ Usage(idle[0]) <= 1000
      /\ Usage(idle[1]) \in Nat /\ Usage(idle[1]) <= 1000
      /\ Usage(idle[2]) \in Nat /\ Usage(idle[2]) <= 1000
  BY <1>1, UsageBounded
<1>3. /\ GetMaxCpuLoad(idle) \in Int /\ 0 <= GetMaxCpuLoad(idle) /\ GetMaxCpuLoad(idle) <= 1000
  BY <1>2 DEF GetMaxCpuLoad, Higher
<1> QED BY <1>3, TenthsAre

\* One update of the memory's loads is consistent in itself.
EmcFits ==
    /\ emc = [mhz |-> emc.mhz, all |-> emc.all, cpu |-> emc.cpu, bwAll |-> emc.bwAll,
              bwCpu |-> emc.bwCpu, bwGpu |-> emc.bwGpu, peak |-> emc.peak]
    /\ emc.all \in Nat /\ emc.all <= 1000 /\ emc.cpu \in Nat /\ emc.cpu <= emc.all
    /\ emc.bwAll \in Nat /\ emc.bwCpu \in Nat /\ emc.bwGpu \in Nat
    /\ emc.bwCpu + emc.bwGpu = emc.bwAll

\* What an update's loads and bandwidths are to each other.
Consistent(u) ==
    /\ u.all \in Nat /\ u.all <= 1000 /\ u.cpu \in Nat /\ u.cpu <= u.all
    /\ u.bwAll \in Nat /\ u.bwCpu \in Nat /\ u.bwGpu \in Nat
    /\ u.bwCpu + u.bwGpu = u.bwAll

\* An update whose CPU share is part of the whole is consistent.
LEMMA UpdateFits ==
    ASSUME NEW mhz \in Nat \ {0}, NEW share \in {0, 3, 10}, NEW pc \in {0, 7, 10}
    PROVE  Consistent(UpdateOf(mhz, mhz * 2 * share, (mhz * 2 * share * pc) \div 10))
<1> DEFINE all == mhz * 2 * share
           own == (mhz * 2 * share * pc) \div 10
           d == mhz * 20
           la == EmcLoad(all, mhz)
           lc == EmcLoad(own, mhz)
<1>1. all \in Nat /\ d \in Nat \ {0}
  OBVIOUS
<1>2. own \in Nat /\ own <= all
  <2> DEFINE y == all * pc
  <2>1. y \in Nat /\ y <= 10 * all /\ own = y \div 10
    BY <1>1
  <2> HIDE DEF y, all, own
  <2> QED BY <1>1, <2>1
<1>3. all * 1000 = d * (100 * share)
  BY <1>1
<1>4. la = 100 * share
  <2>1. 100 * share \in Nat
    OBVIOUS
  <2>2. (d * (100 * share)) \div d = 100 * share
    <3> HIDE DEF d
    <3> QED BY <1>1, <2>1, ExactQuotient
  <2> QED BY <1>3, <2>2 DEF EmcLoad
<1>5. la \in Nat /\ la <= 1000
  BY <1>4
<1>6. lc \in Nat /\ lc <= la
  <2> DEFINE x == own * 1000   y == all * 1000
  <2>1. lc = x \div d /\ la = y \div d
    BY DEF EmcLoad
  <2>2. x \in Nat /\ y \in Nat /\ x <= y
    BY <1>1, <1>2
  <2> HIDE DEF x, y, d, lc, la
  <2> QED BY <1>1, <2>1, <2>2, QuotientGrows
<1> DEFINE ba == EmcBw(mhz, la)
           bc == EmcBw(mhz, lc)
<1>7. ba \in Nat /\ bc \in Nat /\ bc <= ba
  <2> DEFINE x == mhz * 16 * lc   y == mhz * 16 * la   k == 1000
  <2>1. bc = x \div k /\ ba = y \div k
    BY DEF EmcBw
  <2>2. x \in Nat /\ y \in Nat /\ x <= y /\ k \in Nat \ {0}
    <3> HIDE DEF la, lc
    <3> QED BY <1>5, <1>6
  <2> HIDE DEF x, y, k, ba, bc
  <2> QED BY <2>1, <2>2, QuotientGrows
<1>8. UpdateOf(mhz, all, own)
        = [mhz |-> mhz, all |-> la, cpu |-> lc, bwAll |-> ba, bwCpu |-> bc, bwGpu |-> ba - bc,
           peak |-> mhz * 16]
  BY DEF UpdateOf
<1> HIDE DEF la, lc, ba, bc
<1>9. ba - bc \in Nat /\ bc + (ba - bc) = ba
  BY <1>7
<1> HIDE DEF all, own, d
<1>10. Consistent(UpdateOf(mhz, all, own))
  BY <1>5, <1>6, <1>7, <1>8, <1>9 DEF Consistent
<1> QED BY <1>10 DEF all, own

\* Each update leaves loads and bandwidths consistent.
LEMMA EmcStep == ASSUME EmcFits, UpdateFreqs PROVE EmcFits'
<1>1. PICK mhz \in EmcClocks, share \in {0, 3, 10}, pc \in {0, 7, 10} :
         \/ emc' = UpdateOf(mhz, mhz * 2 * share, (mhz * 2 * share * pc) \div 10)
         \/ emc' = [emc EXCEPT !.mhz = mhz, !.peak = mhz * 16]
  BY DEF UpdateFreqs
<1>2. mhz \in Nat \ {0}
  BY SocAssumption
<1>3. CASE emc' = UpdateOf(mhz, mhz * 2 * share, (mhz * 2 * share * pc) \div 10)
  <2> DEFINE u == UpdateOf(mhz, mhz * 2 * share, (mhz * 2 * share * pc) \div 10)
  <2>1. /\ u.all \in Nat /\ u.all <= 1000 /\ u.cpu \in Nat /\ u.cpu <= u.all
        /\ u.bwAll \in Nat /\ u.bwCpu \in Nat /\ u.bwGpu \in Nat
        /\ u.bwCpu + u.bwGpu = u.bwAll
    <3>1. Consistent(u)
      BY <1>2, UpdateFits
    <3> QED BY <3>1 DEF Consistent
  <2>2. u = [mhz |-> u.mhz, all |-> u.all, cpu |-> u.cpu, bwAll |-> u.bwAll,
             bwCpu |-> u.bwCpu, bwGpu |-> u.bwGpu, peak |-> u.peak]
    BY DEF UpdateOf
  <2>3. emc' = u
    BY <1>3
  <2> HIDE DEF u
  <2> QED BY <2>1, <2>2, <2>3 DEF EmcFits
<1>4. CASE emc' = [emc EXCEPT !.mhz = mhz, !.peak = mhz * 16]
  <2> DEFINE pk == mhz * 16
  <2>1. emc' = [mhz |-> mhz, all |-> emc.all, cpu |-> emc.cpu, bwAll |-> emc.bwAll,
                bwCpu |-> emc.bwCpu, bwGpu |-> emc.bwGpu, peak |-> pk]
    <3> HIDE DEF pk
    <3>1. emc' = [emc EXCEPT !.mhz = mhz, !.peak = pk]
      BY <1>4 DEF pk
    <3> QED BY <3>1 DEF EmcFits
  <2> HIDE DEF pk
  <2> QED BY <2>1 DEF EmcFits
<1> QED BY <1>1, <1>3, <1>4

---------------------------------------------------------------------------
(* The GPU's PLL. *)

\* A middle clock is an odd multiple of 38.4 MHz; PCV gets the next even one.
LEMMA MiddleClock ==
    ASSUME NEW f \in Nat, UseGm20b(f)
    PROVE  \E k \in Nat \ {0} : f = 38400 * k /\ PcvHz(f) = 38400 * (k + 1)
<1> DEFINE j == f \div 76800
<1>1. j \in Nat /\ f % 38400 = 0 /\ f % 76800 # 0
  BY DEF UseGm20b
<1>2. f = 76800 * j + 38400
  BY <1>1
<1>3. (f + 76800 - 1) \div 76800 = j + 1
  <2> HIDE DEF j
  <2>1. f + 76800 - 1 = 76800 * (j + 1) + 38399 /\ j \in Nat
    BY <1>1, <1>2
  <2> QED BY <2>1
<1>4. PcvHz(f) = 76800 * (j + 1)
  <2> HIDE DEF j
  <2>1. PcvHz(f) = ((f + 76800 - 1) \div 76800) * 76800
    BY DEF PcvHz
  <2> QED BY <1>1, <1>3, <2>1
<1> DEFINE k == 2 * j + 1
<1>5. k \in Nat \ {0} /\ f = 38400 * k /\ PcvHz(f) = 38400 * (k + 1)
  <2> HIDE DEF j
  <2> QED BY <1>1, <1>2, <1>4
<1> QED BY <1>5

\* The dividers PCV chooses.
LEMMA DividersAre ==
    ASSUME NEW f \in Nat, NEW d \in PcvDividers(f)
    PROVE  /\ d = [m |-> 1, n |-> (2 * f * d.p) \div 38400, p |-> d.p]
           /\ d.p \in Nat /\ 1 <= d.p /\ d.p <= 16
           /\ 1300000 <= 2 * f * d.p /\ 2 * f * d.p <= 2688000
<1>1. PICK q \in PostDividers :
         2 * f * q \in VcoMin..VcoMax /\ d = [m |-> 1, n |-> (2 * f * q) \div Osc, p |-> q]
  BY Zenon DEF PcvDividers
<1>2. Osc = 38400
  BY SMT DEF Osc
<1>3. d.p = q
  BY SMT, <1>1
<1>4. q \in Nat /\ 1 <= q /\ q <= 16
  BY SMT DEF PostDividers
<1>5. 1300000 <= 2 * f * q /\ 2 * f * q <= 2688000
  <2>0. VcoMin \in Int /\ VcoMax \in Int
    BY SMT DEF VcoMin, VcoMax
  <2>1. VcoMin <= 2 * f * q /\ 2 * f * q <= VcoMax
    BY SMT, <1>1, <2>0
  <2> QED BY SMT, <2>1 DEF VcoMin, VcoMax
<1>6. d = [m |-> 1, n |-> (2 * f * d.p) \div 38400, p |-> d.p]
  BY SMT, <1>1, <1>2, <1>3
<1> QED BY SMT, <1>3, <1>4, <1>5, <1>6

\* Their n is one t210.c can multiply.
LEMMA DividersFit ==
    ASSUME NEW f \in Nat, NEW d \in PcvDividers(f)
    PROVE  d = [m |-> 1, n |-> d.n, p |-> d.p] /\ d.n \in Int /\ 33 <= d.n /\ d.n <= 70
<1> DEFINE x == 2 * f * d.p
<1>1. d = [m |-> 1, n |-> x \div 38400, p |-> d.p] /\ x \in Int /\ 1300000 <= x /\ x <= 2688000
  BY SMT, DividersAre
<1> HIDE DEF x
<1>2. x \div 38400 \in Int /\ 33 <= x \div 38400 /\ x \div 38400 <= 70
  BY SMT, <1>1
<1>3. d.n = x \div 38400
  BY SMT, <1>1
<1> QED BY SMT, <1>1, <1>2, <1>3

\* With the n of setClock the PLL gives the clock that was asked.
LEMMA SlideHits ==
    ASSUME NEW f \in Nat, UseGm20b(f), NEW d \in PcvDividers(PcvHz(f))
    PROVE  /\ GpuFreq([d EXCEPT !.n = NewDivn(d, f)]) = f
           /\ NewDivn(d, f) \in Int /\ 8 <= NewDivn(d, f) /\ NewDivn(d, f) <= 70
<1>1. PICK k \in Nat \ {0} : f = 38400 * k /\ PcvHz(f) = 38400 * (k + 1)
  BY SMT, MiddleClock
<1> DEFINE h == PcvHz(f)
           p0 == d.p
           z == k * p0
<1>2. h \in Nat /\ d = [m |-> 1, n |-> (2 * h * p0) \div 38400, p |-> p0]
      /\ p0 \in Nat /\ 1 <= p0 /\ p0 <= 16 /\ 1300000 <= 2 * h * p0 /\ 2 * h * p0 <= 2688000
  <2>1. h \in Nat
    BY SMT, <1>1
  <2> QED BY SMT, <2>1, DividersAre
<1>3. z \in Nat /\ z >= p0 /\ 2 * h * p0 = 76800 * z + 76800 * p0
  <2>1. z \in Nat /\ z >= p0
    BY SMT, <1>2
  <2>2. 2 * h * p0 = 2 * (38400 * (k + 1)) * p0
    BY SMT, <1>1
  <2>3. 2 * (38400 * (k + 1)) * p0 = 76800 * (k * p0) + 76800 * p0
    <3> HIDE DEF p0
    <3> QED BY SMT, <1>2
  <2> QED BY SMT, <2>1, <2>2, <2>3
<1>4. 8 <= 2 * z /\ 2 * z <= 70
  <2> DEFINE w == 2 * h * p0
  <2>1. w = 76800 * z + 76800 * p0 /\ 1300000 <= w /\ w <= 2688000
    BY SMT, <1>2, <1>3
  <2> HIDE DEF w, z, p0
  <2> QED BY SMT, <1>2, <1>3, <2>1
<1>5. (f * d.m * d.p * 2) \div Osc = 2 * z
  <2>1. d.m = 1 /\ Osc = 38400
    BY SMT, <1>2 DEF Osc
  <2>2. f * 1 * p0 * 2 = 38400 * (2 * z)
    <3> HIDE DEF p0
    <3> QED BY SMT, <1>1, <1>2
  <2>3. f * d.m * d.p * 2 = 38400 * (2 * z)
    BY SMT, <2>1, <2>2
  <2> HIDE DEF z
  <2>4. (38400 * (2 * z)) \div 38400 = 2 * z
    BY SMT, <1>3
  <2> QED BY SMT, <2>1, <2>3, <2>4
<1>6. NewDivn(d, f) = 2 * z
  <2> HIDE DEF z
  <2> QED BY SMT, <1>3, <1>4, <1>5 DEF NewDivn
<1>7. [d EXCEPT !.n = NewDivn(d, f)] = [m |-> 1, n |-> 2 * z, p |-> p0]
  <2> HIDE DEF z, h
  <2> QED BY SMT, <1>2, <1>6
<1>8. GpuFreq([m |-> 1, n |-> 2 * z, p |-> p0]) = f
  <2>1. GpuFreq([m |-> 1, n |-> 2 * z, p |-> p0]) = ((38400 * (2 * z)) \div (1 * p0)) \div 2
    BY SMT DEF GpuFreq, Osc
  <2>2. 38400 * (2 * z) = p0 * (2 * f) /\ 1 * p0 = p0
    <3> HIDE DEF p0
    <3> QED BY SMT, <1>1, <1>2
  <2>3. (p0 * (2 * f)) \div p0 = 2 * f
    <3>1. p0 \in Nat \ {0} /\ 2 * f \in Nat
      BY SMT, <1>2
    <3> HIDE DEF p0
    <3> QED BY SMT, <3>1, ExactQuotient
  <2>4. (2 * f) \div 2 = f
    BY SMT
  <2> HIDE DEF z, p0
  <2> QED BY SMT, <2>1, <2>2, <2>3, <2>4
<1> HIDE DEF z, p0
<1> QED BY SMT, <1>3, <1>4, <1>6, <1>7, <1>8

\* The PLL's registers and the slide under way: what each step of the slide has
\* made of the coefficients, unless PCV wrote the PLL meanwhile.
PllTyped ==
    /\ pll = [c |-> pll.c, slow |-> pll.slow, ramp |-> pll.ramp]
    /\ pll.c.n \in Int /\ 1 <= pll.c.n /\ pll.c.n <= 111
    /\ pll.slow \in BOOLEAN /\ pll.ramp \in BOOLEAN
    /\ slide = [at |-> slide.at, coeff |-> slide.coeff, divn |-> slide.divn, hz |-> slide.hz]
    /\ slide.at \in {"idle", "setup", "coeff", "ramp", "wait"}

SlideTargets ==
    /\ slide.at # "idle" =>
          /\ slide.hz \in Nat /\ UseGm20b(slide.hz)
          /\ slide.coeff \in PcvDividers(PcvHz(slide.hz))
          /\ slide.divn = NewDivn(slide.coeff, slide.hz)
    /\ slide.at \in {"ramp", "wait"} /\ ~clash =>
          pll.c = [slide.coeff EXCEPT !.n = slide.divn]

PllFits == PllTyped /\ SlideTargets /\ InjectedClockRuns

\* A clock set, with or without a slide that starts.
LEMMA SetGpuStep ==
    ASSUME PllFits, NEW f \in GpuClocks, SetGpu(f)
    PROVE  PllFits'
<1>1. /\ slide.at = "idle" /\ f \in Nat
      /\ injected' = IF UseGm20b(f) /\ slide' = slide THEN f ELSE 0
  BY SMT, SocAssumption DEF SetGpu
<1>2. PICK d \in PcvDividers(PcvHz(f)), unread \in BOOLEAN :
         /\ pll' = [pll EXCEPT !.c = d]
         /\ slide' = IF UseGm20b(f) /\ ~unread /\ NewDivn(d, f) # d.n
                     THEN [at |-> "setup", coeff |-> d, divn |-> NewDivn(d, f), hz |-> f]
                     ELSE slide
         /\ clash' = (UseGm20b(f) /\ unread)
  BY Zenon DEF SetGpu
<1>3. ~pll.slow /\ ~pll.ramp
  BY <1>1 DEF PllFits, InjectedClockRuns
<1>4. pll' = [c |-> d, slow |-> pll.slow, ramp |-> pll.ramp]
  BY <1>2 DEF PllFits, PllTyped
<1>5. PcvHz(f) \in Nat
  <2>1. CASE UseGm20b(f)
    <3>1. PICK k \in Nat \ {0} : f = 38400 * k /\ PcvHz(f) = 38400 * (k + 1)
      BY SMT, <1>1, <2>1, MiddleClock
    <3> QED BY SMT, <3>1
  <2>2. CASE ~UseGm20b(f)
    BY SMT, <1>1, <2>2 DEF PcvHz
  <2> QED BY <2>1, <2>2
<1>6. d = [m |-> 1, n |-> d.n, p |-> d.p] /\ d.n \in Int /\ 33 <= d.n /\ d.n <= 70
  BY SMT, <1>5, DividersFit
<1>7. /\ pll'.c = d /\ pll'.slow = pll.slow /\ pll'.ramp = pll.ramp
      /\ pll' = [c |-> pll'.c, slow |-> pll'.slow, ramp |-> pll'.ramp]
  BY <1>4
<1>8. CASE UseGm20b(f) /\ ~unread /\ NewDivn(d, f) # d.n
  <2> DEFINE n == NewDivn(d, f)
  <2>1. slide' = [at |-> "setup", coeff |-> d, divn |-> n, hz |-> f]
    BY <1>2, <1>8
  <2> HIDE DEF n
  <2>2. /\ slide'.at = "setup" /\ slide'.coeff = d /\ slide'.divn = n /\ slide'.hz = f
        /\ slide' = [at |-> slide'.at, coeff |-> slide'.coeff, divn |-> slide'.divn,
                     hz |-> slide'.hz]
    BY <2>1
  <2>3. PllTyped'
    <3>1. pll'.c.n = d.n
      BY <1>7
    <3>2. pll.slow \in BOOLEAN /\ pll.ramp \in BOOLEAN
      BY DEF PllFits, PllTyped
    <3> QED BY <1>6, <1>7, <2>2, <3>1, <3>2 DEF PllTyped
  <2>4. SlideTargets'
    BY <1>1, <1>8, <2>2 DEF SlideTargets, n
  <2>5. InjectedClockRuns'
    BY <2>2 DEF InjectedClockRuns
  <2> QED BY <2>3, <2>4, <2>5 DEF PllFits
<1>9. CASE ~(UseGm20b(f) /\ ~unread /\ NewDivn(d, f) # d.n)
  <2>1. slide' = slide
    BY <1>2, <1>9
  <2>2. PllTyped'
    BY <1>3, <1>6, <1>7, <2>1 DEF PllTyped, PllFits
  <2>3. SlideTargets'
    BY <1>1, <2>1 DEF SlideTargets
  <2>4. InjectedClockRuns'
    <3>1. ~pll'.slow /\ ~pll'.ramp
      BY <1>3, <1>7
    <3>2. ASSUME injected' # 0, ~clash'
          PROVE  GpuFreq(pll'.c) = injected'
      <4>1. UseGm20b(f) /\ injected' = f
        BY <1>1, <3>2
      <4>2. NewDivn(d, f) = d.n
        BY <1>2, <1>9, <3>2, <4>1
      <4>3. [d EXCEPT !.n = NewDivn(d, f)] = d
        BY <1>6, <4>2
      <4>4. GpuFreq([d EXCEPT !.n = NewDivn(d, f)]) = f
        BY SMT, <1>1, <4>1, SlideHits
      <4> QED BY <1>7, <4>1, <4>3, <4>4
    <3> QED BY <3>1, <3>2 DEF InjectedClockRuns
  <2> QED BY <2>2, <2>3, <2>4 DEF PllFits
<1> QED BY <1>8, <1>9

\* The steps of a slide, the last of which releases the slowdown.
LEMMA SlideStep ==
    ASSUME PllFits, SlideSetup \/ SlideCoeff \/ SlideRamp \/ SlideEnds
    PROVE  PllFits'
<1>0. PllTyped /\ SlideTargets
  BY DEF PllFits
<1>a. CASE SlideSetup \/ SlideRamp
  <2>1. /\ slide.at # "idle"
        /\ \/ pll' = [pll EXCEPT !.slow = TRUE] /\ slide' = [slide EXCEPT !.at = "coeff"]
           \/ pll' = [pll EXCEPT !.ramp = TRUE] /\ slide' = [slide EXCEPT !.at = "wait"]
              /\ slide.at = "ramp"
        /\ injected' = injected /\ clash' = clash
    BY <1>a DEF SlideSetup, SlideRamp
  <2>2. /\ pll'.c = pll.c /\ pll'.slow \in BOOLEAN /\ pll'.ramp \in BOOLEAN
        /\ pll' = [c |-> pll'.c, slow |-> pll'.slow, ramp |-> pll'.ramp]
    BY <1>0, <2>1 DEF PllTyped
  <2>3. /\ slide'.at \in {"coeff", "wait"} /\ (slide'.at = "wait" => slide.at = "ramp")
        /\ slide'.coeff = slide.coeff /\ slide'.divn = slide.divn /\ slide'.hz = slide.hz
        /\ slide' = [at |-> slide'.at, coeff |-> slide'.coeff, divn |-> slide'.divn,
                     hz |-> slide'.hz]
    BY <1>0, <2>1 DEF PllTyped
  <2>4. PllTyped'
    BY <1>0, <2>2, <2>3 DEF PllTyped
  <2>5. SlideTargets'
    BY <1>0, <2>1, <2>2, <2>3 DEF SlideTargets
  <2>6. InjectedClockRuns'
    BY <2>3 DEF InjectedClockRuns
  <2> QED BY <2>4, <2>5, <2>6 DEF PllFits
<1>b. CASE SlideCoeff
  <2>1. /\ slide.at # "idle" /\ injected' = injected /\ clash' = clash
        /\ pll' = [pll EXCEPT !.c = [slide.coeff EXCEPT !.n = slide.divn]]
        /\ slide' = [slide EXCEPT !.at = "ramp"]
    BY <1>b DEF SlideCoeff
  <2> DEFINE hz == slide.hz   d == slide.coeff   n == NewDivn(d, hz)
  <2>2. hz \in Nat /\ UseGm20b(hz) /\ d \in PcvDividers(PcvHz(hz)) /\ slide.divn = n
    BY <1>0, <2>1 DEF SlideTargets
  <2>3. n \in Int /\ 8 <= n /\ n <= 70
    <3>1. /\ GpuFreq([slide.coeff EXCEPT !.n = NewDivn(slide.coeff, slide.hz)]) = slide.hz
          /\ NewDivn(slide.coeff, slide.hz) \in Int
          /\ 8 <= NewDivn(slide.coeff, slide.hz) /\ NewDivn(slide.coeff, slide.hz) <= 70
      BY SMT, <2>2, SlideHits
    <3> QED BY <3>1
  <2>4. PcvHz(hz) \in Nat
    <3>1. PICK k \in Nat \ {0} : hz = 38400 * k /\ PcvHz(hz) = 38400 * (k + 1)
      BY SMT, <2>2, MiddleClock
    <3> QED BY SMT, <3>1
  <2>5. d = [m |-> 1, n |-> d.n, p |-> d.p]
    <3> HIDE DEF d, hz
    <3> QED BY SMT, <2>2, <2>4, DividersFit
  <2> HIDE DEF n
  <2>6. /\ pll'.c = [m |-> 1, n |-> n, p |-> d.p] /\ pll'.slow = pll.slow /\ pll'.ramp = pll.ramp
        /\ pll' = [c |-> pll'.c, slow |-> pll'.slow, ramp |-> pll'.ramp]
    BY <1>0, <2>1, <2>2, <2>5 DEF PllTyped
  <2>7. /\ slide'.at = "ramp"
        /\ slide'.coeff = d /\ slide'.divn = n /\ slide'.hz = hz
        /\ slide' = [at |-> slide'.at, coeff |-> slide'.coeff, divn |-> slide'.divn,
                     hz |-> slide'.hz]
    BY <1>0, <2>1, <2>2 DEF PllTyped
  <2>8. PllTyped'
    <3>1. pll'.c.n = n
      BY <2>6
    <3> QED BY <1>0, <2>3, <2>6, <2>7, <3>1 DEF PllTyped
  <2>9. SlideTargets'
    <3>1. [d EXCEPT !.n = n] = [m |-> 1, n |-> n, p |-> d.p]
      BY <2>5
    <3> HIDE DEF d, hz
    <3> QED BY <2>2, <2>6, <2>7, <3>1 DEF SlideTargets, n
  <2>10. InjectedClockRuns'
    BY <2>7 DEF InjectedClockRuns
  <2> QED BY <2>8, <2>9, <2>10 DEF PllFits
<1>c. CASE SlideEnds
  <2>1. /\ slide.at = "wait" /\ slide' = NoSlide /\ injected' = slide.hz /\ clash' = clash
        /\ pll' = [pll EXCEPT !.slow = FALSE, !.ramp = FALSE]
    BY <1>c DEF SlideEnds, Release
  <2>2. /\ pll'.c = pll.c /\ pll'.slow = FALSE /\ pll'.ramp = FALSE
        /\ pll' = [c |-> pll'.c, slow |-> pll'.slow, ramp |-> pll'.ramp]
    BY <1>0, <2>1 DEF PllTyped
  <2>3. /\ slide'.at = "idle"
        /\ slide' = [at |-> slide'.at, coeff |-> slide'.coeff, divn |-> slide'.divn,
                     hz |-> slide'.hz]
    BY <2>1 DEF NoSlide
  <2>4. PllTyped'
    BY <1>0, <2>2, <2>3 DEF PllTyped
  <2>5. SlideTargets'
    BY <2>3 DEF SlideTargets
  <2>6. InjectedClockRuns'
    <3>1. ASSUME ~clash'
          PROVE  GpuFreq(pll'.c) = injected'
      <4>1. /\ slide.hz \in Nat /\ UseGm20b(slide.hz)
            /\ slide.coeff \in PcvDividers(PcvHz(slide.hz))
            /\ slide.divn = NewDivn(slide.coeff, slide.hz)
            /\ pll.c = [slide.coeff EXCEPT !.n = slide.divn]
        BY <1>0, <2>1, <3>1 DEF SlideTargets
      <4>2. GpuFreq(pll.c) = slide.hz
        BY SMT, <4>1, SlideHits
      <4> QED BY <2>1, <2>2, <4>2
    <3> QED BY <2>2, <3>1 DEF InjectedClockRuns
  <2> QED BY <2>4, <2>5, <2>6 DEF PllFits
<1> QED BY <1>a, <1>b, <1>c

\* PCV's write is what the clash flag remembers.
LEMMA PcvStep ==
    ASSUME PllFits, PcvOverwrites
    PROVE  PllFits'
<1>0. PllTyped /\ SlideTargets /\ InjectedClockRuns
  BY DEF PllFits
<1>1. PICK f \in GpuClocks : \E d \in PcvDividers(f) : pll' = [pll EXCEPT !.c = d]
  BY Zenon DEF PcvOverwrites
<1>2. PICK d \in PcvDividers(f) : pll' = [pll EXCEPT !.c = d]
  BY Zenon, <1>1
<1>3. clash' = TRUE /\ slide' = slide
  BY Zenon DEF PcvOverwrites
<1>4. d.n \in Int /\ 33 <= d.n /\ d.n <= 70
  BY SMT, SocAssumption, DividersFit
<1>5. /\ pll'.c = d /\ pll'.slow = pll.slow /\ pll'.ramp = pll.ramp
      /\ pll' = [c |-> pll'.c, slow |-> pll'.slow, ramp |-> pll'.ramp]
  BY SMT, <1>0, <1>2 DEF PllTyped
<1>6. PllTyped'
  BY SMT, <1>0, <1>3, <1>4, <1>5 DEF PllTyped
<1>7. SlideTargets'
  BY SMT, <1>0, <1>3, <1>5 DEF SlideTargets
<1>8. InjectedClockRuns'
  BY SMT, <1>0, <1>3, <1>5 DEF InjectedClockRuns
<1> QED BY <1>6, <1>7, <1>8 DEF PllFits

---------------------------------------------------------------------------
(* The CPU's tuning, and the whole. *)

TuneFits ==
    /\ cpu = [clock |-> cpu.clock, tuned |-> cpu.tuned] /\ cpu.clock \in CpuClocks
    /\ tune = [now |-> tune.now, low |-> tune.low, high |-> tune.high, table |-> tune.table]
    /\ TuningFollowsClock

\* Right after SetDfllTunings the tuning is that of the clock's side.
LEMMA TuningsFit ==
    ASSUME NEW low, NEW high, NEW clock \in CpuClocks, NEW tb, NEW old, low # 0
    PROVE  SetDfllTunings(low, high, clock, tb, old)
             = IF clock >= CalculateTbreak(tb) /\ high # 0
               THEN <<"high", high>> ELSE <<"low", low>>
<1>1. clock \in Int /\ CalculateTbreak(tb) \in Int
  BY SMT DEF CpuClocks, CalculateTbreak
<1>2. clock < CalculateTbreak(tb) <=> ~(clock >= CalculateTbreak(tb))
  BY SMT, <1>1
<1> QED BY SMT, <1>2 DEF SetDfllTunings

\* An update of the CPU's record.
LEMMA CpuUpdated ==
    ASSUME NEW r, NEW a, NEW b, r = [clock |-> a, tuned |-> b], NEW v
    PROVE  [r EXCEPT !.tuned = v] = [clock |-> a, tuned |-> v]
OBVIOUS

\* The clock set or the tuning refreshed, by the sysmodule or past it.
LEMMA TuneStep ==
    ASSUME TuneFits, TuneNext
    PROVE  TuneFits'
<1> DEFINE Now(f) == SetDfllTunings(tune.low, tune.high, f, tune.table, tune.now)
<1>1. /\ cpu.clock \in CpuClocks /\ cpu = [clock |-> cpu.clock, tuned |-> cpu.tuned]
      /\ tune = [now |-> tune.now, low |-> tune.low, high |-> tune.high, table |-> tune.table]
  BY Zenon DEF TuneFits
<1>2. ASSUME NEW f \in CpuClocks, cpu' = [clock |-> f, tuned |-> TRUE],
             tune' = [tune EXCEPT !.now = Now(f)]
      PROVE  TuneFits'
  <2> DEFINE now == Now(f)
  <2>1. tune' = [now |-> now, low |-> tune.low, high |-> tune.high, table |-> tune.table]
    <3>1. tune' = [tune EXCEPT !.now = now]
      BY Zenon, <1>2
    <3> HIDE DEF now
    <3> QED BY SMT, <1>1, <3>1
  <2>2. tune.low # 0 => now = IF f >= CalculateTbreak(tune.table) /\ tune.high # 0
                              THEN <<"high", tune.high>> ELSE <<"low", tune.low>>
    BY Zenon, TuningsFit
  <2> HIDE DEF now
  <2>3. /\ tune'.now = now /\ tune'.low = tune.low /\ tune'.high = tune.high
        /\ tune'.table = tune.table
        /\ tune' = [now |-> tune'.now, low |-> tune'.low, high |-> tune'.high,
                    table |-> tune'.table]
    BY SMT, <2>1
  <2>4. /\ cpu'.clock = f /\ cpu'.tuned = TRUE
        /\ cpu' = [clock |-> cpu'.clock, tuned |-> cpu'.tuned]
    BY SMT, <1>2
  <2>5. TuningFollowsClock'
    BY SMT, <2>2, <2>3, <2>4 DEF TuningFollowsClock
  <2> QED BY Zenon, <1>2, <2>3, <2>4, <2>5 DEF TuneFits
<1>3. ASSUME NEW f \in CpuClocks, cpu' = [clock |-> f, tuned |-> FALSE],
             tune' = [now |-> tune'.now, low |-> tune'.low, high |-> tune'.high,
                      table |-> tune'.table]
      PROVE  TuneFits'
  <2>1. /\ cpu'.clock = f /\ cpu'.tuned = FALSE
        /\ cpu' = [clock |-> cpu'.clock, tuned |-> cpu'.tuned]
    BY SMT, <1>3
  <2>2. TuningFollowsClock'
    BY SMT, <2>1 DEF TuningFollowsClock
  <2> QED BY Zenon, <1>3, <2>1, <2>2 DEF TuneFits
<1>4. CASE SetCpu
  BY Zenon, <1>2, <1>4 DEF SetCpu
<1>5. CASE OsSetsCpu
  <2>1. tune' = tune
    BY Zenon, <1>5 DEF OsSetsCpu
  <2>2. PICK f \in CpuClocks : cpu' = [clock |-> f, tuned |-> FALSE]
    BY Zenon, <1>5 DEF OsSetsCpu
  <2> QED BY Zenon, <1>1, <1>3, <2>1, <2>2
<1>6. CASE SetLevels
  <2>1. PICK l \in Levels, h \in Levels, t \in {1, 3} :
           tune' = [now |-> tune.now, low |-> l, high |-> h, table |-> t]
    BY Zenon, <1>6 DEF SetLevels
  <2>2. cpu' = [clock |-> cpu.clock, tuned |-> FALSE]
    <3>1. cpu' = [cpu EXCEPT !.tuned = FALSE]
      BY Zenon, <1>6 DEF SetLevels
    <3> QED BY Zenon, <1>1, <3>1, CpuUpdated
  <2>3. tune' = [now |-> tune'.now, low |-> tune'.low, high |-> tune'.high,
                 table |-> tune'.table]
    BY SMT, <2>1
  <2> QED BY Zenon, <1>1, <1>3, <2>2, <2>3
<1>7. CASE HandleCpuUv
  <2>1. tune' = [tune EXCEPT !.now = Now(cpu.clock)]
    BY Zenon, <1>7 DEF HandleCpuUv
  <2>2. cpu' = [clock |-> cpu.clock, tuned |-> TRUE]
    <3>1. cpu' = [cpu EXCEPT !.tuned = TRUE]
      BY Zenon, <1>7 DEF HandleCpuUv
    <3> QED BY Zenon, <1>1, <3>1, CpuUpdated
  <2> QED BY Zenon, <1>1, <1>2, <2>1, <2>2
<1> QED BY Zenon, <1>4, <1>5, <1>6, <1>7 DEF TuneNext

\* The inductive invariant.
SocIInv ==
    /\ PllFits
    /\ RingFits /\ LoadFits
    /\ IdleFits
    /\ EmcFits
    /\ TuneFits

\* It holds at first.
LEMMA SocIInvInit == SocInit => SocIInv
<1> SUFFICES ASSUME SocInit PROVE SocIInv
  OBVIOUS
<1>1. PllFits
  <2>1. PllTyped
    BY SMT DEF SocInit, PllTyped, NoSlide
  <2>2. SlideTargets
    BY SMT DEF SocInit, SlideTargets, NoSlide
  <2>3. InjectedClockRuns
    BY SMT DEF SocInit, InjectedClockRuns
  <2> QED BY <2>1, <2>2, <2>3 DEF PllFits
<1>2. RingFits /\ LoadFits
  <2>1. Samples \in Nat \ {0} /\ 0 \in Tenths
    BY SocAssumption, TenthsAre
  <2>2. ring = [array |-> [i \in 1..Samples |-> 0], count |-> 0, load |-> 0, last |-> <<>>]
    BY SMT DEF SocInit
  <2>3. RingFits
    BY <2>1, <2>2 DEF RingFits
  <2>4. LoadFits
    BY <2>1, <2>2 DEF LoadFits
  <2> QED BY <2>3, <2>4
<1>3. IdleFits
  BY SMT DEF SocInit, IdleFits
<1>4. EmcFits
  BY SMT DEF SocInit, EmcFits
<1>5. TuneFits
  <2>0. cpu.clock = 1020000
    BY SMT DEF SocInit
  <2>1. /\ cpu = [clock |-> cpu.clock, tuned |-> cpu.tuned] /\ cpu.tuned = FALSE
        /\ tune = [now |-> tune.now, low |-> tune.low, high |-> tune.high, table |-> tune.table]
    BY SMT DEF SocInit
  <2>2. cpu.clock \in CpuClocks
    BY SMT, <2>0 DEF CpuClocks
  <2>3. TuningFollowsClock
    BY SMT, <2>1 DEF TuningFollowsClock
  <2> QED BY Zenon, <2>1, <2>2, <2>3 DEF TuneFits
<1> QED BY <1>1, <1>2, <1>3, <1>4, <1>5 DEF SocIInv

\* What the parts read is unchanged by the others' steps.
LEMMA PllKept == ASSUME PllFits, UNCHANGED pllVars PROVE PllFits'
<1>1. pll' = pll /\ slide' = slide /\ injected' = injected /\ clash' = clash
  BY DEF pllVars
<1>2. PllTyped'
  BY Zenon, <1>1 DEF PllFits, PllTyped
<1>3. SlideTargets'
  BY Zenon, <1>1 DEF PllFits, SlideTargets
<1>4. InjectedClockRuns'
  BY Zenon, <1>1 DEF PllFits, InjectedClockRuns
<1> QED BY Zenon, <1>2, <1>3, <1>4 DEF PllFits

\* The ring fits while it is not written.
LEMMA RingKept == ASSUME RingFits, LoadFits, UNCHANGED ring PROVE RingFits' /\ LoadFits'
<1>1. RingFits'
  BY Zenon DEF RingFits
<1>2. LoadFits'
  BY Zenon DEF LoadFits
<1> QED BY <1>1, <1>2

\* The idle ticks fit while they are not written.
LEMMA IdleKept == ASSUME IdleFits, UNCHANGED idle PROVE IdleFits'
BY Zenon DEF IdleFits

\* The memory's loads fit while they are not written.
LEMMA EmcKept == ASSUME EmcFits, UNCHANGED emc PROVE EmcFits'
BY Zenon DEF EmcFits

\* The tuning fits while neither clock nor tuning is written.
LEMMA TuneKept == ASSUME TuneFits, UNCHANGED tuneVars PROVE TuneFits'
<1>1. cpu' = cpu /\ tune' = tune
  BY DEF tuneVars
<1>2. TuningFollowsClock'
  BY Zenon, <1>1 DEF TuneFits, TuningFollowsClock
<1> QED BY Zenon, <1>1, <1>2 DEF TuneFits

\* Every step keeps it.
LEMMA SocIInvNext == ASSUME SocIInv, [SocNext]_socVars PROVE SocIInv'
<1>0. PllFits /\ RingFits /\ LoadFits /\ IdleFits /\ EmcFits /\ TuneFits
  BY DEF SocIInv
<1>1. CASE SlideNext
  <2>1. UNCHANGED ring /\ UNCHANGED idle /\ UNCHANGED emc /\ UNCHANGED tuneVars
    BY Zenon, <1>1 DEF SlideNext, SetGpu, SlideSetup, SlideCoeff, SlideRamp, SlideEnds,
                       PcvOverwrites, loadVars, tuneVars
  <2>2. PllFits'
    BY Zenon, <1>0, <1>1, SetGpuStep, SlideStep, PcvStep DEF SlideNext
  <2> QED BY Zenon, <1>0, <2>1, <2>2, RingKept, IdleKept, EmcKept, TuneKept DEF SocIInv
<1>2. CASE SampleGpu
  <2>1. UNCHANGED idle /\ UNCHANGED emc /\ UNCHANGED pllVars /\ UNCHANGED tuneVars
    BY Zenon, <1>2 DEF SampleGpu
  <2> QED BY Zenon, <1>0, <1>2, <2>1, RingStep, PllKept, IdleKept, EmcKept, TuneKept DEF SocIInv
<1>3. CASE CheckCore
  <2>1. UNCHANGED ring /\ UNCHANGED emc /\ UNCHANGED pllVars /\ UNCHANGED tuneVars
    BY Zenon, <1>3 DEF CheckCore
  <2>2. PICK c \in 0..2, t \in IdleTicks : idle' = [idle EXCEPT ![c] = t]
    BY Zenon, <1>3 DEF CheckCore
  <2>3. IdleFits'
    BY <1>0, <2>2, SocAssumption DEF IdleFits
  <2> QED BY Zenon, <1>0, <2>1, <2>3, PllKept, RingKept, EmcKept, TuneKept DEF SocIInv
<1>4. CASE UpdateFreqs
  <2>1. UNCHANGED ring /\ UNCHANGED idle /\ UNCHANGED pllVars /\ UNCHANGED tuneVars
    BY Zenon, <1>4 DEF UpdateFreqs
  <2> QED BY Zenon, <1>0, <1>4, <2>1, EmcStep, PllKept, RingKept, IdleKept, TuneKept DEF SocIInv
<1>5. CASE TuneNext
  <2>1. UNCHANGED ring /\ UNCHANGED idle /\ UNCHANGED emc /\ UNCHANGED pllVars
    BY Zenon, <1>5 DEF TuneNext, SetCpu, OsSetsCpu, SetLevels, HandleCpuUv, loadVars
  <2> QED BY Zenon, <1>0, <1>5, <2>1, TuneStep, PllKept, RingKept, IdleKept, EmcKept DEF SocIInv
<1>6. CASE UNCHANGED socVars
  <2>1. UNCHANGED ring /\ UNCHANGED idle /\ UNCHANGED emc /\ UNCHANGED pllVars
        /\ UNCHANGED tuneVars
    BY <1>6 DEF socVars, pllVars, tuneVars
  <2> QED BY Zenon, <1>0, <2>1, PllKept, RingKept, IdleKept, EmcKept, TuneKept DEF SocIInv
<1> QED BY Zenon, <1>1, <1>2, <1>3, <1>4, <1>5, <1>6 DEF SocNext, LoadNext

\* It implies what the run checks.
LEMMA SocIInvImplies == SocIInv => SocTypeOK /\ SocInv
<1> SUFFICES ASSUME SocIInv PROVE SocTypeOK /\ SocInv
  OBVIOUS
<1>1. PllTyped /\ InjectedClockRuns /\ RingFits /\ LoadFits /\ IdleFits /\ EmcFits /\ TuneFits
  BY DEF SocIInv, PllFits
<1>2. SocTypeOK
  <2>1. pll.c.n \in 1..111 /\ pll.slow \in BOOLEAN
        /\ slide.at \in {"idle", "setup", "coeff", "ramp", "wait"}
    BY <1>1 DEF PllTyped
  <2>2. ring.load \in 0..1000
    BY Zenon, <1>1 DEF RingFits, Tenths
  <2>3. cpu.clock \in CpuClocks
    BY Zenon, <1>1 DEF TuneFits
  <2> QED BY Zenon, <2>1, <2>2, <2>3 DEF SocTypeOK
<1>3. LoadsInRange
  <2>1. Len(ring.last) = Samples => ring.count >= Samples
    BY <1>1, SocAssumption DEF RingFits
  <2>2. GetMaxCpuLoad(idle) \in Tenths
    BY <1>1, CpuLoadBounded
  <2> QED BY Zenon, <1>1, <2>1, <2>2 DEF LoadsInRange, LoadFits, Tenths
<1>4. BandwidthAddsUp
  <2>1. emc.all \in 0..1000
    <3>1. emc.all \in Tenths
      BY <1>1, TenthsAre DEF EmcFits
    <3> QED BY Zenon, <3>1 DEF Tenths
  <2>2. emc.bwGpu >= 0
    BY <1>1 DEF EmcFits
  <2> QED BY Zenon, <1>1, <2>1, <2>2 DEF BandwidthAddsUp, EmcFits
<1>5. TuningFollowsClock
  BY Zenon, <1>1 DEF TuneFits
<1> QED BY Zenon, <1>1, <1>2, <1>3, <1>4, <1>5 DEF SocInv

\* The sysmodule stays in step with PCV whatever clocks, samples, ticks and
\* levels it meets: the PLL runs at the clock reported as injected, the loads
\* lie between their samples, the bandwidths add up, the tuning fits the clock.
THEOREM SocInvHolds == SocSpec => [](SocTypeOK /\ SocInv)
<1>1. SocInit => SocIInv
  BY SocIInvInit
<1>2. SocIInv /\ [SocNext]_socVars => SocIInv'
  BY SocIInvNext
<1>3. SocIInv => SocTypeOK /\ SocInv
  BY SocIInvImplies
<1> QED BY <1>1, <1>2, <1>3, PTL DEF SocSpec

---------------------------------------------------------------------------
(* The chips behind I2C. *)

\* What the chips carry is what was asked.
Carried ==
    /\ asked.charge # 0 => charger = Convert_mA_Raw(asked.charge)
    /\ ldo0 = 192 + MvOutToMultiplier(I2c_Display, asked.display)

\* The settings, the counters and the two registers are in their ranges.
RailsTyped ==
    /\ asked \in [charge : Int, display : Int]
    /\ asked.charge \in ChargeCurrents \cup {0}
    /\ asked.display \in DisplayMvs \cup {1200}
    /\ tick \in 0..10 /\ since \in 0..11
    /\ charger \in 0..255 /\ ldo0 \in 192..255

\* Since the last change or failure the counter has come round.
RailsFit == RailsTyped /\ (since > tick => Carried)

\* What the decimals of a temperature add, in thousandths of a degree, and what
\* lies within a degree of a temperature.
Decimals == 0..937

Near(t, h) == t - (h * 625) \div 10 \in OneDegree

TmpFits ==
    /\ hot \in Boards
    /\ chip \in [at : {"idle", "pcbWhole", "pcbDec", "socWhole", "socDec"},
                 pcb : Int, soc : Int, of : Int]
    /\ chip.of \in Temperatures
    /\ \E d \in Decimals : chip.soc = Whole(chip.of) + d
    /\ chip.at = "socDec" => chip.soc = Whole(chip.of)

GaugeFits ==
    /\ gauge \in [at : {"idle", "second"}, n : 0..MaxUpdates, amp : Int,
                  now : [amp : Int, volt : Int], avg : [amp : Int, volt : Int]]
    /\ gauge.now.amp = gauge.now.volt
    /\ gauge.avg.amp = gauge.avg.volt
    /\ gauge.at = "second" => gauge.amp = gauge.n

Converter == [mask : Nat \ {0}, step : Nat, min : Nat, max : Nat, por : Nat]

\* A rail that is still being read has given its value at power-on so far.
VoltFits ==
    /\ volt \in [soc : {"Mariko", "Erista"}, of : Voltages, reg : RailRegisters,
                 reads : Seq(Int), out : Int]
    /\ volt.out >= -1 /\ Len(volt.reads) <= 5
    /\ Serviced(volt.soc, volt.of) => volt.reads = <<>>
    /\ volt.out = -1 =>
         /\ Len(volt.reads) <= 4
         /\ \A i \in 1..Len(volt.reads) : volt.reads[i] = DomainOf(volt.soc, volt.of).por
    /\ VoltageShownIsTheRails

ChipsIInv == RailsFit /\ TmpFits /\ GaugeFits /\ VoltFits

---------------------------------------------------------------------------

\* The multiplier of a display voltage the settings allow, and the step it loses.
LEMMA DisplayStep ==
    ASSUME NEW mv \in Int, 800 <= mv, mv <= 1325
    PROVE  /\ MvOutToMultiplier(I2c_Display, mv) \in 0..21
           /\ 800000 + 25000 * MvOutToMultiplier(I2c_Display, mv) <= mv * 1000
           /\ mv * 1000 < 825000 + 25000 * MvOutToMultiplier(I2c_Display, mv)
<1>1. PICK u \in Int : u = mv * 1000
  BY SMT
<1>2. u >= 800000 /\ u <= 1325000
  BY SMT, <1>1
<1>3. MvOutToMultiplier(I2c_Display, mv) = (u - 800000) \div 25000
  BY SMT, <1>1, <1>2 DEF MvOutToMultiplier, I2c_Display
<1>4. (u - 800000) \div 25000 \in 0..21
  BY SMT, <1>2
<1>5. PICK n \in 0..21 : n = (u - 800000) \div 25000
  BY SMT, <1>4
<1>6. 800000 + 25000 * n <= u /\ u < 825000 + 25000 * n
  BY SMT, <1>2, <1>5
<1>7. MvOutToMultiplier(I2c_Display, mv) = n
  BY SMT, <1>3, <1>5
<1> QED BY SMT, <1>1, <1>6, <1>7

\* The register of the display rail keeps its mode bits.
LEMMA ModeBitsKept ==
    ASSUME NEW r \in 192..255, NEW mv \in Int, 800 <= mv, mv <= 1325
    PROVE  SetMvOut(I2c_Display, r, mv) = 192 + MvOutToMultiplier(I2c_Display, mv)
<1>1. PICK m \in 0..21 : m = MvOutToMultiplier(I2c_Display, mv)
  BY SMT, DisplayStep
<1>2. SetMvOut(I2c_Display, r, mv) = (r - (r % 64)) + (m % 64)
  BY SMT, <1>1 DEF SetMvOut, I2c_Display
<1>3. r - (r % 64) = 192 /\ m % 64 = m
  BY SMT
<1> QED BY SMT, <1>1, <1>2, <1>3

\* The charge current a register stands for, to a step of the one asked.
LEMMA ChargeStep ==
    ASSUME NEW c \in Int, 1024 <= c, c <= 3072
    PROVE  /\ Convert_mA_Raw(c) \in 0..255
           /\ Convert_Raw_mA(Convert_mA_Raw(c)) - c \in -100..64
<1>1. PICK n \in Int : n = ((c - (c % 100)) - 448) \div 64
  BY SMT
<1>2. n \in 8..41
  BY SMT, <1>1
<1>3. Convert_mA_Raw(c) = ((n * 4) % 256) + 0
  BY SMT, <1>1 DEF Convert_mA_Raw, MA_RANGE_MAX, MA_RANGE_MIN
<1>4. Convert_mA_Raw(c) = n * 4
  BY SMT, <1>2, <1>3
<1>5. (n * 4) \div 4 = n /\ (n * 4) % 2 = 0
  BY SMT, <1>2
<1>6. Convert_Raw_mA(n * 4) = n * 64 + 512
  BY SMT, <1>2, <1>5 DEF Convert_Raw_mA, MA_RANGE_MIN
<1>7. n * 64 + 512 - c \in -100..64
  BY SMT, <1>1
<1> QED BY SMT, <1>2, <1>4, <1>6, <1>7

\* What the settings allow.
LEMMA AskedAllowed ==
    ASSUME RailsTyped
    PROVE  /\ asked.display \in Nat /\ ValidDisplay(asked.display)
           /\ asked.charge \in Nat /\ ValidCharge(asked.charge)
<1>1. asked.display \in DisplayMvs \cup {1200} /\ asked.charge \in ChargeCurrents \cup {0}
  BY DEF RailsTyped
<1>2. 1200 \in Nat /\ ValidDisplay(1200) /\ ValidCharge(0)
  BY SMT DEF ValidDisplay, ValidCharge
<1> QED BY <1>1, <1>2, ChipsAssumption

\* A reading of the thermometer is within a degree of where its degrees were read.
LEMMA DecimalSmall ==
    ASSUME NEW h \in Temperatures
    PROVE  /\ Decimal(h) \in Decimals /\ Whole(h) \in Int
           /\ \A d \in Decimals : Near(Whole(h) + d, h)
<1>1. PICK q \in Int, r \in 0..15 : h = 16 * q + r /\ q = h \div 16 /\ r = h % 16
  BY SMT DEF Temperatures
<1>2. Decimal(h) = (r * 625) \div 10 /\ Whole(h) = q * 1000
  BY SMT, <1>1 DEF Decimal, Whole
<1>3. PICK e \in Int : e = (r * 625) \div 10
  BY SMT
<1>4. 0 <= e /\ e <= 937
  BY SMT, <1>3
<1>5. h * 625 = 10000 * q + 625 * r
  BY SMT, <1>1
<1>6. PICK t \in Int : t = (h * 625) \div 10
  BY SMT, <1>1
<1>7. t = 1000 * q + e
  BY SMT, <1>3, <1>5, <1>6
<1>8. ASSUME NEW d \in Decimals
      PROVE  Near(Whole(h) + d, h)
  <2>1. PICK w \in Int : w = Whole(h) /\ w = q * 1000
    BY SMT, <1>2
  <2>2. d \in Int /\ 0 <= d /\ d <= 937
    BY SMT, <1>8 DEF Decimals
  <2>3. -1000 <= (w + d) - t /\ (w + d) - t <= 1000
    BY SMT, <1>4, <1>7, <2>1, <2>2
  <2>4. PICK x \in Int : x = (w + d) - t
    BY SMT, <2>2
  <2>5. (Whole(h) + d) - (h * 625) \div 10 = x
    BY Zenon, <1>6, <2>1, <2>4
  <2>6. x \in OneDegree
    BY SMT, <2>3, <2>4 DEF OneDegree
  <2> QED BY Zenon, <2>5, <2>6 DEF Near
<1>9. Decimal(h) \in Decimals /\ Whole(h) \in Int
  BY SMT, <1>2, <1>3, <1>4 DEF Decimals
<1> QED BY Zenon, <1>8, <1>9

\* The initial state.
LEMMA ChipsIInvInit == ChipsInit => ChipsIInv
<1> SUFFICES ASSUME ChipsInit PROVE ChipsIInv
  OBVIOUS
<1>1. RailsFit
  BY DEF ChipsInit, RailsFit, RailsTyped
<1>2. TmpFits
  <2>1. chip = [at |-> "idle", pcb |-> 0, soc |-> 0, of |-> 0] /\ hot \in Boards
    BY DEF ChipsInit
  <2>2. 0 \in Temperatures /\ 0 \in Decimals /\ Whole(0) = 0
    BY SMT DEF Temperatures, Decimals, Whole
  <2>3. chip.soc = Whole(chip.of) + 0
    BY <2>1, <2>2
  <2> QED BY <2>1, <2>2, <2>3 DEF TmpFits
<1>3. GaugeFits
  BY ChipsAssumption DEF ChipsInit, GaugeFits
<1>4. VoltFits
  <2>1. /\ volt \in [soc : {"Mariko", "Erista"}, of : Voltages, reg : RailRegisters,
                     reads : {<<>>}, out : {-1}]
    BY DEF ChipsInit
  <2>2. volt.reads = <<>> /\ volt.out = -1
    BY <2>1
  <2>3. volt \in [soc : {"Mariko", "Erista"}, of : Voltages, reg : RailRegisters,
                  reads : Seq(Int), out : Int]
    <3>1. <<>> \in Seq(Int) /\ -1 \in Int
      OBVIOUS
    <3>2. {<<>>} \subseteq Seq(Int) /\ {-1} \subseteq Int
      BY <3>1
    <3> QED BY <2>1, <3>2
  <2>4. VoltageShownIsTheRails
    BY <2>2 DEF VoltageShownIsTheRails
  <2> QED BY <2>2, <2>3, <2>4 DEF VoltFits
<1> QED BY <1>1, <1>2, <1>3, <1>4 DEF ChipsIInv

\* A step of another chip does not disturb the settings' way to theirs.
LEMMA RailsKept ==
    ASSUME RailsFit, UNCHANGED <<asked, tick, since, charger, ldo0>>
    PROVE  RailsFit'
BY DEF RailsFit, RailsTyped, Carried

\* Nor the thermometer.
LEMMA TmpKept ==
    ASSUME TmpFits, UNCHANGED <<hot, chip>>
    PROVE  TmpFits'
BY DEF TmpFits

\* Nor the fuel gauge.
LEMMA GaugeKept ==
    ASSUME GaugeFits, UNCHANGED gauge
    PROVE  GaugeFits'
BY DEF GaugeFits

\* Nor a rail being read.
LEMMA VoltKept ==
    ASSUME VoltFits, UNCHANGED volt
    PROVE  VoltFits'
BY DEF VoltFits, VoltageShownIsTheRails

\* Writing both chips carries the settings.
LEMMA WriteCarries ==
    ASSUME RailsTyped
    PROVE  /\ SetMvOut(I2c_Display, ldo0, asked.display)
                = 192 + MvOutToMultiplier(I2c_Display, asked.display)
           /\ SetMvOut(I2c_Display, ldo0, asked.display) \in 192..255
           /\ asked.charge # 0 => Convert_mA_Raw(asked.charge) \in 0..255
<1>1. PICK mv \in Int, c \in Int : mv = asked.display /\ c = asked.charge
  BY AskedAllowed
<1>2. 800 <= mv /\ mv <= 1325
  BY SMT, <1>1, AskedAllowed DEF ValidDisplay
<1>3. c # 0 => 1024 <= c /\ c <= 3072
  BY SMT, <1>1, AskedAllowed DEF ValidCharge
<1>4. PICK r \in 192..255 : r = ldo0
  BY DEF RailsTyped
<1>5. SetMvOut(I2c_Display, r, mv) = 192 + MvOutToMultiplier(I2c_Display, mv)
  BY SMT, <1>2, ModeBitsKept
<1>6. 192 + MvOutToMultiplier(I2c_Display, mv) \in 192..255
  <2>1. MvOutToMultiplier(I2c_Display, mv) \in 0..21
    BY SMT, <1>2, DisplayStep
  <2> QED BY <2>1
<1>7. c # 0 => Convert_mA_Raw(c) \in 0..255
  BY SMT, <1>3, ChargeStep
<1> QED BY Zenon, <1>1, <1>4, <1>5, <1>6, <1>7

\* The settings and the tick.
LEMMA RailsStep ==
    ASSUME RailsFit, RailNext
    PROVE  RailsFit'
<1>0. RailsTyped
  BY DEF RailsFit
<1>1. CASE ChangeSetting
  <2>1. asked' \in [charge : ChargeCurrents, display : DisplayMvs] /\ since' = 0
        /\ UNCHANGED <<tick, charger, ldo0>>
    BY Zenon, <1>1 DEF ChangeSetting
  <2>2. asked'.charge \in ChargeCurrents /\ asked'.display \in DisplayMvs
    BY <2>1
  <2>3. asked' \in [charge : Int, display : Int]
    BY <2>1, <2>2, ChipsAssumption
  <2> QED BY <1>0, <2>1, <2>2, <2>3 DEF RailsFit, RailsTyped
<1>2. CASE HandleMiscFeatures
  <2>0. tick \in 0..10 /\ since \in 0..11
    BY <1>0 DEF RailsTyped
  <2>1. UNCHANGED asked /\ tick' \in 0..10 /\ since' \in 0..11
    BY <1>2, <2>0 DEF HandleMiscFeatures, NextTick
  <2>2. CASE tick' = 0
    <3>1. /\ charger' = IF asked.charge # 0 THEN Convert_mA_Raw(asked.charge) ELSE charger
          /\ ldo0' = SetMvOut(I2c_Display, ldo0, asked.display)
      BY Zenon, <1>2, <2>2 DEF HandleMiscFeatures
    <3>2. charger' \in 0..255 /\ ldo0' \in 192..255
      BY <1>0, <3>1, WriteCarries DEF RailsTyped
    <3>3. Carried'
      BY <1>0, <2>1, <3>1, WriteCarries DEF Carried
    <3> QED BY <1>0, <2>1, <3>2, <3>3 DEF RailsFit, RailsTyped
  <2>3. CASE tick' # 0
    <3>1. UNCHANGED <<charger, ldo0>>
      BY Zenon, <1>2, <2>3 DEF HandleMiscFeatures
    <3>2. since' > tick' => since > tick
      BY <1>2, <2>0, <2>3 DEF HandleMiscFeatures, NextTick
    <3> QED BY <1>0, <2>1, <3>1, <3>2 DEF RailsFit, RailsTyped, Carried
  <2> QED BY <2>2, <2>3
<1>3. CASE TransferFails
  <2>1. tick' = 0 /\ since' = 0 /\ UNCHANGED asked
    BY Zenon, <1>3 DEF TransferFails
  <2>2. charger' \in 0..255 /\ ldo0' \in 192..255
    <3>1. charger \in 0..255 /\ ldo0 \in 192..255
      BY <1>0 DEF RailsTyped
    <3> QED BY Zenon, <1>0, <1>3, <3>1, WriteCarries DEF TransferFails
  <2> QED BY <1>0, <2>1, <2>2 DEF RailsFit, RailsTyped
<1> QED BY <1>1, <1>2, <1>3 DEF RailNext

\* A step of the thermometer: what a channel shows is whole degrees and perhaps
\* their decimals.
LEMMA TmpStep ==
    ASSUME TmpFits, TmpNext
    PROVE  TmpFits'
<1>0. /\ hot \in Boards /\ hot \in Temperatures
      /\ chip \in [at : {"idle", "pcbWhole", "pcbDec", "socWhole", "socDec"},
                   pcb : Int, soc : Int, of : Int]
      /\ chip.of \in Temperatures
      /\ \E d \in Decimals : chip.soc = Whole(chip.of) + d
      /\ chip.at = "socDec" => chip.soc = Whole(chip.of)
  BY ChipsAssumption DEF TmpFits
<1>9. Temperatures \subseteq Int /\ Decimals \subseteq Int /\ 0 \in Decimals
  BY SMT DEF Temperatures, Decimals
<1>1. CASE Drift
  BY <1>0, <1>1 DEF Drift, TmpFits
<1>2. CASE StartTmp451
  BY <1>0, <1>2 DEF StartTmp451, TmpFits
<1>3. CASE ReadWhole
  <2>1. hot' = hot /\ chip' = StoreWhole(chip) /\ Whole(hot) \in Int
    BY <1>0, <1>3, DecimalSmall DEF ReadWhole
  <2>2. CASE chip.at = "pcbWhole"
    <3>1. chip' = [chip EXCEPT !.pcb = Whole(hot), !.at = "pcbDec"]
      BY <2>1, <2>2 DEF StoreWhole
    <3> QED BY <1>0, <2>1, <3>1 DEF TmpFits
  <2>3. CASE chip.at # "pcbWhole"
    <3>1. chip' = [chip EXCEPT !.soc = Whole(hot), !.of = hot, !.at = "socDec"]
      BY <2>1, <2>3 DEF StoreWhole
    <3>2. hot \in Int
      BY <1>0, <1>9
    <3>3. chip' = [at |-> "socDec", pcb |-> chip.pcb, soc |-> Whole(hot), of |-> hot]
      BY <1>0, <3>1
    <3>4. chip.pcb \in Int
      BY <1>0
    <3>5. chip'.soc = Whole(chip'.of) /\ chip'.of = hot
      BY <3>3
    <3>6. chip'.soc = Whole(chip'.of) + 0
      BY <2>1, <3>5
    <3>7. chip' \in [at : {"idle", "pcbWhole", "pcbDec", "socWhole", "socDec"},
                     pcb : Int, soc : Int, of : Int]
      BY <2>1, <3>2, <3>3, <3>4
    <3> QED BY Zenon, <1>0, <1>9, <2>1, <3>5, <3>6, <3>7 DEF TmpFits
  <2> QED BY <2>2, <2>3
<1>4. CASE ReadDecimal
  <2>1. hot' = hot /\ Decimal(hot) \in Decimals /\ Decimal(hot) \in Int
    BY <1>0, <1>9, <1>4, DecimalSmall DEF ReadDecimal
  <2>2. CASE chip.at = "pcbDec"
    <3>1. chip' = [chip EXCEPT !.pcb = @ + Decimal(hot), !.at = "socWhole"]
      BY Zenon, <1>4, <2>2 DEF ReadDecimal
    <3>2. chip' = [at |-> "socWhole", pcb |-> chip.pcb + Decimal(hot), soc |-> chip.soc,
                   of |-> chip.of]
      BY <1>0, <3>1
    <3>3. chip.pcb + Decimal(hot) \in Int /\ chip.soc \in Int /\ chip.of \in Int
      BY <1>0, <2>1
    <3>4. chip' \in [at : {"idle", "pcbWhole", "pcbDec", "socWhole", "socDec"},
                     pcb : Int, soc : Int, of : Int]
          /\ chip'.soc = chip.soc /\ chip'.of = chip.of /\ chip'.at = "socWhole"
      BY <3>2, <3>3
    <3> QED BY <1>0, <2>1, <3>4 DEF TmpFits
  <2>3. CASE chip.at = "socDec"
    <3>1. chip' = [chip EXCEPT !.soc = @ + Decimal(hot), !.at = "idle"]
      BY <1>4, <2>3 DEF ReadDecimal
    <3>2. chip' = [at |-> "idle", pcb |-> chip.pcb, soc |-> chip.soc + Decimal(hot),
                   of |-> chip.of]
      BY <1>0, <3>1
    <3>3. chip.soc + Decimal(hot) \in Int /\ chip.pcb \in Int /\ chip.of \in Int
      BY <1>0, <2>1
    <3>4. chip' \in [at : {"idle", "pcbWhole", "pcbDec", "socWhole", "socDec"},
                     pcb : Int, soc : Int, of : Int]
      BY <3>2, <3>3
    <3>5. chip'.soc = Whole(chip'.of) + Decimal(hot)
          /\ chip'.of = chip.of /\ chip'.at = "idle"
      BY <1>0, <2>3, <3>2
    <3> QED BY <1>0, <2>1, <3>4, <3>5 DEF TmpFits
  <2> QED BY <1>4, <2>2, <2>3 DEF ReadDecimal
<1>5. CASE Tmp451Fails
  <2>1. hot' = hot
        /\ chip' = [chip EXCEPT !.at = IF @ \in {"pcbWhole", "pcbDec"} THEN "socWhole"
                                       ELSE "idle"]
    BY Zenon, <1>5 DEF Tmp451Fails
  <2> QED BY <1>0, <2>1 DEF TmpFits
<1> QED BY Zenon, <1>1, <1>2, <1>3, <1>4, <1>5 DEF TmpNext

\* A step of the fuel gauge: the second transfer ends the update the first began.
LEMMA GaugeStep ==
    ASSUME GaugeFits, GaugeNext
    PROVE  GaugeFits'
<1>0. /\ gauge \in [at : {"idle", "second"}, n : 0..MaxUpdates, amp : Int,
                    now : [amp : Int, volt : Int], avg : [amp : Int, volt : Int]]
      /\ gauge.now.amp = gauge.now.volt
      /\ gauge.avg.amp = gauge.avg.volt
      /\ gauge.at = "second" => gauge.amp = gauge.n
      /\ MaxUpdates \in Nat
  BY ChipsAssumption DEF GaugeFits
<1>1. CASE ReadGauge
  <2>1. PICK n \in 0..MaxUpdates : n = gauge.n /\ n < MaxUpdates
    BY <1>0, <1>1 DEF ReadGauge
  <2>2. gauge' = [at |-> "second", n |-> n + 1, amp |-> n + 1,
                  now |-> [amp |-> n + 1, volt |-> n + 1], avg |-> gauge.avg]
    BY <1>0, <1>1, <2>1 DEF ReadGauge
  <2>3. n + 1 \in 0..MaxUpdates /\ n + 1 \in Int /\ gauge.avg \in [amp : Int, volt : Int]
    BY <1>0, <2>1
  <2> QED BY <1>0, <2>2, <2>3 DEF GaugeFits
<1>2. CASE ReadGaugeAverage
  BY <1>0, <1>2 DEF ReadGaugeAverage, AverageOf, GaugeFits
<1>3. CASE GaugeFails
  BY <1>0, <1>3 DEF GaugeFails, FailedGauge, GaugeFits
<1> QED BY <1>1, <1>2, <1>3 DEF GaugeNext

\* Every rail is behind a converter.
LEMMA DomainFacts ==
    ASSUME NEW s, NEW v
    PROVE  DomainOf(s, v) \in Converter
<1>1. I2c_SOC \in Converter
  BY SMT DEF I2c_SOC, Converter
<1>2. I2c_VDD2 = [mask |-> 128, step |-> 12500, min |-> 600000, max |-> 1350000, por |-> 0]
  BY SMT DEF I2c_SOC, I2c_VDD2
<1>3. I2c_VDD2 \in Converter
  BY SMT, <1>2 DEF Converter
<1>4. I2c_Display \in Converter
  BY SMT DEF I2c_Display, Converter
<1>5. I2c_Mariko \in Converter
  BY SMT DEF I2c_Mariko, Converter
<1>6. CASE v = "SOC"
  BY Zenon, <1>1, <1>6 DEF DomainOf
<1>7. CASE v # "SOC" /\ (v = "EMCVDD2" \/ (v = "EMCVDDQ" /\ s = "Erista"))
  BY SMT, <1>3, <1>7 DEF DomainOf
<1>8. CASE v # "SOC" /\ ~(v = "EMCVDD2" \/ (v = "EMCVDDQ" /\ s = "Erista")) /\ v = "Display"
  BY SMT, <1>4, <1>8 DEF DomainOf
<1>9. CASE v # "SOC" /\ ~(v = "EMCVDD2" \/ (v = "EMCVDDQ" /\ s = "Erista")) /\ v # "Display"
  BY SMT, <1>5, <1>9 DEF DomainOf
<1> QED BY Zenon, <1>6, <1>7, <1>8, <1>9

\* A voltage is one from the converter's lowest up.
LEMMA VoltageNatural ==
    ASSUME NEW d \in Converter, NEW r \in Nat
    PROVE  /\ MultiplierToUvOut(d, r) \in Nat
           /\ MultiplierToUvOut(d, r % d.mask) \in Nat
<1>1. d.min \in Nat /\ d.step \in Nat /\ d.mask \in Nat \ {0}
  BY DEF Converter
<1>2. r % d.mask \in Nat
  BY <1>1
<1>3. \A m \in Nat : d.step * m \in Nat
  BY <1>1
<1> QED BY <1>1, <1>2, <1>3 DEF MultiplierToUvOut

\* Readings that are all the same, and what one reading more leaves.
AllAre(reads, por) == \A i \in 1..Len(reads) : reads[i] = por

OneMore(old, r, por) ==
    \E reads \in Seq(Int), n \in 0..4 :
        /\ reads = Append(old, r) /\ n = Len(old)
        /\ Len(reads) = n + 1 /\ reads[n + 1] = r
        /\ \A i \in 1..n : reads[i] = por

\* One reading more of a rail that has given the same value so far.
LEMMA OneMoreReading ==
    ASSUME NEW old \in Seq(Int), NEW r \in Int, NEW por \in Int, Len(old) <= 4,
           AllAre(old, por)
    PROVE  OneMore(old, r, por)
<1>1. PICK n \in 0..4 : n = Len(old)
  <2>1. PICK m \in Nat : m = Len(old)
    OBVIOUS
  <2>2. m <= 4
    BY Zenon, <2>1
  <2>3. m \in 0..4
    BY SMT, <2>2
  <2> QED BY Zenon, <2>1, <2>3
<1>2. Append(old, r) \in Seq(Int) /\ Len(Append(old, r)) = n + 1
  BY <1>1
<1>3. Append(old, r)[n + 1] = r /\ \A i \in 1..n : Append(old, r)[i] = por
  BY <1>1 DEF AllAre
<1> QED BY <1>1, <1>2, <1>3 DEF OneMore

\* A reading of a rail, or the regulator service's answer.
LEMMA VoltStep ==
    ASSUME VoltFits, VoltNext
    PROVE  VoltFits'
<1>0. /\ volt \in [soc : {"Mariko", "Erista"}, of : Voltages, reg : RailRegisters,
                   reads : Seq(Int), out : Int]
      /\ volt.reg \in Nat
      /\ Len(volt.reads) <= 5
      /\ Serviced(volt.soc, volt.of) => volt.reads = <<>>
  <2>1. /\ volt \in [soc : {"Mariko", "Erista"}, of : Voltages, reg : RailRegisters,
                     reads : Seq(Int), out : Int]
        /\ Len(volt.reads) <= 5
        /\ Serviced(volt.soc, volt.of) => volt.reads = <<>>
    BY Zenon DEF VoltFits
  <2>2. volt.reg \in RailRegisters
    BY <2>1
  <2>3. volt.reg \in Nat
    <3>1. RailRegisters \subseteq 0..255
      BY Zenon, ChipsAssumption
    <3>2. \A x \in 0..255 : x \in Nat
      BY SMT
    <3> QED BY Zenon, <2>2, <3>1, <3>2
  <2> QED BY Zenon, <2>1, <2>3
<1>1. PICK d : d \in Converter /\ d = DomainOf(volt.soc, volt.of)
  BY DomainFacts
<1>2. CASE AskRegulator
  <2>1. Serviced(volt.soc, volt.of) /\ volt.reads = <<>>
    BY <1>0, <1>2 DEF AskRegulator
  <2>2. PICK o \in Nat : volt' = [volt EXCEPT !.out = o]
    <3>1. I2c_Mariko \in Converter
      BY SMT DEF I2c_Mariko, Converter
    <3>2. MultiplierToUvOut(I2c_Mariko, volt.reg) \in Nat /\ 0 \in Nat
      BY <1>0, <3>1, VoltageNatural
    <3> QED BY Zenon, <1>2, <3>2 DEF AskRegulator
  <2>3. /\ volt'.soc = volt.soc /\ volt'.of = volt.of /\ volt'.reads = <<>>
        /\ volt'.out = o /\ o >= -1 /\ o # -1
    BY <1>0, <2>1, <2>2
  <2>4. Serviced(volt'.soc, volt'.of)
    BY Zenon, <2>1, <2>3
  <2>5. VoltageShownIsTheRails'
    BY Zenon, <2>4 DEF VoltageShownIsTheRails
  <2>6. volt' \in [soc : {"Mariko", "Erista"}, of : Voltages, reg : RailRegisters,
                   reads : Seq(Int), out : Int]
    <3>1. volt' = [soc |-> volt.soc, of |-> volt.of, reg |-> volt.reg,
                   reads |-> volt.reads, out |-> o]
      BY <1>0, <2>2
    <3>2. volt.reads \in Seq(Int) /\ o \in Int
      BY <1>0
    <3> QED BY <1>0, <3>1, <3>2
  <2>7. Len(volt'.reads) <= 5
    BY <2>3
  <2> QED BY <2>3, <2>5, <2>6, <2>7 DEF VoltFits
<1>3. CASE ReadRail
  <2>1. ~Serviced(volt.soc, volt.of) /\ volt.out = -1
    BY Zenon, <1>3 DEF ReadRail
  <2>2. PICK r :
        /\ r \in {volt.reg, d.por, -1}
        /\ volt' = [volt EXCEPT !.reads = Append(volt.reads, r),
                       !.out = IF ReadingEnds(d, r) \/ Len(Append(volt.reads, r)) = 5
                               THEN GetUvOut(d, Append(volt.reads, r)) ELSE -1]
    BY Zenon, <1>1, <1>3 DEF ReadRail
  <2>3. PICK reads \in Seq(Int), n \in 0..4 :
           /\ reads = Append(volt.reads, r) /\ n = Len(volt.reads)
           /\ Len(reads) = n + 1 /\ reads[n + 1] = r
           /\ \A i \in 1..n : reads[i] = d.por
    <3>1. d.por \in Int
      BY <1>1 DEF Converter
    <3>2. r \in Int
      BY <1>0, <2>2, <3>1
    <3>3. volt.reads \in Seq(Int)
      BY <1>0
    <3>4. /\ Len(volt.reads) <= 4
          /\ \A i \in 1..Len(volt.reads) : volt.reads[i] = d.por
      BY Zenon, <1>1, <2>1 DEF VoltFits
    <3>5. PICK old \in Seq(Int), por \in Int : old = volt.reads /\ por = d.por
      BY Zenon, <3>1, <3>3
    <3>6. Len(old) <= 4 /\ AllAre(old, por)
      BY Zenon, <3>4, <3>5 DEF AllAre
    <3>7. OneMore(old, r, por)
      BY Zenon, <3>2, <3>6, OneMoreReading
    <3> QED BY Zenon, <3>5, <3>7 DEF OneMore
  <2>4. GetUvOut(d, reads) \in Nat
    <3>1. GetUvOut(d, reads) = IF r = -1 THEN 0 ELSE MultiplierToUvOut(d, r % d.mask)
      BY <2>3 DEF GetUvOut
    <3>2. r # -1 => r \in Nat
      <4>1. d.por \in Nat
        BY <1>1 DEF Converter
      <4> QED BY <1>0, <2>2, <4>1
    <3>3. CASE r = -1
      BY <3>1, <3>3
    <3>4. CASE r # -1
      BY <1>1, <3>1, <3>2, <3>4, VoltageNatural
    <3> QED BY <3>3, <3>4
  <2>5. PICK o \in Int : /\ o = IF ReadingEnds(d, r) \/ Len(reads) = 5
                                THEN GetUvOut(d, reads) ELSE -1
                         /\ o >= -1
    BY <2>4
  <2>6. volt' = [volt EXCEPT !.reads = reads, !.out = o]
    BY Zenon, <2>2, <2>3, <2>5
  <2>7. volt' = [soc |-> volt.soc, of |-> volt.of, reg |-> volt.reg, reads |-> reads,
                 out |-> o]
    BY <1>0, <2>6
  <2>8. /\ volt'.soc = volt.soc /\ volt'.of = volt.of /\ volt'.reg = volt.reg
        /\ volt'.reads = reads /\ volt'.out = o
        /\ volt' \in [soc : {"Mariko", "Erista"}, of : Voltages, reg : RailRegisters,
                      reads : Seq(Int), out : Int]
    BY <1>0, <2>7
  <2>9. ~Serviced(volt'.soc, volt'.of) /\ DomainOf(volt'.soc, volt'.of) = d
    BY Zenon, <1>1, <2>1, <2>8
  <2>10. volt'.out = -1 => /\ Len(volt'.reads) <= 4
                           /\ \A i \in 1..Len(volt'.reads) : volt'.reads[i] = d.por
    <3>1. SUFFICES ASSUME o = -1
                   PROVE  Len(reads) <= 4 /\ \A i \in 1..Len(reads) : reads[i] = d.por
      BY Zenon, <2>8
    <3>2. ~ReadingEnds(d, r) /\ Len(reads) # 5
      BY <2>4, <2>5, <3>1
    <3>3. r = d.por
      BY <3>2 DEF ReadingEnds
    <3>6. Len(reads) = n + 1
      BY Zenon, <2>3
    <3>7. n + 1 # 5
      BY Zenon, <3>2, <3>6
    <3>8. n + 1 <= 4
      BY SMT, <3>7
    <3>4. Len(reads) = n + 1 /\ n + 1 <= 4
      BY Zenon, <3>6, <3>8
    <3>5. \A i \in 1..(n + 1) : reads[i] = d.por
      BY <2>3, <3>3
    <3> QED BY Zenon, <3>4, <3>5
  <2>11. VoltageShownIsTheRails'
    <3>1. SUFFICES ASSUME o # -1, d.por # 0
                   PROVE  \/ o = MultiplierToUvOut(d, volt.reg % d.mask)
                          \/ o = 0 /\ \E i \in DOMAIN reads : reads[i] = -1
                          \/ Len(reads) = 5 /\ \A i \in 1..5 : reads[i] = d.por
      BY Zenon, <2>8, <2>9 DEF VoltageShownIsTheRails
    <3>2. o = IF r = -1 THEN 0 ELSE MultiplierToUvOut(d, r % d.mask)
      BY <2>3, <2>5, <3>1 DEF GetUvOut
    <3>3. CASE r = -1
      <4>1. n + 1 \in DOMAIN reads /\ reads[n + 1] = -1
        BY <2>3, <3>3
      <4> QED BY <3>2, <3>3, <4>1
    <3>4. CASE r # -1 /\ r # d.por
      <4>1. r = volt.reg
        BY Zenon, <2>2, <3>4
      <4> QED BY Zenon, <3>2, <3>4, <4>1
    <3>5. CASE r # -1 /\ r = d.por
      <4>1. ~ReadingEnds(d, r)
        BY <3>1, <3>5 DEF ReadingEnds
      <4>2. Len(reads) = 5
        BY <2>5, <3>1, <4>1
      <4> QED BY <2>3, <3>5, <4>2
    <3> QED BY <3>3, <3>4, <3>5
  <2>12. volt'.out >= -1 /\ Len(volt'.reads) <= 5
    <3>1. Len(reads) = n + 1
      BY Zenon, <2>3
    <3>2. n + 1 <= 5
      OBVIOUS
    <3> QED BY Zenon, <2>5, <2>8, <3>1, <3>2
  <2> QED BY Zenon, <2>8, <2>9, <2>10, <2>11, <2>12 DEF VoltFits
<1> QED BY <1>2, <1>3 DEF VoltNext

\* Every step keeps the invariant.
LEMMA ChipsIInvNext == ChipsIInv /\ [ChipsNext]_chips => ChipsIInv'
<1> SUFFICES ASSUME ChipsIInv, [ChipsNext]_chips PROVE ChipsIInv'
  OBVIOUS
<1>0. RailsFit /\ TmpFits /\ GaugeFits /\ VoltFits
  BY DEF ChipsIInv
<1>1. CASE RailNext
  <2>1. UNCHANGED <<hot, chip>> /\ UNCHANGED gauge /\ UNCHANGED volt
    BY Zenon, <1>1 DEF RailNext, ChangeSetting, HandleMiscFeatures, TransferFails
  <2> QED BY Zenon, <1>0, <1>1, <2>1, RailsStep, TmpKept, GaugeKept, VoltKept DEF ChipsIInv
<1>2. CASE TmpNext
  <2>1. UNCHANGED <<asked, tick, since, charger, ldo0>> /\ UNCHANGED gauge /\ UNCHANGED volt
    BY Zenon, <1>2 DEF TmpNext, Drift, StartTmp451, ReadWhole, ReadDecimal, Tmp451Fails
  <2> QED BY Zenon, <1>0, <1>2, <2>1, RailsKept, TmpStep, GaugeKept, VoltKept DEF ChipsIInv
<1>3. CASE GaugeNext
  <2>1. UNCHANGED <<asked, tick, since, charger, ldo0>> /\ UNCHANGED <<hot, chip>>
        /\ UNCHANGED volt
    BY Zenon, <1>3 DEF GaugeNext, ReadGauge, ReadGaugeAverage, GaugeFails
  <2> QED BY Zenon, <1>0, <1>3, <2>1, RailsKept, TmpKept, GaugeStep, VoltKept DEF ChipsIInv
<1>4. CASE VoltNext
  <2>1. UNCHANGED <<asked, tick, since, charger, ldo0>> /\ UNCHANGED <<hot, chip>>
        /\ UNCHANGED gauge
    BY Zenon, <1>4 DEF VoltNext, AskRegulator, ReadRail
  <2> QED BY Zenon, <1>0, <1>4, <2>1, RailsKept, TmpKept, GaugeKept, VoltStep DEF ChipsIInv
<1>5. CASE UNCHANGED chips
  <2>1. UNCHANGED <<asked, tick, since, charger, ldo0>> /\ UNCHANGED <<hot, chip>>
        /\ UNCHANGED gauge /\ UNCHANGED volt
    BY Zenon, <1>5 DEF chips
  <2> QED BY Zenon, <1>0, <2>1, RailsKept, TmpKept, GaugeKept, VoltKept DEF ChipsIInv
<1> QED BY Zenon, <1>1, <1>2, <1>3, <1>4, <1>5 DEF ChipsNext

\* It implies what the run checks.
LEMMA ChipsIInvImplies == ChipsIInv => ChipsTypeOK /\ ChipsInv
<1> SUFFICES ASSUME ChipsIInv PROVE ChipsTypeOK /\ ChipsInv
  OBVIOUS
<1>0. RailsTyped /\ RailsFit /\ TmpFits /\ GaugeFits /\ VoltFits
  BY DEF ChipsIInv, RailsFit
<1>1. ChipsTypeOK
  <2>1. /\ asked \in [charge : ChargeCurrents \cup {0}, display : DisplayMvs \cup {1200}]
        /\ tick \in 0..10 /\ since \in 0..11
        /\ charger \in 0..255 /\ ldo0 \in 0..255
    BY <1>0 DEF RailsTyped
  <2>2. hot \in Boards
    BY Zenon, <1>0 DEF TmpFits
  <2>3. gauge.n \in 0..MaxUpdates
    BY <1>0 DEF GaugeFits
  <2>4. volt.out >= -1 /\ Len(volt.reads) <= 5
    BY Zenon, <1>0 DEF VoltFits
  <2> QED BY <2>1, <2>2, <2>3, <2>4 DEF ChipsTypeOK
<1>2. SettingsLand
  <2>1. PICK mv \in Int, c \in Int : mv = asked.display /\ c = asked.charge
    BY <1>0, AskedAllowed
  <2>2. 800 <= mv /\ mv <= 1325
    BY SMT, <1>0, <2>1, AskedAllowed DEF ValidDisplay
  <2>3. c # 0 => 1024 <= c /\ c <= 3072
    BY SMT, <1>0, <2>1, AskedAllowed DEF ValidCharge
  <2>4. ldo0 \div 64 = 3
    BY <1>0 DEF RailsTyped
  <2>5. since = 11 => Carried
    BY <1>0 DEF RailsFit, RailsTyped
  <2>6. Carried => (c # 0 => Convert_Raw_mA(charger) - c \in -100..64)
    BY SMT, <2>1, <2>3, ChargeStep DEF Carried
  <2>7. Carried => mv * 1000 - GetUvOut(I2c_Display, <<ldo0>>) \in 0..(I2c_Display.step - 1)
    <3>1. SUFFICES ASSUME Carried
                   PROVE  mv * 1000 - GetUvOut(I2c_Display, <<ldo0>>)
                             \in 0..(I2c_Display.step - 1)
      BY Zenon
    <3>2. PICK m \in 0..21 : m = MvOutToMultiplier(I2c_Display, mv)
      BY SMT, <2>2, DisplayStep
    <3>6. 800000 + 25000 * m <= mv * 1000 /\ mv * 1000 < 825000 + 25000 * m
      BY SMT, <2>2, <3>2, DisplayStep
    <3>3. ldo0 = 192 + m
      BY Zenon, <2>1, <3>1, <3>2 DEF Carried
    <3>4. GetUvOut(I2c_Display, <<ldo0>>) = 800000 + 25000 * m
      <4>1. (192 + m) % 64 = m /\ 192 + m # -1
        OBVIOUS
      <4>2. GetUvOut(I2c_Display, <<192 + m>>) = MultiplierToUvOut(I2c_Display, (192 + m) % 64)
        BY SMT, <4>1 DEF GetUvOut, I2c_Display
      <4>3. MultiplierToUvOut(I2c_Display, m) = 800000 + 25000 * m
        BY SMT DEF MultiplierToUvOut, I2c_Display
      <4> QED BY SMT, <3>3, <4>1, <4>2, <4>3
    <3>5. I2c_Display.step = 25000
      BY SMT DEF I2c_Display
    <3>7. PICK x \in Int : x = mv * 1000 - (800000 + 25000 * m)
      BY SMT
    <3>8. 0 <= x /\ x <= 24999
      BY SMT, <3>6, <3>7
    <3>9. mv * 1000 - GetUvOut(I2c_Display, <<ldo0>>) = x
      BY SMT, <3>4, <3>7
    <3>10. \A n \in Int : x <= n => x \in 0..n
      BY SMT, <3>8
    <3>11. I2c_Display.step - 1 = 24999
      BY SMT, <3>5
    <3>12. x <= I2c_Display.step - 1 /\ I2c_Display.step - 1 \in Int
      BY SMT, <3>8, <3>11
    <3>13. x \in 0..(I2c_Display.step - 1)
      BY Zenon, <3>10, <3>12
    <3> QED BY Zenon, <3>9, <3>13
  <2> QED BY Zenon, <2>1, <2>4, <2>5, <2>6, <2>7 DEF SettingsLand
<1>3. TmpWithinADegree
  <2>1. PICK d \in Decimals : chip.soc = Whole(chip.of) + d
    BY Zenon, <1>0 DEF TmpFits
  <2>2. chip.of \in Temperatures
    BY Zenon, <1>0 DEF TmpFits
  <2>3. Near(Whole(chip.of) + d, chip.of)
    BY Zenon, <2>2, DecimalSmall
  <2> QED BY Zenon, <2>1, <2>3 DEF Near, TmpWithinADegree
<1>4. PowerOfOneUpdate
  BY Zenon, <1>0 DEF GaugeFits, PowerOfOneUpdate
<1>5. VoltageShownIsTheRails
  BY Zenon, <1>0 DEF VoltFits
<1> QED BY Zenon, <1>1, <1>2, <1>3, <1>4, <1>5 DEF ChipsInv

\* Settings reach the charger and the display rail within eleven ticks of the
\* last change or failure, and temperatures, powers and voltages come back whole,
\* whichever transfer fails and however the board drifts meanwhile.
THEOREM ChipsInvHolds == ChipsSpec => [](ChipsTypeOK /\ ChipsInv)
<1>1. ChipsInit => ChipsIInv
  BY ChipsIInvInit
<1>2. ChipsIInv /\ [ChipsNext]_chips => ChipsIInv'
  BY ChipsIInvNext
<1>3. ChipsIInv => ChipsTypeOK /\ ChipsInv
  BY ChipsIInvImplies
<1> QED BY <1>1, <1>2, <1>3, PTL DEF ChipsSpec

---------------------------------------------------------------------------
(* The temperature sensors. *)

\* Sensors that run have their calibration and pre-divider.
BlockFits(b, cal, pdiv) ==
    /\ b = [on |-> b.on, clken |-> b.clken, conf2 |-> b.conf2, pdiv |-> b.pdiv]
    /\ b.on \in BOOLEAN /\ b.clken \in BOOLEAN
    /\ b.clken => b.conf2 = cal /\ b.pdiv = pdiv

AotagFits(a) ==
    /\ a = [ready |-> a.ready, valid |-> a.valid, conf2 |-> a.conf2]
    /\ a.ready \in BOOLEAN /\ a.valid \in BOOLEAN

SensorsFit ==
    /\ soc \in {"Mariko", "Erista"}
    /\ die \in [Zones -> HalfDegrees]
    /\ BlockFits(block, calib, Conf(soc).pdiv)
    /\ AotagFits(aotag)

ThermalIInv == SensorsFit /\ DieShown /\ MemBlend

\* The lines come from this console's fuses.
FromFuses ==
    /\ soc \in {"Mariko", "Erista"} /\ fuse \in Fuses
    /\ calib \in {NoCalib, AllCalib(soc, fuse)}
    /\ aotag.ready => aotag.conf2 = CalcTSensorCalib(AotagConf(soc), fuse, AotagCoeff(soc))

\* What a reading of the block may give for a zone.
ZoneRead(t, z) == t[z] = 0 \/ t[z] = 500 * die[z]

---------------------------------------------------------------------------

\* A temperature comes back from its register as it is.
LEMMA ReadAsEncoded ==
    ASSUME NEW h \in HalfDegrees
    PROVE  TranslateTemp(Encode(h)) = 500 * h
<1>1. PICK m \in Int, neg \in {0, 1} :
         /\ m = (IF h < 0 THEN -h ELSE h) /\ neg = (IF h < 0 THEN 1 ELSE 0)
         /\ 0 <= m /\ m <= 511
  BY SMT DEF HalfDegrees
<1>2. PICK a \in Int, b \in {0, 1} : a = m \div 2 /\ b = m % 2 /\ m = 2 * a + b
  BY SMT, <1>1
<1>3. 0 <= a /\ a <= 255
  BY SMT, <1>1, <1>2
<1>4. PICK w \in Int : w = a * 256 + b * 128 + neg
  BY SMT, <1>2
<1>5. Encode(h) = w
  BY SMT, <1>1, <1>2, <1>4 DEF Encode
<1>6. (w \div 256) % 256 = a /\ (w \div 128) % 2 = b /\ w % 2 = neg
  <2>1. w \div 256 = a
    BY SMT, <1>4
  <2>2. w \div 128 = 2 * a + b
    BY SMT, <1>4
  <2>3. w % 2 = neg
    BY SMT, <1>4
  <2>4. a % 256 = a /\ (2 * a + b) % 2 = b
    BY SMT, <1>3
  <2> QED BY SMT, <2>1, <2>2, <2>3, <2>4
<1>7. TranslateTemp(w) = IF neg = 1 THEN -(a * 1000 + b * 500) ELSE a * 1000 + b * 500
  BY SMT, <1>6 DEF TranslateTemp
<1>8. CASE h < 0
  BY SMT, <1>1, <1>2, <1>5, <1>7, <1>8 DEF HalfDegrees
<1>9. CASE ~(h < 0)
  BY SMT, <1>1, <1>2, <1>5, <1>7, <1>9 DEF HalfDegrees
<1> QED BY <1>8, <1>9

\* A block and what StartSensors writes to it.
LEMMA NewBlock ==
    ASSUME NEW on \in BOOLEAN, NEW clken \in BOOLEAN, NEW conf2, NEW pdiv
    PROVE  /\ BlockFits([on |-> on, clken |-> TRUE, conf2 |-> conf2, pdiv |-> pdiv], conf2, pdiv)
           /\ \A cal, div : BlockFits([on |-> on, clken |-> FALSE, conf2 |-> conf2,
                                      pdiv |-> pdiv], cal, div)
BY DEF BlockFits

LEMMA Restarted ==
    ASSUME SensorsFit
    PROVE  StartSensors(block) = [on |-> block.on, clken |-> TRUE, conf2 |-> calib,
                                  pdiv |-> Conf(soc).pdiv]
<1>1. PICK on, clken, conf2, pdiv :
        block = [on |-> on, clken |-> clken, conf2 |-> conf2, pdiv |-> pdiv]
  BY Zenon DEF SensorsFit, BlockFits
<1>2. PICK div : div = Conf(soc).pdiv
  OBVIOUS
<1>3. StartSensors(block) = [block EXCEPT !.conf2 = calib, !.pdiv = div, !.clken = TRUE]
  BY <1>2 DEF StartSensors
<1>4. StartSensors(block) = [on |-> on, clken |-> TRUE, conf2 |-> calib, pdiv |-> div]
  BY <1>1, <1>3
<1>5. block.on = on
  BY <1>1
<1> QED BY Zenon, <1>2, <1>4, <1>5

\* The sensors are restarted before they are read, so that what ReadTSensors
\* returns is the die's, or 0 while the block is held in reset.
LEMMA ReadingsAreTheDies ==
    ASSUME SensorsFit, NEW z \in {"cpu", "gpu", "pllx"}
    PROVE  ZoneRead(ReadTSensors(block).temps, z)
<1>1. CASE ~block.on
  <2>1. ReadTSensors(block).temps = NoTemps
    BY <1>1 DEF ReadTSensors, IsDisabledThroughSleep
  <2> QED BY <2>1 DEF NoTemps, ZoneRead
<1>2. CASE block.on
  <2>1. PICK b : b = IF IsSensorEnabled(block) THEN block ELSE StartSensors(block)
    OBVIOUS
  <2>2. b.clken /\ b.conf2 = calib /\ b.pdiv = Conf(soc).pdiv
    <3>1. CASE block.clken
      BY <2>1, <3>1 DEF SensorsFit, BlockFits, IsSensorEnabled
    <3>2. CASE ~block.clken
      <4>1. b = StartSensors(block)
        BY <2>1, <3>2 DEF IsSensorEnabled
      <4> QED BY <4>1, Restarted
    <3> QED BY <3>1, <3>2
  <2>3. Measured(b, z) = Encode(die[z])
    BY Zenon, <2>2 DEF Measured
  <2>4. die[z] \in HalfDegrees
    BY DEF SensorsFit, Zones
  <2>5. ReadTSensors(block).temps[z] = TranslateTemp(Measured(b, z))
    BY <1>2, <2>1 DEF ReadTSensors, IsDisabledThroughSleep
  <2>6. ReadTSensors(block).temps[z] = 500 * die[z]
    BY Zenon, <2>3, <2>4, <2>5, ReadAsEncoded
  <2> QED BY Zenon, <2>6 DEF ZoneRead
<1> QED BY <1>1, <1>2 DEF SensorsFit, BlockFits
\* What the AOTAG may give.
LEMMA AotagReadings ==
    ASSUME SensorsFit, NEW v \in BOOLEAN
    PROVE  /\ aotag.ready /\ v => ReadAotag(aotag.ready, v) = 500 * die["ao"]
           /\ aotag.ready /\ ~v => ReadAotag(aotag.ready, v) = -125
           /\ ~aotag.ready => ReadAotag(aotag.ready, v) = -126
<1>1. die["ao"] \in HalfDegrees
  BY DEF SensorsFit, Zones
<1>2. TranslateTemp(Encode(die["ao"])) = 500 * die["ao"]
  BY Zenon, <1>1, ReadAsEncoded
<1> QED BY Zenon, <1>2 DEF ReadAotag

\* A temperature no warmer than both and no colder than a tenth of PLLX.
Between(milli, plx, ao) ==
    /\ milli >= plx \div 10 - 113
    /\ milli <= AtLeastZero(plx) \/ milli <= ao

\* A blend of PLLX and the AOTAG, asleep or not, torn or not.
LEMMA BlendBetween ==
    ASSUME NEW plx \in Int, NEW ao \in Int, NEW second \in Int,
           ao > 0, second = ao \/ second = -125,
           NEW milli \in Int, milli = AtLeastZero((plx + 9 * second) \div 10)
    PROVE  Between(milli, plx, ao)
<1>1. PICK x \in Int : x = (plx + 9 * second) \div 10
  OBVIOUS
<1>2. milli = IF x < 0 THEN 0 ELSE x
  BY <1>1 DEF AtLeastZero
<1>3. PICK y \in Int : y = plx \div 10
  OBVIOUS
<1>4. 10 * x <= plx + 9 * second /\ plx + 9 * second < 10 * x + 10
  BY <1>1
<1>5. 10 * y <= plx /\ plx < 10 * y + 10
  BY <1>3
<1>6. second >= -125 /\ second <= ao
  OBVIOUS
<1>7. milli >= y - 113
  BY <1>2, <1>4, <1>5, <1>6
<1>8. milli <= AtLeastZero(plx) \/ milli <= ao
  BY <1>2, <1>4, <1>6 DEF AtLeastZero
<1> QED BY Zenon, <1>3, <1>7, <1>8 DEF Between

\* A temperature by itself is no lower than a tenth of itself.
LEMMA AloneBetween ==
    ASSUME NEW plx \in Int, NEW ao
    PROVE  Between(AtLeastZero(plx), plx, ao)
BY DEF AtLeastZero, Between

\* What is written by a refresh is in its place between PLLX and the AOTAG.
LEMMA RefreshBlend ==
    ASSUME SensorsFit, NEW s \in DieSensors, Refresh(s)
    PROVE  MemBlend'
<1>1. SUFFICES ASSUME soc = "Mariko", s = "MEM"
               PROVE  \E plx \in {0, 500 * die["pllx"]} :
                         Between(shown'.milli, plx, 500 * die["ao"])
  <2>1. soc' = soc /\ die' = die /\ shown'.sensor = s
    BY DEF Refresh
  <2> QED BY <2>1 DEF MemBlend, Between
<1>9. PICK v \in BOOLEAN :
        shown' = [sensor |-> s, milli |->
                    GetTemperatureMilli(s, ReadTSensors(block).temps,
                        ReadAotag(aotag.ready, aotag.valid), ReadAotag(aotag.ready, v))]
  BY Zenon DEF Refresh
<1>2. PICK t :
        /\ t = ReadTSensors(block).temps
        /\ shown'.milli = GetTemperatureMilli("MEM", t, ReadAotag(aotag.ready, aotag.valid),
                                              ReadAotag(aotag.ready, v))
  BY <1>1, <1>9
<1>3. PICK first, second : /\ first = ReadAotag(aotag.ready, aotag.valid)
                           /\ second = ReadAotag(aotag.ready, v)
  OBVIOUS
<1>4. shown'.milli = IF aotag.ready /\ first > 0
                     THEN AtLeastZero((t.pllx + 9 * second) \div 10) ELSE AtLeastZero(t.pllx)
  BY <1>1, <1>2, <1>3 DEF GetTemperatureMilli
<1>5. die["pllx"] \in Int /\ die["ao"] \in Int
  <2>1. die["pllx"] \in HalfDegrees /\ die["ao"] \in HalfDegrees
    BY DEF SensorsFit, Zones
  <2>2. \A h \in HalfDegrees : h \in Int
    BY SMT DEF HalfDegrees
  <2> QED BY Zenon, <2>1, <2>2
<1>6. PICK plx \in Int : plx = t.pllx /\ plx \in {0, 500 * die["pllx"]}
  <2>1. t.pllx = 0 \/ t.pllx = 500 * die["pllx"]
    BY <1>2, ReadingsAreTheDies DEF ZoneRead
  <2>2. 500 * die["pllx"] \in Int
    BY <1>5
  <2> QED BY <2>1, <2>2
<1>7. CASE aotag.ready /\ first > 0
  <2>1. PICK ao \in Int : ao = 500 * die["ao"]
    BY <1>5
  <2>2. aotag.valid \in BOOLEAN /\ aotag.ready
    BY <1>7 DEF SensorsFit, AotagFits
  <2>3. aotag.valid => first = ao
    BY Zenon, <1>3, <2>1, <2>2, AotagReadings
  <2>4. ~aotag.valid => first = -125
    BY Zenon, <1>3, <2>2, AotagReadings
  <2>5. first = ao /\ ao > 0
    BY <1>7, <2>2, <2>3, <2>4
  <2>6. v => second = ao
    BY Zenon, <1>3, <2>1, <2>2, AotagReadings
  <2>7. ~v => second = -125
    BY Zenon, <1>3, <2>2, AotagReadings
  <2>8. second \in Int /\ (second = ao \/ second = -125)
    BY <2>6, <2>7
  <2>9. PICK milli \in Int : milli = AtLeastZero((plx + 9 * second) \div 10)
    BY <2>8 DEF AtLeastZero
  <2>10. shown'.milli = milli
    BY Zenon, <1>4, <1>6, <1>7, <2>9
  <2>11. Between(milli, plx, ao)
    BY <2>5, <2>8, <2>9, BlendBetween
  <2> QED BY Zenon, <1>6, <2>1, <2>10, <2>11
<1>8. CASE ~(aotag.ready /\ first > 0)
  <2>1. shown'.milli = AtLeastZero(plx)
    BY Zenon, <1>4, <1>6, <1>8
  <2>2. PICK milli, ao : milli = AtLeastZero(plx) /\ ao = 500 * die["ao"]
    OBVIOUS
  <2>3. Between(milli, plx, ao)
    BY Zenon, <2>2, AloneBetween
  <2>4. shown'.milli = milli
    BY Zenon, <2>1, <2>2
  <2>5. Between(shown'.milli, plx, 500 * die["ao"])
    BY <2>2, <2>3, <2>4
  <2> QED BY <1>6, <2>5
<1> QED BY <1>7, <1>8

\* What is shown of a reading that is 0 or the die's.
LEMMA ShownOf ==
    ASSUME NEW a, NEW b, a = 0 \/ a = b
    PROVE  AtLeastZero(a) \in {0, AtLeastZero(b)}
BY DEF AtLeastZero

\* And is the temperature of the die's zone.
LEMMA RefreshDie ==
    ASSUME SensorsFit, NEW s \in DieSensors, Refresh(s)
    PROVE  DieShown'
<1>1. SUFFICES ASSUME s \in {"CPU", "GPU", "PLLX", "AO"}
               PROVE  shown'.milli \in {0, AtLeastZero(500 * die[DieOf(s)])}
  <2>1. shown'.sensor = s /\ die' = die
    BY DEF Refresh
  <2> QED BY <2>1 DEF DieShown
<1>8. PICK v \in BOOLEAN :
        shown' = [sensor |-> s, milli |->
                    GetTemperatureMilli(s, ReadTSensors(block).temps,
                        ReadAotag(aotag.ready, aotag.valid), ReadAotag(aotag.ready, v))]
  BY Zenon DEF Refresh
<1>2. PICK t :
        /\ t = ReadTSensors(block).temps
        /\ shown'.milli = GetTemperatureMilli(s, t, ReadAotag(aotag.ready, aotag.valid),
                                              ReadAotag(aotag.ready, v))
  BY <1>8
<1>3. AtLeastZero(0) = 0 /\ AtLeastZero(-125) = 0 /\ AtLeastZero(-126) = 0
  BY DEF AtLeastZero
<1>4. CASE s = "CPU"
  <2>1. shown'.milli = AtLeastZero(t["cpu"]) /\ DieOf(s) = "cpu"
    BY <1>2, <1>4 DEF GetTemperatureMilli, DieOf
  <2>2. ZoneRead(t, "cpu")
    BY <1>2, ReadingsAreTheDies
  <2>3. PICK a, b : a = t["cpu"] /\ b = 500 * die["cpu"]
    OBVIOUS
  <2>4. a = 0 \/ a = b
    BY Zenon, <2>2, <2>3 DEF ZoneRead
  <2>5. AtLeastZero(a) \in {0, AtLeastZero(b)}
    BY <2>4, ShownOf
  <2> QED BY Zenon, <2>1, <2>3, <2>5
<1>5. CASE s = "GPU"
  <2>1. shown'.milli = AtLeastZero(t["gpu"]) /\ DieOf(s) = "gpu"
    BY <1>2, <1>5 DEF GetTemperatureMilli, DieOf
  <2>2. ZoneRead(t, "gpu")
    BY <1>2, ReadingsAreTheDies
  <2>3. PICK a, b : a = t["gpu"] /\ b = 500 * die["gpu"]
    OBVIOUS
  <2>4. a = 0 \/ a = b
    BY Zenon, <2>2, <2>3 DEF ZoneRead
  <2>5. AtLeastZero(a) \in {0, AtLeastZero(b)}
    BY <2>4, ShownOf
  <2> QED BY Zenon, <2>1, <2>3, <2>5
<1>6. CASE s = "PLLX"
  <2>1. shown'.milli = AtLeastZero(t["pllx"]) /\ DieOf(s) = "pllx"
    BY <1>2, <1>6 DEF GetTemperatureMilli, DieOf
  <2>2. ZoneRead(t, "pllx")
    BY <1>2, ReadingsAreTheDies
  <2>3. PICK a, b : a = t["pllx"] /\ b = 500 * die["pllx"]
    OBVIOUS
  <2>4. a = 0 \/ a = b
    BY Zenon, <2>2, <2>3 DEF ZoneRead
  <2>5. AtLeastZero(a) \in {0, AtLeastZero(b)}
    BY <2>4, ShownOf
  <2> QED BY Zenon, <2>1, <2>3, <2>5
<1>7. CASE s = "AO"
  <2>1. shown'.milli = AtLeastZero(ReadAotag(aotag.ready, aotag.valid)) /\ DieOf(s) = "ao"
    BY <1>2, <1>7 DEF GetTemperatureMilli, DieOf
  <2>2. aotag.ready \in BOOLEAN /\ aotag.valid \in BOOLEAN
    BY Zenon DEF SensorsFit, AotagFits
  <2>3. PICK a : a = ReadAotag(aotag.ready, aotag.valid)
    OBVIOUS
  <2>4. a = 500 * die["ao"] \/ a = -125 \/ a = -126
    BY Zenon, <2>2, <2>3, AotagReadings
  <2>5. AtLeastZero(a) = AtLeastZero(500 * die["ao"]) \/ AtLeastZero(a) = 0
    BY Zenon, <1>3, <2>4
  <2> QED BY Zenon, <2>1, <2>3, <2>5
<1> QED BY <1>1, <1>4, <1>5, <1>6, <1>7

\* The initial state.
LEMMA ThermalIInvInit == ThermalInit => ThermalIInv
<1> SUFFICES ASSUME ThermalInit PROVE ThermalIInv
  OBVIOUS
<1>1. die \in [Zones -> HalfDegrees]
  BY ThermalAssumption DEF ThermalInit
<1>2. SensorsFit
  BY <1>1 DEF ThermalInit, SensorsFit, BlockFits, AotagFits, ResetBlock
<1>3. shown = [sensor |-> "CPU", milli |-> 0]
  BY DEF ThermalInit
<1>4. DieShown /\ MemBlend
  BY <1>3 DEF DieShown, MemBlend
<1> QED BY <1>2, <1>4 DEF ThermalIInv

\* What is shown stays as right as it was when nothing is read.
LEMMA ShownKept ==
    ASSUME DieShown, MemBlend, UNCHANGED <<soc, die, shown>>
    PROVE  DieShown' /\ MemBlend'
BY DEF DieShown, MemBlend

\* Every step keeps the invariant: the clock enable is written last, and lost
\* with everything else.
LEMMA ThermalIInvNext == ThermalIInv /\ [ThermalNext]_thermal => ThermalIInv'
<1> SUFFICES ASSUME ThermalIInv, [ThermalNext]_thermal PROVE ThermalIInv'
  OBVIOUS
<1>0. SensorsFit /\ DieShown /\ MemBlend
  BY DEF ThermalIInv
<1>1. CASE InitializeSensors
  <2>1. UNCHANGED <<soc, die, shown>>
    BY Zenon, <1>1 DEF InitializeSensors
  <2>2. BlockFits(block', calib', Conf(soc).pdiv)
    <3>1. PICK on, clken, conf2, pdiv :
            block = [on |-> on, clken |-> clken, conf2 |-> conf2, pdiv |-> pdiv]
      BY Zenon, <1>0 DEF SensorsFit, BlockFits
    <3>7. on \in BOOLEAN
      <4>1. block.on = on
        BY <3>1
      <4> QED BY Zenon, <1>0, <4>1 DEF SensorsFit, BlockFits
    <3>2. PICK cal, div : cal = AllCalib(soc, fuse) /\ div = Conf(soc).pdiv
      OBVIOUS
    <3>3. block' = [block EXCEPT !.conf2 = cal, !.pdiv = div, !.clken = TRUE] /\ calib' = cal
      BY Zenon, <1>1, <3>2 DEF InitializeSensors, InitializeSoctherm
    <3>4. block' = [on |-> on, clken |-> TRUE, conf2 |-> cal, pdiv |-> div]
      BY <3>1, <3>3
    <3>5. BlockFits(block', cal, div)
      BY Zenon, <3>4, <3>7, NewBlock
    <3>6. calib' = cal
      BY Zenon, <3>3
    <3> QED BY Zenon, <3>2, <3>5, <3>6
  <2>3. AotagFits(aotag')
    <3>1. CASE aotag' = InitializeAotag(soc, fuse)
      BY <3>1 DEF InitializeAotag, AotagFits
    <3>2. CASE aotag' = aotag
      BY Zenon, <1>0, <3>2 DEF SensorsFit
    <3> QED BY Zenon, <1>1, <3>1, <3>2 DEF InitializeSensors
  <2>4. SensorsFit'
    BY Zenon, <1>0, <2>1, <2>2, <2>3 DEF SensorsFit
  <2> QED BY Zenon, <1>0, <2>1, <2>4, ShownKept DEF ThermalIInv
<1>2. CASE Sleep \/ Wake
  <2>1. UNCHANGED <<soc, die, shown, calib, aotag>>
    BY Zenon, <1>2 DEF Sleep, Wake
  <2>2. PICK on \in BOOLEAN :
          block' = [on |-> on, clken |-> FALSE, conf2 |-> NoCalib, pdiv |-> 0]
    <3>1. CASE Sleep
      BY <3>1 DEF Sleep, ResetBlock
    <3>2. CASE Wake
      BY <3>2 DEF Wake, ResetBlock
    <3> QED BY <1>2, <3>1, <3>2
  <2>3. BlockFits(block', calib, Conf(soc).pdiv)
    BY Zenon, <2>2, NewBlock
  <2>4. SensorsFit'
    BY Zenon, <1>0, <2>1, <2>3 DEF SensorsFit
  <2> QED BY Zenon, <1>0, <2>1, <2>4, ShownKept DEF ThermalIInv
<1>3. CASE AotagConverts
  <2>1. UNCHANGED <<soc, die, shown, calib, block>>
    BY Zenon, <1>3 DEF AotagConverts
  <2>2. AotagFits(aotag')
    <3>1. PICK ready, valid, conf2 :
            aotag = [ready |-> ready, valid |-> valid, conf2 |-> conf2]
      BY Zenon, <1>0 DEF SensorsFit, AotagFits
    <3>4. ready \in BOOLEAN /\ valid \in BOOLEAN
      <4>1. aotag.ready = ready /\ aotag.valid = valid
        BY <3>1
      <4> QED BY Zenon, <1>0, <4>1 DEF SensorsFit, AotagFits
    <3>2. aotag' = [aotag EXCEPT !.valid = ~@]
      BY Zenon, <1>3 DEF AotagConverts
    <3>3. aotag' = [ready |-> ready, valid |-> ~valid, conf2 |-> conf2]
      BY <3>1, <3>2
    <3> QED BY <3>3, <3>4 DEF AotagFits
  <2>3. SensorsFit'
    BY Zenon, <1>0, <2>1, <2>2 DEF SensorsFit
  <2> QED BY Zenon, <1>0, <2>1, <2>3, ShownKept DEF ThermalIInv
<1>4. ASSUME NEW s \in DieSensors, Refresh(s)
      PROVE  ThermalIInv'
  <2>1. UNCHANGED <<soc, die, calib, aotag>> /\ block' = ReadTSensors(block).block
    BY Zenon, <1>4 DEF Refresh
  <2>2. BlockFits(block', calib, Conf(soc).pdiv)
    <3>1. block' = block \/ block' = StartSensors(block)
      BY <2>1 DEF ReadTSensors
    <3>2. block.on \in BOOLEAN /\ BlockFits(block, calib, Conf(soc).pdiv)
      BY Zenon, <1>0 DEF SensorsFit, BlockFits
    <3>3. BlockFits(StartSensors(block), calib, Conf(soc).pdiv)
      BY Zenon, <1>0, <3>2, Restarted, NewBlock
    <3> QED BY Zenon, <3>1, <3>2, <3>3
  <2>3. SensorsFit'
    BY Zenon, <1>0, <2>1, <2>2 DEF SensorsFit
  <2> QED BY Zenon, <1>0, <1>4, <2>3, RefreshDie, RefreshBlend DEF ThermalIInv
<1>5. CASE UNCHANGED thermal
  <2>1. UNCHANGED <<soc, die, shown>> /\ UNCHANGED <<calib, block, aotag>>
    BY Zenon, <1>5 DEF thermal
  <2>2. SensorsFit'
    BY <1>0, <2>1 DEF SensorsFit
  <2> QED BY Zenon, <1>0, <2>1, <2>2, ShownKept DEF ThermalIInv
<1> QED BY Zenon, <1>1, <1>2, <1>3, <1>4, <1>5 DEF ThermalNext

\* What the thermal throttle decides on was measured: whatever the console slept
\* through, a temperature shown is its zone's or 0, and the memory's lies between
\* a tenth of PLLX and the warmer of PLLX and the AOTAG.
THEOREM DieShownHolds == ThermalSpec => [](DieShown /\ MemBlend)
<1>1. ThermalInit => ThermalIInv
  BY ThermalIInvInit
<1>2. ThermalIInv /\ [ThermalNext]_thermal => ThermalIInv'
  BY ThermalIInvNext
<1>3. ThermalIInv => DieShown /\ MemBlend
  BY DEF ThermalIInv
<1> QED BY <1>1, <1>2, <1>3, PTL DEF ThermalSpec

\* Calibrations are computed once, of the fuses.
LEMMA FromFusesNext ==
    ASSUME FromFuses, SensorsFit, [ThermalNext]_thermal
    PROVE  FromFuses'
<1>1. CASE InitializeSensors
  <2>1. UNCHANGED <<soc, fuse>> /\ calib' = AllCalib(soc, fuse)
        /\ (aotag' = InitializeAotag(soc, fuse) \/ aotag' = aotag)
    BY Zenon, <1>1 DEF InitializeSensors
  <2>2. InitializeAotag(soc, fuse).conf2
          = CalcTSensorCalib(AotagConf(soc), fuse, AotagCoeff(soc))
    BY DEF InitializeAotag
  <2>3. aotag'.ready => aotag'.conf2 = CalcTSensorCalib(AotagConf(soc), fuse, AotagCoeff(soc))
    BY Zenon, <2>1, <2>2 DEF FromFuses
  <2> QED BY Zenon, <2>1, <2>3 DEF FromFuses
<1>2. CASE AotagConverts
  <2>1. UNCHANGED <<soc, fuse, calib>> /\ aotag' = [aotag EXCEPT !.valid = ~@]
    BY Zenon, <1>2 DEF AotagConverts
  <2>2. aotag'.ready = aotag.ready /\ aotag'.conf2 = aotag.conf2
    BY <2>1 DEF SensorsFit, AotagFits
  <2> QED BY Zenon, <2>1, <2>2 DEF FromFuses
<1>3. CASE UNCHANGED <<soc, fuse, calib, aotag>>
  BY <1>3 DEF FromFuses
<1>4. ASSUME Sleep \/ Wake \/ (\E s \in DieSensors : Refresh(s)) \/ UNCHANGED thermal
      PROVE  UNCHANGED <<soc, fuse, calib, aotag>>
  BY Zenon, <1>4 DEF Sleep, Wake, Refresh, thermal
<1> QED BY Zenon, <1>1, <1>2, <1>3, <1>4 DEF ThermalNext

\* Lines from the fuses meet their points.
LEMMA FromFusesHits ==
    ASSUME FusesMeet, FromFuses
    PROVE  CalibrationHitsFusedPoints
<1>1. ASSUME NEW x \in DOMAIN calib
      PROVE  Hits(fuse, Conf(soc), calib[x], TSensors(soc)[x])
  <2>1. calib # NoCalib
    BY <1>1 DEF NoCalib
  <2>2. calib = AllCalib(soc, fuse)
    BY Zenon, <2>1 DEF FromFuses
  <2>3. x \in DOMAIN TSensors(soc)
        /\ calib[x] = CalcTSensorCalib(Conf(soc), fuse, TSensors(soc)[x])
    BY <1>1, <2>2 DEF AllCalib
  <2> QED BY Zenon, <2>3 DEF FusesMeet, FromFuses
<1>2. aotag.ready => Hits(fuse, AotagConf(soc), aotag.conf2, AotagCoeff(soc))
  BY Zenon DEF FusesMeet, FromFuses
<1> QED BY Zenon, <1>1, <1>2 DEF CalibrationHitsFusedPoints

\* On fuses whose lines the arithmetic keeps, all of it: no start, sleep or
\* reading puts another line in a sensor, or shows what one without it reads.
THEOREM ThermalInvHolds == FusesMeet => (ThermalSpec => []ThermalInv)
<1> SUFFICES ASSUME FusesMeet PROVE ThermalSpec => []ThermalInv
  OBVIOUS
<1>1. ThermalInit => ThermalIInv /\ FromFuses
  <2>1. ThermalInit => FromFuses
    BY DEF ThermalInit, FromFuses
  <2> QED BY <2>1, ThermalIInvInit
<1>2. ThermalIInv /\ FromFuses /\ [ThermalNext]_thermal => (ThermalIInv /\ FromFuses)'
  BY Zenon, ThermalIInvNext, FromFusesNext DEF ThermalIInv
<1>3. ThermalIInv /\ FromFuses => ThermalInv
  BY Zenon, FromFusesHits DEF ThermalIInv, ThermalInv
<1> QED BY <1>1, <1>2, <1>3, PTL DEF ThermalSpec
=============================================================================
