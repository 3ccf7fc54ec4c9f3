------------------------------ MODULE Lifecycle ------------------------------
(***************************************************************************)
(* The life of the sysmodule's process (main.cpp): what main brings up and *)
(* takes down, in its order, beside the IPC thread, which asks it to end,  *)
(* and the threads of the governor and the board, which nobody asks to     *)
(* end: their Exit closes them while they run. With it the log, whose flag *)
(* file is looked at once per interval (file/file_utils.cpp), and the      *)
(* question which game runs, two calls with the user in between            *)
(* (hos/process_management.cpp). The console, its services and the threads *)
(* of libnx are external: any initialisation may fail, closing a thread    *)
(* frees its stack.                                                        *)
(***************************************************************************)
EXTENDS Integers, Sequences, FiniteSets

CONSTANTS GameTitles,  \* games the user may start
          MaxPid,      \* bound: games started
          Interval     \* FILE_FLAG_CHECK_INTERVAL_NS in steps of the clock

ASSUME LifeAssumption == MaxPid \in Nat /\ Interval \in Nat

VARIABLES mainAt,    \* where main is
          up,        \* what it has brought up and not taken down
          threads,   \* "none", "created", "running", "ended" or "freed" for each thread
          stopping,  \* ipcService's gRunning was cleared and its thread's wait cancelled
          gRunning,  \* clockManager's
          serving,   \* the request the IPC thread works on, or "none"
          logger,    \* g_has_initialized, g_log_enabled and the age of g_last_flag_check
          logFlag,   \* the flag file is there, and for how long it is as it is
          front,     \* the game in front: its process id (0: none) and its title
          question,     \* GetCurrentApplicationId: the process id, or 0 between two questions
          seen,      \* what was in front at some time during the question
          tid        \* its last answer, or "none"

life == <<mainAt, up, threads, stopping, gRunning, serving, logger, logFlag, front,
          question, seen, tid>>

---------------------------------------------------------------------------
(* main, step by step. *)

\* What main does before its loop, and from its end to the end of the process.
Startup == <<"appInit", "fileUtils", "config", "board", "processManagement",
             "qlaunch", "clockManager", "ipcService", "setRunning">>

ShutdownManagerFirst == <<"clockManager", "stopIpc", "joinIpc", "ipcService",
                          "processManagement", "board", "config", "logLine",
                          "fileUtils", "appExit">>

Shutdown == <<"stopIpc", "joinIpc", "ipcService", "clockManager", "processManagement",
              "board", "config", "logLine", "fileUtils", "appExit">>

Parts == {"appInit", "fileUtils", "config", "board", "processManagement",
          "clockManager", "ipcService"}

Starting(s) == mainAt = [phase |-> "up", step |-> s]
Ending(s)   == mainAt = [phase |-> "down", step |-> s]

\* Where main is after step s of a sequence, and after its last step.
Follow(steps, s, last) ==
    LET i == CHOOSE j \in DOMAIN steps : steps[j] = s
    IN  IF i < Len(steps) THEN [mainAt EXCEPT !.step = steps[i + 1]] ELSE last

\* fatalThrow, diagAbortWithResult, a failed ASSERT_RESULT_OK on any thread or a
\* fault of a thread without a stack end the process where it stands.
Died(why) == [phase |-> "ended", step |-> why]

Alive == mainAt.phase # "ended"

LifeInit ==
    /\ mainAt = [phase |-> "up", step |-> "appInit"]
    /\ up = {}
    /\ threads = [t \in {"ipc", "governor", "loads", "misc"} |-> "none"]
    /\ stopping = FALSE /\ gRunning = FALSE
    /\ serving = "none"
    /\ logger = [initialized |-> FALSE, enabled |-> FALSE, age |-> Interval, wrote |-> "none"]
    /\ logFlag \in [there : BOOLEAN, since : {Interval}]
    /\ front = [pid |-> 0, title |-> "Qlaunch"]
    /\ question = 0 /\ seen = {} /\ tid = "none"

---------------------------------------------------------------------------
(* The log. *)

\* RefreshFlags: the flag file decides, looked at when forced or when the last
\* look is an interval old.
RefreshNeverOff(force) ==
    IF force \/ logger.age >= Interval
    THEN [logger EXCEPT !.enabled = @ \/ logFlag.there, !.age = 0]
    ELSE logger

RefreshFlags(force) ==
    IF force \/ logger.age >= Interval
    THEN [logger EXCEPT !.enabled = logFlag.there, !.age = 0]
    ELSE logger

\* LogLine holds g_log_mutex all along; before Initialize and after Exit it does
\* nothing.
LogLine ==
    IF logger.initialized
    THEN LET l == RefreshFlags(FALSE)
         IN  [l EXCEPT !.wrote = IF l.enabled THEN "line" ELSE "nothing"]
    ELSE logger

\* The user creates or removes the flag file; time passes (external).
ToggleFlag ==
    /\ Alive
    /\ logFlag' = [there |-> ~logFlag.there, since |-> 0]
    /\ UNCHANGED <<mainAt, up, threads, stopping, gRunning, serving, logger, front,
                   question, seen, tid>>

Older(n) == IF n < Interval THEN n + 1 ELSE n

Clock ==
    /\ Alive
    /\ logger' = [logger EXCEPT !.age = Older(@), !.wrote = "none"]
    /\ logFlag' = [logFlag EXCEPT !.since = Older(@)]
    /\ UNCHANGED <<mainAt, up, threads, stopping, gRunning, serving, front, question,
                   seen, tid>>

\* Any call of LogLine by a thread at work: the loop or a request.
Logs ==
    /\ Alive /\ (mainAt.phase = "loop" \/ serving # "none")
    /\ logger' = LogLine
    /\ UNCHANGED <<mainAt, up, threads, stopping, gRunning, serving, logFlag, front,
                   question, seen, tid>>

---------------------------------------------------------------------------
(* Up. *)

\* __appInit, fileUtils::Initialize, board::Initialize, processManagement::Initialize
\* and ipcService::Initialize end the process when a service does not open.
MayFail == {"appInit", "fileUtils", "board", "processManagement", "ipcService"}

InitFails(s) ==
    /\ Starting(s) /\ s \in MayFail
    /\ mainAt' = Died(s)
    /\ UNCHANGED <<up, threads, stopping, gRunning, serving, logger, logFlag, front,
                   question, seen, tid>>

AppInit == up' = up \cup {"appInit"} /\ UNCHANGED <<threads, logger>>

\* fileUtils::Initialize: the flag is looked at, then the first lines are logged.
FileUtilsInitialize ==
    /\ up' = up \cup {"fileUtils"}
    /\ logger' = [RefreshFlags(TRUE) EXCEPT !.initialized = TRUE,
                     !.wrote = IF logFlag.there THEN "line" ELSE "nothing"]
    /\ UNCHANGED threads

\* config::Initialize, and Refresh, which reads the file.
ConfigInitialize == up' = up \cup {"config"} /\ logger' = LogLine /\ UNCHANGED threads

\* StartLoad and StartMiscThread: threads that loop for ever.
BoardInitialize ==
    /\ up' = up \cup {"board"}
    /\ threads' = [threads EXCEPT !["loads"] = "running", !["misc"] = "running"]
    /\ logger' = LogLine

PmInitialize == up' = up \cup {"processManagement"} /\ UNCHANGED <<threads, logger>>

\* WaitForQLaunch asks every 50 ms until the home menu's process is there; the
\* answer is external.
WaitForQLaunch == UNCHANGED <<up, threads, logger>>

\* clockManager::Initialize ends with governor::startThreads.
ManagerInitialize ==
    /\ up' = up \cup {"clockManager"}
    /\ threads' = [threads EXCEPT !["governor"] = "running"]
    /\ logger' = LogLine

IpcInitialize ==
    /\ up' = up \cup {"ipcService"}
    /\ threads' = [threads EXCEPT !["ipc"] = "created"]
    /\ UNCHANGED logger

\* clockManager::SetRunning(true) and ipcService::SetRunning(true).
StartRunning ==
    /\ threads' = [threads EXCEPT !["ipc"] = "running"]
    /\ UNCHANGED <<up, logger>>

StartsUp(s) ==
    /\ Starting(s)
    /\ mainAt' = Follow(Startup, s, [phase |-> "loop", step |-> "tick"])
    /\ gRunning' = (gRunning \/ s = "setRunning")
    /\ \/ s = "appInit" /\ AppInit
       \/ s = "fileUtils" /\ FileUtilsInitialize
       \/ s = "config" /\ ConfigInitialize
       \/ s = "board" /\ BoardInitialize
       \/ s = "processManagement" /\ PmInitialize
       \/ s = "qlaunch" /\ WaitForQLaunch
       \/ s = "clockManager" /\ ManagerInitialize
       \/ s = "ipcService" /\ IpcInitialize
       \/ s = "setRunning" /\ StartRunning
    /\ UNCHANGED <<stopping, serving, logFlag, front, question, seen, tid>>

---------------------------------------------------------------------------
(* The loop, and the game in front. *)

Looping == mainAt.phase = "loop"

\* The user starts and ends games (external); process ids are not used twice.
StartGame ==
    /\ Looping /\ front.title = "Qlaunch" /\ front.pid < MaxPid
    /\ \E t \in GameTitles :
          /\ front' = [pid |-> front.pid + 1, title |-> t]
          /\ seen' = IF question = 0 THEN seen ELSE seen \cup {t}
    /\ UNCHANGED <<mainAt, up, threads, stopping, gRunning, serving, logger, logFlag,
                   question, tid>>

EndGame ==
    /\ Looping /\ front.title # "Qlaunch"
    /\ front' = [front EXCEPT !.title = "Qlaunch"]
    /\ seen' = IF question = 0 THEN seen ELSE seen \cup {"Qlaunch"}
    /\ UNCHANGED <<mainAt, up, threads, stopping, gRunning, serving, logger, logFlag,
                   question, tid>>

\* GetCurrentApplicationId, first call: the process of the game. Without one it
\* is the home menu; the second call is not made.
AskPid ==
    /\ Looping /\ question = 0
    /\ seen' = {front.title}
    /\ IF front.title = "Qlaunch"
       THEN tid' = "Qlaunch" /\ UNCHANGED question
       ELSE question' = front.pid /\ UNCHANGED tid
    /\ UNCHANGED <<mainAt, up, threads, stopping, gRunning, serving, logger, logFlag,
                   front>>

\* Second call: the title of that process, which may have ended since.
TitleKeptWhenGone(pid) ==
    IF front.pid = pid /\ front.title # "Qlaunch" THEN front.title ELSE tid

Title(pid) ==
    IF front.pid = pid /\ front.title # "Qlaunch" THEN front.title ELSE "Qlaunch"

AskTitle ==
    /\ Alive /\ question # 0
    /\ tid' = Title(question)
    /\ question' = 0
    /\ UNCHANGED <<mainAt, up, threads, stopping, gRunning, serving, logger, logFlag,
                   front, seen>>

\* Running() is question between two ticks.
LeaveLoop ==
    /\ Looping /\ ~gRunning /\ question = 0
    /\ mainAt' = [phase |-> "down", step |-> Shutdown[1]]
    /\ UNCHANGED <<up, threads, stopping, gRunning, serving, logger, logFlag, front,
                   question, seen, tid>>

\* A call of the tick or of a request fails: ASSERT_RESULT_OK throws, which logs
\* and aborts.
Throws ==
    /\ Alive /\ (Looping \/ serving # "none")
    /\ logger' = LogLine
    /\ mainAt' = Died("thrown")
    /\ UNCHANGED <<up, threads, stopping, gRunning, serving, logFlag, front, question,
                   seen, tid>>

---------------------------------------------------------------------------
(* The IPC thread. *)

\* What the handler of a request works with.
Uses == [ExitCmd |-> {"clockManager"}, GetCurrentContext |-> {"clockManager"},
         SetProfiles |-> {"config", "fileUtils"},
         SetKipData |-> {"config", "fileUtils"}]

TakeRequest ==
    /\ Alive /\ threads["ipc"] = "running" /\ serving = "none" /\ ~stopping
    /\ \E r \in DOMAIN Uses : serving' = r
    /\ UNCHANGED <<mainAt, up, threads, stopping, gRunning, logger, logFlag, front,
                   question, seen, tid>>

\* ExitHandler ends clockManager's loop.
FinishRequest ==
    /\ Alive /\ serving # "none"
    /\ gRunning' = (gRunning /\ serving # "ExitCmd")
    /\ serving' = "none"
    /\ UNCHANGED <<mainAt, up, threads, stopping, logger, logFlag, front, question, seen,
                   tid>>

\* The wait was cancelled, or will be as soon as it begins.
IpcThreadEnds ==
    /\ Alive /\ threads["ipc"] = "running" /\ stopping /\ serving = "none"
    /\ threads' = [threads EXCEPT !["ipc"] = "ended"]
    /\ UNCHANGED <<mainAt, up, stopping, gRunning, serving, logger, logFlag, front,
                   question, seen, tid>>

---------------------------------------------------------------------------
(* Down. *)

\* ipcService::SetRunning(false): cancel, then wait for the thread's end.
StopIpc ==
    /\ Ending("stopIpc")
    /\ stopping' = TRUE
    /\ UNCHANGED <<up, threads, logger>>

JoinIpc ==
    /\ Ending("joinIpc") /\ threads["ipc"] = "ended"
    /\ UNCHANGED <<up, threads, logger, stopping>>

\* threadClose frees the stack whether or not the thread has ended.
Close(ts) == [t \in DOMAIN threads |-> IF t \in ts THEN "freed" ELSE threads[t]]

\* governor::exitThreads, ExitLoad and ExitMiscThread close threads that run.
Closes == [ipcService |-> {"ipc"}, clockManager |-> {"governor"},
           board |-> {"loads", "misc"}, processManagement |-> {}, config |-> {}]

TakeDown(s) ==
    /\ Ending(s) /\ s \in DOMAIN Closes
    /\ up' = up \ {s}
    /\ threads' = Close(Closes[s])
    /\ UNCHANGED <<stopping, logger>>

LastLine ==
    /\ Ending("logLine")
    /\ logger' = LogLine
    /\ UNCHANGED <<up, threads, stopping>>

\* fileUtils::Exit, without g_log_mutex.
FileUtilsExit ==
    /\ Ending("fileUtils")
    /\ up' = up \ {"fileUtils"}
    /\ logger' = [logger EXCEPT !.initialized = FALSE, !.enabled = FALSE]
    /\ UNCHANGED <<threads, stopping>>

\* __appExit closes setsys, the mounts and fs a second time, which is ignored.
AppExit ==
    /\ Ending("appExit")
    /\ up' = up \ {"appInit"}
    /\ UNCHANGED <<threads, logger, stopping>>

GoesDown ==
    /\ StopIpc \/ JoinIpc \/ LastLine \/ FileUtilsExit \/ AppExit
       \/ \E s \in Parts : TakeDown(s)
    /\ mainAt' = Follow(Shutdown, mainAt.step, Died("returned"))
    /\ UNCHANGED <<gRunning, serving, logFlag, front, question, seen, tid>>

\* A thread that was closed while it ran touches its stack.
ThreadFaults ==
    /\ Alive
    /\ \E t \in {"governor", "loads", "misc"} : threads[t] = "freed"
    /\ mainAt' = Died("fault")
    /\ UNCHANGED <<up, threads, stopping, gRunning, serving, logger, logFlag, front,
                   question, seen, tid>>

LifeNext ==
    \/ \E i \in DOMAIN Startup : StartsUp(Startup[i]) \/ InitFails(Startup[i])
    \/ GoesDown \/ LeaveLoop \/ Throws \/ ThreadFaults
    \/ StartGame \/ EndGame \/ AskPid \/ AskTitle
    \/ TakeRequest \/ FinishRequest \/ IpcThreadEnds
    \/ ToggleFlag \/ Clock \/ Logs

LifeSpec == LifeInit /\ [][LifeNext]_life

LifeTypeOK ==
    /\ mainAt.phase \in {"up", "loop", "down", "ended"}
    /\ up \subseteq Parts
    /\ DOMAIN threads = {"ipc", "governor", "loads", "misc"}
    /\ \A t \in DOMAIN threads :
          threads[t] \in {"none", "created", "running", "ended", "freed"}
    /\ stopping \in BOOLEAN /\ gRunning \in BOOLEAN
    /\ serving \in DOMAIN Uses \cup {"none"}
    /\ logger \in [initialized : BOOLEAN, enabled : BOOLEAN, age : 0..Interval,
                   wrote : {"none", "line", "nothing"}]
    /\ logFlag \in [there : BOOLEAN, since : 0..Interval]
    /\ question \in 0..MaxPid /\ front.pid \in 0..MaxPid
    /\ tid \in GameTitles \cup {"Qlaunch", "none"}
    /\ seen \subseteq GameTitles \cup {"Qlaunch"}

---------------------------------------------------------------------------

\* main's order keeps whatever a request works with up until its answer, however
\* late the request came before the loop's end; and the fault of a thread that
\* clockManager::Exit or board::Exit closed while it ran never cuts off a request
\* or leaves the IPC server registered.
ServedByLive ==
    /\ serving # "none" => Uses[serving] \subseteq up
    /\ mainAt.step = "fault" =>
          serving = "none" /\ threads["ipc"] = "freed" /\ "ipcService" \notin up

\* A line is logged, or left out, against what the flag file says now only if the
\* file changed within the last interval: the user who makes or removes log.flag
\* is heeded after one interval, whatever threads log in the meantime.
LogFollowsFlag ==
    [][logger'.wrote # logger.wrote /\ logger'.wrote # "none" =>
          \/ (logger'.wrote = "line") = logFlag.there
          \/ logFlag.since < Interval]_life

\* GetCurrentApplicationId answers a title that was in front at some time between
\* its two calls, whatever games ended and started in between.
TidWasInFront == [][question # 0 /\ question' = 0 => tid' \in seen]_life
=============================================================================
