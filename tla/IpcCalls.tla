------------------------------- MODULE IpcCalls -------------------------------
(***************************************************************************)
(* The service "hoc:clk" between the overlay and the sysmodule: how the    *)
(* overlay finds out whether the sysmodule runs and connects to it         *)
(* (common/src/client/ipc.c, overlay/src/main.cpp), what each call sends,  *)
(* and what the sysmodule's dispatcher asks of it (ipc_service.cpp).       *)
(* IpcServer has the server's sessions.                                    *)
(***************************************************************************)
EXTENDS Integers, Sequences

CONSTANT RefCounts   \* atomic_size_t has 2^64 values; bound: here RefCounts

ASSUME RefAssumption == RefCounts \in Nat /\ RefCounts > 2

\* Bytes; of the context and of the config values it only matters that both
\* sides have the same.
SizeOf == [u8 |-> 1, u32 |-> 4, u64 |-> 8, TitleProfileList |-> 4 * 5 * 5,
           Context |-> 1280, ConfigValueList |-> 800, FreqList |-> 4 * 48,
           SetProfiles_Args |-> 8 + 4 * 5 * 5, SetOverride_Args |-> 8,
           GetFreqList_Args |-> 8, RawHeader |-> 16, Version |-> 32]

Nothing == 0
NoBuffer == <<>>
ClientCall(in, recv, send, out) == [in |-> in, recv |-> recv, send |-> send, out |-> out]

\* What each function of the client sends: data, buffers to be filled, buffers
\* to be read, and the data it takes from the answer.
Client ==
    [GetApiVersion    |-> ClientCall(Nothing, NoBuffer, NoBuffer, SizeOf.u32),
     GetVersionString |-> ClientCall(Nothing, <<SizeOf.Version>>, NoBuffer, Nothing),
     GetCurrentContext |-> ClientCall(Nothing, <<SizeOf.Context>>, NoBuffer, Nothing),
     GetProfileCount  |-> ClientCall(SizeOf.u64, NoBuffer, NoBuffer, SizeOf.u8),
     SetEnabled       |-> ClientCall(SizeOf.u8, NoBuffer, NoBuffer, Nothing),
     SetOverride      |-> ClientCall(SizeOf.SetOverride_Args, NoBuffer, NoBuffer, Nothing),
     GetProfiles      |-> ClientCall(SizeOf.u64, <<SizeOf.TitleProfileList>>, NoBuffer, Nothing),
     SetProfiles      |-> ClientCall(SizeOf.SetProfiles_Args, NoBuffer, NoBuffer, Nothing),
     GetConfigValues  |-> ClientCall(Nothing, <<SizeOf.ConfigValueList>>, NoBuffer, Nothing),
     SetConfigValues  |-> ClientCall(Nothing, NoBuffer, <<SizeOf.ConfigValueList>>, Nothing),
     GetFreqList      |-> ClientCall(SizeOf.GetFreqList_Args, <<SizeOf.FreqList>>, NoBuffer,
                                     SizeOf.u32),
     SetKipData       |-> ClientCall(SizeOf.u32, NoBuffer, NoBuffer, Nothing),
     GetKipData       |-> ClientCall(SizeOf.u32, NoBuffer, NoBuffer, Nothing)]

Cmds == DOMAIN Client

\* libnx: a request has 16 bytes to align its header with, the header and the
\* data, in whole words; what a message can hold is 256 bytes.
Words(in)   == (16 + SizeOf.RawHeader + in + 3) \div 4
MessageMax  == 256

\* The client asks for a pointer buffer, which the server does not have: every
\* buffer goes the way of a mapped one.
Request(cmd) == [cmdId |-> cmd, num_data_words |-> Words(Client[cmd].in),
                 recv_buffers |-> Client[cmd].recv, send_buffers |-> Client[cmd].send]

-------------------------------------------------------------------------------
(* The sysmodule.                                                          *)

\* _ipcServerParseRequest takes what is behind the header as data, the bytes
\* that align the header included.
ParsedSizeExact(r) ==
    IF r.num_data_words * 4 > SizeOf.RawHeader + 16
    THEN r.num_data_words * 4 - SizeOf.RawHeader - 16 ELSE 0
ParsedSize(r) ==
    IF r.num_data_words * 4 > SizeOf.RawHeader
    THEN r.num_data_words * 4 - SizeOf.RawHeader ELSE 0

HasBuffer(buffers, size) == Len(buffers) >= 1 /\ buffers[1] >= size

\* What ServiceHandlerFunc and GetFreqList ask of a request.
Accepts(r) ==
    LET size == ParsedSize(r)
    IN  CASE r.cmdId = "GetApiVersion"     -> TRUE
          [] r.cmdId = "GetVersionString"  -> HasBuffer(r.recv_buffers, 0)
          [] r.cmdId = "GetCurrentContext" -> /\ size >= SizeOf.u64
                                              /\ HasBuffer(r.recv_buffers, SizeOf.Context)
          [] r.cmdId = "Exit"              -> TRUE
          [] r.cmdId = "GetProfileCount"   -> size >= SizeOf.u64
          [] r.cmdId = "GetProfiles"       -> /\ size >= SizeOf.u64
                                              /\ HasBuffer(r.recv_buffers, SizeOf.TitleProfileList)
          [] r.cmdId = "SetProfiles"       -> size >= SizeOf.SetProfiles_Args
          [] r.cmdId = "SetEnabled"        -> size >= SizeOf.u8
          [] r.cmdId = "SetOverride"       -> size >= SizeOf.SetOverride_Args
          [] r.cmdId = "GetConfigValues"   -> HasBuffer(r.recv_buffers, SizeOf.ConfigValueList)
          [] r.cmdId = "SetConfigValues"   -> HasBuffer(r.send_buffers, SizeOf.ConfigValueList)
          [] r.cmdId = "GetFreqList"       -> /\ size >= SizeOf.GetFreqList_Args
                                              /\ HasBuffer(r.recv_buffers, 0)
                                              /\ r.recv_buffers[1] \div SizeOf.u32 = 48
          [] r.cmdId = "SetKipData"        -> TRUE
          [] OTHER                         -> FALSE

\* The data of the answer.
OutSize(cmd) ==
    CASE cmd \in {"GetApiVersion", "GetFreqList"} -> SizeOf.u32
      [] cmd = "GetProfileCount" -> SizeOf.u8
      [] OTHER -> Nothing

\* What a handler can answer.  SetKipData answers 0 whatever happened to the kip.
Results(cmd, isLoaded) ==
    CASE cmd \in {"GetProfileCount", "GetProfiles", "GetConfigValues"} ->
            {IF isLoaded THEN "ok" ELSE "ConfigNotLoaded"}
      [] cmd \in {"SetProfiles", "SetConfigValues"} ->
            IF isLoaded THEN {"ok", "ConfigSaveFailed"} ELSE {"ConfigNotLoaded"}
      [] OTHER -> {"ok"}

\* A sysmodule of another version answers another API version, and its structures
\* may have any other size.
ServiceHandlerFunc(r, isLoaded, sameVersion) ==
    IF r.cmdId = "GetApiVersion" THEN {"ok"}
    ELSE IF ~sameVersion THEN Results(r.cmdId, isLoaded) \cup {"Generic"}
    ELSE IF Accepts(r) THEN Results(r.cmdId, isLoaded) ELSE {"Generic"}

VARIABLES
    owner,       \* who has registered the name "hoc:clk",
    sysmodule,   \* down, up or asserted,
    loaded,      \* whether its config is loaded,
    same,        \* and whether it is of the overlay's version
    stage,       \* where the overlay is in loadInitialGui,
    active,      \* g_hocclkSrv has a session,
    refCnt,      \* g_refCnt,
    peer,        \* the sessions the sysmodule has with the overlay,
    answer       \* and the last answer

calls == <<owner, sysmodule, loaded, same, stage, active, refCnt, peer, answer>>
client == <<stage, active, refCnt, answer>>

NoAnswer == [cmd |-> "none", rc |-> "ok", out |-> 0]

CallsInit ==
    /\ owner = "nobody" /\ sysmodule = "down" /\ loaded = FALSE
    /\ same \in BOOLEAN
    /\ stage = "off" /\ active = FALSE /\ refCnt = 0 /\ peer = 0
    /\ answer = NoAnswer

\* ipcService::Initialize: a name that is taken ends the sysmodule.
StartSysmodule ==
    /\ sysmodule = "down"
    /\ IF owner = "nobody" THEN sysmodule' = "up" /\ owner' = "sysmodule"
                           ELSE sysmodule' = "asserted" /\ UNCHANGED owner
    /\ loaded' = FALSE
    /\ UNCHANGED <<same, client, peer>>

\* ipcService::Exit: the server's handles are closed and the name given back.
StopSysmodule ==
    /\ sysmodule = "up" /\ sysmodule' = "down"
    /\ owner' = "nobody" /\ peer' = 0 /\ loaded' = FALSE
    /\ UNCHANGED <<same, client>>

LoadConfig ==
    /\ sysmodule = "up" /\ loaded' = ~loaded
    /\ UNCHANGED <<owner, sysmodule, same, client, peer>>

-------------------------------------------------------------------------------
(* The overlay.                                                            *)

StartOverlay ==
    /\ stage = "off" /\ stage' = "probing"
    /\ active' = FALSE /\ refCnt' = 0 /\ answer' = NoAnswer
    /\ UNCHANGED <<owner, sysmodule, loaded, same, peer>>

\* hocclkIpcRunning tries to register the name for itself.
hocclkIpcRunning ==
    /\ stage = "probing"
    /\ IF owner = "nobody" THEN owner' = "overlay" /\ stage' = "unregistering"
                           ELSE UNCHANGED owner /\ stage' = "connecting"
    /\ UNCHANGED <<sysmodule, loaded, same, active, refCnt, answer, peer>>

Unregister ==
    /\ stage = "unregistering" /\ stage' = "fatal" /\ owner' = "nobody"
    /\ UNCHANGED <<sysmodule, loaded, same, active, refCnt, answer, peer>>

\* hocclkIpcExit, given the count and the session.
ExitBeforeCount(n) == [count |-> (n - 1) % RefCounts, closes |-> n = 0]
hocclkIpcExit(n)   == [count |-> (n - 1) % RefCounts, closes |-> (n - 1) % RefCounts = 0]

\* hocclkIpcInitialize; the server may have no session left to give.
hocclkIpcInitialize ==
    /\ stage = "connecting"
    /\ \/ /\ owner = "sysmodule"
          /\ active' = TRUE /\ peer' = peer + 1 /\ refCnt' = refCnt + 1
          /\ stage' = "version"
       \/ /\ refCnt' = hocclkIpcExit(refCnt + 1).count
          /\ stage' = "fatal" /\ UNCHANGED <<active, peer>>
    /\ UNCHANGED <<owner, sysmodule, loaded, same, answer>>

\* A call on the session; one the sysmodule has closed fails.
Dispatch(cmd, then(_)) ==
    \/ /\ peer = 1
       /\ \E rc \in ServiceHandlerFunc(Request(cmd), loaded, same) :
            /\ answer' = [cmd |-> cmd, rc |-> rc, out |-> OutSize(cmd)]
            /\ stage' = then(rc)
    \/ /\ peer = 0
       /\ answer' = [cmd |-> cmd, rc |-> "SessionClosed", out |-> 0]
       /\ stage' = then("SessionClosed")

CheckVersion ==
    /\ stage = "version"
    /\ Dispatch("GetApiVersion", LAMBDA rc : IF rc = "ok" /\ same THEN "main" ELSE "fatal")
    /\ UNCHANGED <<owner, sysmodule, loaded, same, active, refCnt, peer>>

\* The calls of the pages; GetKipData is never made.
Call ==
    /\ stage = "main"
    /\ \E cmd \in Cmds \ {"GetKipData"} : Dispatch(cmd, LAMBDA rc : "main")
    /\ UNCHANGED <<owner, sysmodule, loaded, same, active, refCnt, peer>>

\* exitServices, whatever loadInitialGui came to.
exitServices ==
    /\ stage \in {"main", "fatal"} /\ stage' = "exited"
    /\ refCnt' = hocclkIpcExit(refCnt).count
    /\ IF hocclkIpcExit(refCnt).closes /\ active
       THEN active' = FALSE /\ peer' = 0
       ELSE UNCHANGED <<active, peer>>
    /\ UNCHANGED <<owner, sysmodule, loaded, same, answer>>

\* The process ends, and with it what it left open.
EndOverlay ==
    /\ stage = "exited" /\ stage' = "off"
    /\ peer' = 0 /\ active' = FALSE
    /\ UNCHANGED <<owner, sysmodule, loaded, same, refCnt, answer>>

CallsNext ==
    \/ StartSysmodule \/ StopSysmodule \/ LoadConfig
    \/ StartOverlay \/ hocclkIpcRunning \/ Unregister \/ hocclkIpcInitialize
    \/ CheckVersion \/ Call \/ exitServices \/ EndOverlay

CallsTypeOK ==
    /\ owner \in {"nobody", "overlay", "sysmodule"}
    /\ sysmodule \in {"down", "up", "asserted"}
    /\ {loaded, same, active} \subseteq BOOLEAN
    /\ stage \in {"off", "probing", "unregistering", "connecting", "version", "main",
                  "fatal", "exited"}
    /\ refCnt \in 0..(RefCounts - 1) /\ peer \in 0..1
    /\ answer.cmd \in Cmds \cup {"none"}

\* Every call the overlay makes to a sysmodule of its own version passes the
\* dispatcher's checks, fits into a message, and answers as much data as the
\* client reads: a page sees an error only for a reason of the config or because
\* the sysmodule is gone (ipc_service.cpp:143-244, client/ipc.c:74-161).
CallsUnderstood ==
    answer.cmd # "none" =>
        /\ answer.rc # "Generic"
        /\ answer.rc = "ok" => answer.out = Client[answer.cmd].out
        /\ 8 + 4 * Request(answer.cmd).num_data_words <= MessageMax

\* No call but the one for the version reaches a sysmodule of another version,
\* and when the overlay's services have been exited the sysmodule has no session
\* of it left, however far loadInitialGui came (main.cpp:44-87, ipc.c:50-72).
SessionClosed ==
    /\ stage = "exited" => ~active /\ peer = 0
    /\ (~same /\ answer.cmd # "none") => answer.cmd = "GetApiVersion"
    /\ peer = 1 => active /\ refCnt = 1 /\ owner = "sysmodule"
===============================================================================
