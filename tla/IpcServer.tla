------------------------------ MODULE IpcServer ------------------------------
(***************************************************************************)
(* The service of the sysmodule: the table of handles of ipc_server.c, the *)
(* thread of ipc_service.cpp that serves one handle at a time, and the     *)
(* part of main.cpp that starts and stops it.                              *)
(*                                                                         *)
(* Sessions are kernel objects with two ends.  A client may close its end  *)
(* at any moment, while its request waits or is being handled included;    *)
(* the object can be used for another client once both ends are closed.    *)
(***************************************************************************)
EXTENDS Integers, FiniteSets, SequencesExt

CONSTANTS Session,      \* the session objects of the kernel
          MaxSessions   \* max_sessions of ipcServerInit

ASSUME IpcServerAssumption ==
    /\ IsFiniteSet(Session)
    /\ MaxSessions \in Nat \ {0}

\* A command whatever it returns (a message of another type gets an error and
\* is a command here), the command that ends the program, a close message of
\* the client library, and a request without the magic word.
Handled == {"command", "exit", "close"}
NoRequest == "none"
Request == Handled \cup {"malformed"}

VARIABLES
    client,   \* the sessions whose client end is open
    req,      \* the request of each session that has no reply yet
    port,     \* the connections waiting to be accepted, in order
    opened,   \* the sessions whose server end this process has open
    table,    \* handles[1 .. count - 1]; handles[0] is the port
    tpc,      \* where the service's thread is in ipcServerProcess
    index,    \* handleIndex
    got,      \* the request being handled
    cancel,   \* svcCancelSynchronization has been called on the thread
    running,  \* gRunning of the clock manager, the condition of main's loop
    mpc       \* how far main is

kernelVars == <<client, req, port, opened>>
threadVars == <<table, tpc, index, got, cancel>>
mainVars == <<running, mpc>>
vars == <<kernelVars, threadVars, mainVars>>

\* The sessions the kernel counts against the limit of the port.
Live == client \cup opened \cup Range(port)

Connected(s) == s \in client /\ s \in opened \cup Range(port)

Init ==
    /\ client = {} /\ req = [s \in Session |-> NoRequest] /\ port = <<>>
    /\ opened = {} /\ table = <<>>
    /\ tpc = "created" /\ index = 0 /\ got = NoRequest /\ cancel = FALSE
    /\ running = FALSE /\ mpc = "initialized"

-----------------------------------------------------------------------------
(* The clients, and the kernel between them and the service.               *)

\* The port is registered until main is done, for MaxSessions sessions.
Connect(s) ==
    /\ mpc # "done"
    /\ s \in Session \ Live
    /\ Cardinality(Live) < MaxSessions
    /\ client' = client \cup {s}
    /\ port' = Append(port, s)
    /\ UNCHANGED <<req, opened, threadVars, mainVars>>

\* A client waits for the reply before it asks again.
Ask(s, r) ==
    /\ Connected(s) /\ req[s] = NoRequest
    /\ req' = [req EXCEPT ![s] = r]
    /\ UNCHANGED <<client, port, opened, threadVars, mainVars>>

\* serviceClose, or the end of the client's process.
Leave(s) ==
    /\ s \in client
    /\ client' = client \ {s}
    /\ req' = [req EXCEPT ![s] = NoRequest]
    /\ UNCHANGED <<port, opened, threadVars, mainVars>>

Clients ==
    \E s \in Session : Connect(s) \/ Leave(s) \/ \E r \in Request : Ask(s, r)

-----------------------------------------------------------------------------
(* The table.                                                              *)

FullWithoutPort == Len(table) + 1 >= MaxSessions

Full == Len(table) + 1 >= MaxSessions + 1

\* The client of a closed handle gets an error for the request it waits on.
CloseHandle(s) ==
    /\ opened' = opened \ {s}
    /\ req' = [req EXCEPT ![s] = NoRequest]

DeleteSessionNoShift(i) ==
    /\ CloseHandle(table[i])
    /\ table' = Front(table)

DeleteSessionNoClose(i) ==
    /\ table' = RemoveAt(table, i)
    /\ UNCHANGED <<opened, req>>

DeleteSession(i) ==
    /\ CloseHandle(table[i])
    /\ table' = RemoveAt(table, i)

-----------------------------------------------------------------------------
(* ipcServerProcess, again and again.                                      *)

\* A session is signalled by a request, and when its client end is closed.
Signalled(i) == req[table[i]] # NoRequest \/ table[i] \notin client

\* svcWaitSynchronization looks at the port first, then at the sessions in the
\* order of the table; it sees that it is cancelled only when none is signalled.
WaitPort ==
    /\ port # <<>>
    /\ tpc' = "new"
    /\ UNCHANGED <<index, cancel>>

WaitSession ==
    /\ port = <<>>
    /\ \E i \in DOMAIN table :
        /\ Signalled(i)
        /\ \A j \in 1..(i - 1) : ~Signalled(j)
        /\ index' = i
    /\ tpc' = "receive"
    /\ UNCHANGED cancel

WaitCancelled ==
    /\ port = <<>> /\ \A i \in DOMAIN table : ~Signalled(i)
    /\ cancel
    /\ cancel' = FALSE
    /\ tpc' = "ended"
    /\ UNCHANGED index

Wait ==
    /\ tpc = "wait"
    /\ WaitPort \/ WaitSession \/ WaitCancelled
    /\ UNCHANGED <<kernelVars, table, got, mainVars>>

\* _ipcServerProcessNewSession and _ipcServerAddSession.
NewSession ==
    /\ tpc = "new"
    /\ port' = Tail(port)
    /\ IF Full
       THEN req' = [req EXCEPT ![Head(port)] = NoRequest] /\ UNCHANGED <<opened, table>>
       ELSE /\ opened' = opened \cup {Head(port)}
            /\ table' = Append(table, Head(port))
            /\ UNCHANGED req
    /\ tpc' = "wait"
    /\ UNCHANGED <<client, index, got, cancel, mainVars>>

\* Two ways to get the failure path wrong: a request is handled without a look
\* at its magic word, and a session whose client has left is not deleted.
ReceiveUnparsed ==
    /\ tpc = "receive"
    /\ IF req[table[index]] \in Request
       THEN /\ got' = req[table[index]]
            /\ running' = (running /\ got' # "exit")
            /\ tpc' = "reply"
            /\ UNCHANGED <<req, opened, table>>
       ELSE DeleteSession(index) /\ tpc' = "wait" /\ UNCHANGED <<got, running>>
    /\ UNCHANGED <<client, port, index, cancel, mpc>>

ReceiveKeeps ==
    /\ tpc = "receive"
    /\ IF req[table[index]] \in Handled
       THEN /\ got' = req[table[index]]
            /\ running' = (running /\ got' # "exit")
            /\ tpc' = "reply"
       ELSE tpc' = "wait" /\ UNCHANGED <<got, running>>
    /\ UNCHANGED <<client, req, port, opened, table, index, cancel, mpc>>

\* The first half of _ipcServerProcessSession: receive, parse, and the handler,
\* of which only ExitHandler concerns the service.
Receive ==
    /\ tpc = "receive"
    /\ IF req[table[index]] \in Handled
       THEN /\ got' = req[table[index]]
            /\ running' = (running /\ got' # "exit")
            /\ tpc' = "reply"
            /\ UNCHANGED <<req, opened, table>>
       ELSE DeleteSession(index) /\ tpc' = "wait" /\ UNCHANGED <<got, running>>
    /\ UNCHANGED <<client, port, index, cancel, mpc>>

ReplyTimesOut ==
    /\ tpc = "reply"
    /\ DeleteSession(index)
    /\ tpc' = "wait"
    /\ UNCHANGED <<client, port, index, got, cancel, mainVars>>

\* The second half: the reply, which fails when the client has left meanwhile.
\* A reply that is sent "fails" with TimedOut, which is none.
Reply ==
    /\ tpc = "reply"
    /\ IF table[index] \in client /\ got # "close"
       THEN req' = [req EXCEPT ![table[index]] = NoRequest] /\ UNCHANGED <<opened, table>>
       ELSE DeleteSession(index)
    /\ tpc' = "wait"
    /\ UNCHANGED <<client, port, index, got, cancel, mainVars>>

Thread == Wait \/ NewSession \/ Receive \/ Reply

-----------------------------------------------------------------------------
(* main.                                                                   *)

MainStartsEarly ==
    \/ /\ mpc = "initialized"
       /\ tpc' = "wait"
       /\ mpc' = "enabled"
       /\ UNCHANGED <<kernelVars, table, index, got, cancel, running>>
    \/ /\ mpc = "enabled"
       /\ running' = TRUE
       /\ mpc' = "loop"
       /\ UNCHANGED <<kernelVars, threadVars>>

\* clockManager::SetRunning(true), then ipcService::SetRunning(true).
MainStarts ==
    \/ /\ mpc = "initialized"
       /\ running' = TRUE
       /\ mpc' = "enabled"
       /\ UNCHANGED <<kernelVars, threadVars>>
    \/ /\ mpc = "enabled"
       /\ tpc' = "wait"
       /\ mpc' = "loop"
       /\ UNCHANGED <<kernelVars, table, index, got, cancel, running>>

MainStopsSilently ==
    /\ mpc = "loop" /\ ~running
    /\ mpc' = "join"
    /\ UNCHANGED <<kernelVars, threadVars, running>>

\* The loop ends, ipcService::SetRunning(false) cancels the thread's wait.
MainStops ==
    /\ mpc = "loop" /\ ~running
    /\ cancel' = TRUE
    /\ mpc' = "join"
    /\ UNCHANGED <<kernelVars, table, tpc, index, got, running>>

\* threadWaitForExit returns, ipcServerExit closes the port, what waits there
\* with it, and every session of the table.
MainExits ==
    /\ mpc = "join" /\ tpc = "ended"
    /\ opened' = opened \ Range(table)
    /\ table' = <<>>
    /\ port' = <<>>
    /\ req' = [s \in Session |-> IF s \in Range(table) \cup Range(port)
                                 THEN NoRequest ELSE req[s]]
    /\ mpc' = "done"
    /\ UNCHANGED <<client, tpc, index, got, cancel, running>>

Main == MainStarts \/ MainStops \/ MainExits

Next == Clients \/ Thread \/ Main

Spec == Init /\ [][Next]_vars

\* The thread and main run for ever; clients do as they like.
FairSpec == Spec /\ WF_vars(Thread) /\ WF_vars(Main)

-----------------------------------------------------------------------------
(* Properties.                                                             *)

\* The kinds of the variables; a request is handled only once it has parsed.
TypeOK ==
    /\ client \subseteq Session /\ opened \subseteq Session
    /\ req \in [Session -> Request \cup {NoRequest}]
    /\ port \in Seq(Session) /\ table \in Seq(Session)
    /\ tpc \in {"created", "wait", "new", "receive", "reply", "ended"}
    /\ index \in Nat /\ got \in Handled \cup {NoRequest}
    /\ cancel \in BOOLEAN /\ running \in BOOLEAN
    /\ mpc \in {"initialized", "enabled", "loop", "join", "done"}

\* The table holds the open handles and nothing else, each once, whatever was
\* closed in between (_ipcServerDeleteSession shifts the rest): no handle leaks
\* when its entry is overwritten, none is waited on after it has been closed.
HandlesMatch ==
    /\ Range(table) = opened
    /\ IsInjective(table)

\* A connection the kernel let through finds room in the table: the server's
\* max of max_sessions + 1 counts the port, and sessions are taken out of the
\* table before the kernel gives their place to another client.
NoneRefused == tpc = "new" => ~Full

\* What makes both inductive: the kernel counts every session in the table and
\* on the port once, and nobody waits on a closed one; index stays an entry of
\* the table between the wait and the reply, with the request of that session.
SessionInv ==
    /\ HandlesMatch
    /\ IsInjective(port)
    /\ Range(port) \cap opened = {}
    /\ Cardinality(Live) <= MaxSessions
    /\ \A s \in Session : req[s] # NoRequest => Connected(s)

ThreadInv ==
    /\ tpc = "new" => port # <<>>
    /\ tpc \in {"receive", "reply"} => index \in DOMAIN table
    /\ tpc = "receive" => Signalled(index)
    /\ tpc = "reply" => /\ got \in Handled
                        /\ req[table[index]] = got \/ table[index] \notin client

IpcInv == SessionInv /\ ThreadInv

\* The service closes a session only when its client has left or asked for it,
\* when what it sent does not parse, or at the end of the program: a command
\* that fails, or a reply that "timed out", closes nothing.
ClosedForCause ==
    [][\A s \in opened \ opened' :
          s \notin client \/ req[s] \in {"close", "malformed"} \/ mpc' = "done"]_vars

\* The thread serves the port, or a session before s in the table.
Overtaken(s) ==
    \/ tpc = "new"
    \/ tpc = "receive" /\ \E i \in DOMAIN table : table[i] = s /\ index < i

\* A request is answered, or its session closed, unless new connections and
\* sessions earlier in the table keep the thread busy for ever: the wait has no
\* other order than that of the table.
RequestsAnswered ==
    \A s \in Session : []<>(req[s] = NoRequest) \/ []<>Overtaken(s)

\* The same for the server end of a session whose client has left, also in the
\* middle of a request: it does not stay open.
ClosedAreFreed ==
    \A s \in Session : []<>(s \in client \/ s \notin opened) \/ []<>Overtaken(s)

\* An exit command ends main's loop: the thread that may receive one is started
\* after the loop's condition has been set.
ExitStops == tpc = "reply" /\ got = "exit" ~> mpc \in {"join", "done"}

\* Main gets past threadWaitForExit unless clients go on connecting and asking:
\* the cancellation reaches a thread that is busy when it is called, too.
StopEnds == []<>(mpc # "join") \/ []<><<Clients>>_vars

\* The service ends when it is asked to and does not keep main from ending.
ServiceEnds == ExitStops /\ StopEnds
=============================================================================
