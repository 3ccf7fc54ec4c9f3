------------------------------ MODULE MemTester ------------------------------
(***************************************************************************)
(* MemTesterNX (MemTesterNX/source/main.c): the key that picks the suite,  *)
(* the allocation of all RAM, the three or four workers and the main       *)
(* thread that hands them one job after the other. The two sides share     *)
(* testJobId and testWorkerReport, without a lock, and poll them.          *)
(* The region of one worker, Watched, is modelled word by word; those of   *)
(* the others are sound, and every test passes on them.                    *)
(***************************************************************************)
EXTENDS MemPatterns

CONSTANTS Heaps,      \* the pages of RAM an application may get
          MallocMax,  \* the pages one malloc may give ("HOS limit")
          Watched     \* the worker whose region is modelled

Workers == 0..3
ASSUME MemTesterAssumption == Watched \in Workers
PagesPerMB == 256

VARIABLES dividend, test_select,     \* the suite
          heap, share, testThreads,  \* the pages there are, each worker's, the workers
          fault, mem,                \* Watched's region
          testJobId, testWorkerReport,
          worker,                    \* worker -> [at, currentJobId]
          main                       \* the main thread: [at, i, j, loop]

suite == <<dividend, test_select>>
ram == <<heap, share, testThreads, fault>>
mtVars == <<dividend, test_select, heap, share, testThreads, fault, mem, testJobId,
            testWorkerReport, worker, main>>

Least(a, b) == IF a < b THEN a ELSE b
SumOver(s, n) == Loop([d \in Workers |-> [acc \in Int |-> acc + s[d]]], 0, n)

\* The first allocation: mallocs of up to 2048 MB, until one gives less than 2047.
Wantraw == 2048 * PagesPerMB
FirstGot(h) == [d \in Workers |-> LET rest == h - d * Wantraw
                                  IN  IF rest <= 0 THEN 0 ELSE Least(rest, Wantraw)]
Short(h) == {d \in Workers : FirstGot(h)[d] \div PagesPerMB < 2047}

\* Mutant: the last malloc is not counted.
NumOfMallocsShort(h) ==
    IF Short(h) = {} THEN 0 ELSE CHOOSE d \in Short(h) : \A e \in Short(h) : d <= e

numOfMallocs(h) ==
    IF Short(h) = {} THEN 0 ELSE 1 + (CHOOSE d \in Short(h) : \A e \in Short(h) : d <= e)
Totalmem(h) == SumOver(FirstGot(h), IF Short(h) = {} THEN 4 ELSE numOfMallocs(h))
isDevKit8GB(h) == Totalmem(h) \div PagesPerMB > 3 * 2047
ThreadsFor(h) == IF isDevKit8GB(h) THEN 4 ELSE 3

\* The second: what the first gave back is shared out, after the stacks of the
\* workers and of the key listener are taken from it.
Left(h, n) == h - (IF numOfMallocs(h) = 0 THEN Totalmem(h) ELSE 0) - n - 1
Wanted(h, n) == [d \in Workers |-> IF ~isDevKit8GB(h) THEN (Totalmem(h) - n) \div n
                                   ELSE IF d = 3 THEN 2047 * PagesPerMB
                                   ELSE (Totalmem(h) - n) \div 3]
Give(want, left, s, d) ==
    LET free == left - SumOver(s, d)
    IN  [s EXCEPT ![d] = Least(Least(want[d], MallocMax), IF free < 0 THEN 0 ELSE free)]
Share(h, n) ==
    Loop([d \in Workers |-> [s \in [Workers -> Int] |-> Give(Wanted(h, n), Left(h, n), s, d)]],
         [d \in Workers |-> 0], n)

-----------------------------------------------------------------------------
MemTesterInit ==
    /\ dividend = 1 /\ test_select = "tests"
    /\ heap \in Heaps
    /\ share = [w \in Workers |-> 0] /\ testThreads = 3
    /\ fault \in Faults /\ mem = Fresh(fault)
    /\ testJobId = [w \in Workers |-> 0]
    /\ testWorkerReport = [w \in Workers |-> 0]
    /\ worker = [w \in Workers |-> [at |-> "none", currentJobId |-> -1]]
    /\ main = [at |-> "menu", i |-> -1, j |-> 0, loop |-> 1]

Selected == IF test_select = "tests" THEN tests ELSE stress_tests

\* A, X or Y picks a suite; any other key leaves the program.
Pick(d, table) ==
    /\ main.at = "menu"
    /\ dividend' = d /\ test_select' = table
    /\ main' = [main EXCEPT !.at = "alloc"]
    /\ UNCHANGED <<ram, mem, testJobId, testWorkerReport, worker>>

OtherKey ==
    /\ main.at = "menu"
    /\ main' = [main EXCEPT !.at = "exit"]
    /\ UNCHANGED <<suite, ram, mem, testJobId, testWorkerReport, worker>>

PressKey == Pick(1, "tests") \/ Pick(4, "tests") \/ Pick(16, "stress_tests") \/ OtherKey

Allocate ==
    /\ main.at = "alloc"
    /\ testThreads' = ThreadsFor(heap)
    /\ share' = Share(heap, ThreadsFor(heap))
    /\ main' = [main EXCEPT !.at = "start"]
    /\ UNCHANGED <<suite, heap, fault, mem, testJobId, testWorkerReport, worker>>

Started == 0..(testThreads - 1)
LastOf(j) == j = testThreads - 1

\* A thread that cannot be created or started is only reported.
StartWorkers ==
    /\ main.at = "start"
    /\ \E failed \in {{}} \cup {{w} : w \in Started} :
          worker' = [w \in Workers |-> IF w \in Started \ failed
                                       THEN [worker[w] EXCEPT !.at = "new"] ELSE worker[w]]
    /\ main' = [main EXCEPT !.at = "ready"]
    /\ UNCHANGED <<suite, ram, mem, testJobId, testWorkerReport>>

\* testJobId[j] = -2 for each worker, then the stuck address job.
SetReady ==
    /\ main.at = "ready"
    /\ testJobId' = [testJobId EXCEPT ![main.j] = -2]
    /\ main' = IF LastOf(main.j) THEN [main EXCEPT !.at = "job", !.i = -1, !.j = 0]
               ELSE [main EXCEPT !.j = @ + 1]
    /\ UNCHANGED <<suite, ram, mem, testWorkerReport, worker>>

SetJob ==
    /\ main.at = "job"
    /\ testJobId' = [testJobId EXCEPT ![main.j] = main.i]
    /\ main' = IF LastOf(main.j) THEN [main EXCEPT !.at = "reports", !.j = 0]
               ELSE [main EXCEPT !.j = @ + 1]
    /\ UNCHANGED <<suite, ram, mem, testWorkerReport, worker>>

\* After the last worker's report comes the next test, or the next loop. The
\* loops are counted modulo 2.
NextJob ==
    IF main.i + 1 < Len(Selected) THEN [main EXCEPT !.at = "job", !.i = @ + 1, !.j = 0]
    ELSE [main EXCEPT !.at = "ready", !.i = -1, !.j = 0, !.loop = (@ % 2) + 1]

\* Mutant: the report stays for the next job.
ReportNotReset(reports, j) == reports

\* testWorkerReport[j] = 0
ReportTaken(reports, j) == [reports EXCEPT ![j] = 0]

TakeReport ==
    /\ main.at = "reports" /\ testWorkerReport[main.j] = 1
    /\ testWorkerReport' = ReportTaken(testWorkerReport, main.j)
    /\ main' = IF LastOf(main.j) THEN NextJob ELSE [main EXCEPT !.j = @ + 1]
    /\ UNCHANGED <<suite, ram, mem, testJobId, worker>>

ErrorDetected ==
    /\ main.at = "reports" /\ testWorkerReport[main.j] = -1
    /\ main' = [main EXCEPT !.at = "error"]
    /\ UNCHANGED <<suite, ram, mem, testJobId, testWorkerReport, worker>>

\* waitForAnyKey, and the process ends with its threads.
Exit ==
    /\ main.at = "error"
    /\ main' = [main EXCEPT !.at = "exit"]
    /\ UNCHANGED <<suite, ram, mem, testJobId, testWorkerReport, worker>>

-----------------------------------------------------------------------------
Running == main.at # "exit"

SeesReady(w) ==
    /\ Running /\ worker[w].at = "new" /\ testJobId[w] = -2
    /\ worker' = [worker EXCEPT ![w].at = "polls"]
    /\ UNCHANGED <<suite, ram, mem, testJobId, testWorkerReport, main>>

\* Mutants: every loop begins with the wait for -2; the end of the table is missed.
AfterJobReadyAgain(k) == IF k + 1 < Len(Selected) THEN [at |-> "polls", currentJobId |-> k + 1]
                         ELSE [at |-> "new", currentJobId |-> -1]
AfterJobNoEnd(k) == [at |-> "polls", currentJobId |-> k + 1]

\* What the worker waits for after a job: the next of the table, or -1 again.
AfterJob(k) == IF k + 1 < Len(Selected) THEN [at |-> "polls", currentJobId |-> k + 1]
               ELSE [at |-> "polls", currentJobId |-> -1]

OutcomesOf(w, k) ==
    IF w # Watched \/ share[w] = 0 THEN {[mem |-> mem, rc |-> 0]}
    ELSE IF k = -1 THEN {test_stuck_address(fault, mem, dividend)}
    ELSE Outcomes(Selected[k + 1], fault, mem, dividend)

RunJob(w) ==
    LET k == worker[w].currentJobId
    IN  /\ Running /\ worker[w].at = "polls" /\ testJobId[w] = k
        /\ \E t \in OutcomesOf(w, k) :
              /\ mem' = t.mem
              /\ testWorkerReport' = [testWorkerReport EXCEPT ![w] = IF t.rc = 0 THEN 1 ELSE -1]
              /\ worker' = [worker EXCEPT ![w] = IF t.rc = 0 THEN AfterJob(k)
                                                 ELSE [@ EXCEPT !.at = "ended"]]
        /\ UNCHANGED <<suite, ram, testJobId, main>>

MainStep == Allocate \/ StartWorkers \/ SetReady \/ SetJob \/ TakeReport \/ ErrorDetected
MemTesterNext ==
    \/ PressKey \/ Exit
    \/ Allocate \/ StartWorkers \/ SetReady \/ SetJob \/ TakeReport \/ ErrorDetected
    \/ \E w \in Workers : SeesReady(w) \/ RunJob(w)

\* The threads run; what the user presses, and when, is free.
Fairness ==
    /\ WF_mtVars(MainStep)
    /\ \A w \in Workers : WF_mtVars(SeesReady(w)) /\ WF_mtVars(RunJob(w))

MemTesterSpec == MemTesterInit /\ [][MemTesterNext]_mtVars /\ Fairness

-----------------------------------------------------------------------------
TypeOK ==
    /\ dividend \in {1, 4, 16} /\ test_select \in {"tests", "stress_tests"}
    /\ heap \in Heaps /\ share \in [Workers -> Nat] /\ testThreads \in {3, 4}
    /\ fault \in Faults /\ DOMAIN mem = Cells /\ \A c \in Cells : mem[c] \subseteq BitIndex
    /\ testJobId \in [Workers -> -2..14] /\ testWorkerReport \in [Workers -> -1..1]
    /\ worker \in [Workers -> [at : {"none", "new", "polls", "ended"}, currentJobId : -1..14]]
    /\ main \in [at : {"menu", "alloc", "start", "ready", "job", "reports", "error", "exit"},
                 i : -1..14, j : Workers, loop : 1..2]

\* "Error detected!" is only shown for a region with a fault: the comparison
\* tests work on what the test before left in the two halves, so each of them
\* must leave them equal, and the address test, which does not, must be followed
\* by one that writes both (main.c:91-119, tests.c).
SoundMemoryPasses ==
    \A w \in Workers : testWorkerReport[w] = -1 => w = Watched /\ fault.kind # "none"

\* A region with a stuck bit or with two addresses for one cell never passes the
\* address test of the long and the fast suite, and a region where the write of
\* a later word disturbs an earlier one never passes the long one; the fast suite
\* does pass one when the bit is high in the word (tests.c:69-102, 260-460).
FaultsFound ==
    share[Watched] > 0 =>
        /\ dividend # 16 /\ main.i >= 0 => fault.kind \notin {"stuck", "alias"}
        /\ dividend = 1 /\ main.loop = 2 => fault.kind # "coupled"

\* A job counts as passed by a worker only when that worker has run that very
\* job: a report is taken once, and none is left over for the next job
\* (main.c:142-183, 434-485).
ReportIsOfThisJob ==
    main.at = "reports" =>
        \A w \in Started :
            /\ w < main.j => worker[w].currentJobId = AfterJob(main.i).currentJobId
            /\ testWorkerReport[w] = 1 =>
                  w >= main.j /\ worker[w].currentJobId = AfterJob(main.i).currentJobId

\* "Support full RAM test (up to 8GB) with 3-4 threads" (main.c:256): the workers
\* get all the RAM the first allocation found, but for the stacks and the
\* remainder of the division.
AllRamShared ==
    main.at = "start" =>
        SumOver(share, testThreads) >= Least(heap, 4 * 2047 * PagesPerMB) - 2 * (testThreads + 1)

\* Below 8191 MB, where four mallocs that all give 2047 MB would end the search
\* with nothing counted (main.c:322), on a system that gives 2048 MB at once.
HeapsFit == Heaps \subseteq 4..(8191 * PagesPerMB - 1) /\ MallocMax \in Nat /\ MallocMax >= Wantraw

\* "It will be looping forever until error occurs or user exits" (main.c:257):
\* once every worker has seen that main is ready, the loops on sound memory go on
\* for ever.
Ready == \A w \in Started : worker[w].at = "polls"
LoopsOn == [](Ready /\ fault.kind = "none" => []<>(main.at = "ready"))

\* The verdict can be relied on: all RAM is tested, sound memory passes, and a
\* report is counted for the test it is about (main.c, tests.c).
VerdictRight == SoundMemoryPasses /\ ReportIsOfThisJob /\ AllRamShared

\* The region is tested: a memory of words, in which faults of the kinds a suite
\* is for are found (tests.c).
RegionTested == TypeOK /\ FaultsFound
=============================================================================
