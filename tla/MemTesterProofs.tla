--------------------------- MODULE MemTesterProofs ----------------------------
(***************************************************************************)
(* MemTesterNX: the main thread and its workers share testJobId and        *)
(* testWorkerReport without a lock, and yet a report is always taken for   *)
(* the job it is about, whatever the tests do to the memory; and on sound  *)
(* memory no test reports an error.                                        *)
(***************************************************************************)
EXTENDS MemTester, WellFoundedInduction, TLAPS

\* The worker has not yet run job i; it may still wait for -2, or not exist.
Waits(w, i) ==
    /\ worker[w].currentJobId = i /\ worker[w].at # "ended"
    /\ testWorkerReport[w] = 0

\* Job i was set for the worker, which may have run it, well or not.
Passed(w, i) == worker[w] = AfterJob(i) /\ testWorkerReport[w] = 1
Failed(w) == worker[w].at = "ended" /\ testWorkerReport[w] = -1
Issued(w, i) == testJobId[w] = i /\ (Waits(w, i) \/ Passed(w, i) \/ Failed(w))

\* Main has taken the report of the worker on job i.
Taken(w, i) ==
    testJobId[w] = i /\ worker[w] = AfterJob(i) /\ testWorkerReport[w] = 0

\* The job is not yet set for the worker, which does not mistake the last for it.
Due(w, i) == testJobId[w] # i /\ Waits(w, i)

\* The address test is job -1, the tests of the table follow.
JobNumbers == -1..(Len(Selected) - 1)

\* The variables both sides share and their own places; the memory is of no concern.
MainType ==
    [at : {"menu", "alloc", "start", "ready", "job", "reports", "error", "exit"},
     i : Int, j : Workers, loop : Nat]

HandshakeTypes ==
    /\ test_select \in {"tests", "stress_tests"} /\ testThreads \in {3, 4}
    /\ testJobId \in [Workers -> Int] /\ testWorkerReport \in [Workers -> Int]
    /\ worker \in [Workers -> [at : {"none", "new", "polls", "ended"}, currentJobId : Int]]
    /\ main \in MainType

\* Nothing was set or reported before the workers are started.
BeforeStart ==
    main.at \in {"menu", "alloc", "start"} =>
        /\ main.i = -1 /\ main.j = 0
        /\ \A w \in Workers : /\ worker[w] = [at |-> "none", currentJobId |-> -1]
                              /\ testJobId[w] = 0 /\ testWorkerReport[w] = 0

\* Only the workers main counts on ever leave the place they start from.
OnlyStartedRun ==
    main.at \in {"ready", "job", "reports"} =>
        /\ main.j \in Started
        /\ \A w \in Workers \ Started : worker[w].at = "none"

\* A round of ready signals, one of setting the job, one of taking the reports: the
\* workers main has been at, and those it has still to come to.
ReadyPhase ==
    main.at = "ready" => main.i = -1 /\ \A w \in Started : Due(w, -1)

JobPhase ==
    main.at = "job" =>
        /\ main.i \in JobNumbers
        /\ \A w \in Started : IF w < main.j THEN Issued(w, main.i) ELSE Due(w, main.i)

ReportPhase ==
    main.at = "reports" =>
        /\ main.i \in JobNumbers
        /\ \A w \in Started : IF w < main.j THEN Taken(w, main.i) ELSE Issued(w, main.i)

\* ReportIsOfThisJob is about the reports only; it is kept because no number of an
\* earlier job is one a worker still polls for, which the other phases say.
HandshakeIInv ==
    /\ HandshakeTypes /\ BeforeStart /\ OnlyStartedRun
    /\ ReadyPhase /\ JobPhase /\ ReportPhase

-----------------------------------------------------------------------------
\* Both tables hold a test (tests[] fifteen, stress_tests[] three), so a worker
\* never waits twice in a row for one job number.
LEMMA TableLength ==
    ASSUME test_select \in {"tests", "stress_tests"}
    PROVE  Len(Selected) \in {15, 3}
<1>1. Len(tests) = 15
  BY DEF tests
<1>2. Len(stress_tests) = 3
  BY DEF stress_tests
<1> QED
  BY <1>1, <1>2 DEF Selected

\* What a worker waits for after a job is never that job.
LEMMA AfterJobMovesOn ==
    ASSUME test_select \in {"tests", "stress_tests"}, NEW k \in JobNumbers
    PROVE  /\ AfterJob(k).at = "polls" /\ AfterJob(k).currentJobId \in JobNumbers
           /\ AfterJob(k).currentJobId # k
  BY TableLength DEF AfterJob, JobNumbers

\* A worker keeps its shape, whatever job it has run.
LEMMA AfterJobType ==
    ASSUME test_select \in {"tests", "stress_tests"}, NEW k \in Int
    PROVE  AfterJob(k) \in [at : {"none", "new", "polls", "ended"}, currentJobId : Int]
  BY TableLength DEF AfterJob

\* Main keeps its shape as it goes round the workers and the jobs.
LEMMA MainMoves ==
    ASSUME NEW m \in MainType, NEW a \in {"ready", "job", "reports"}, NEW n \in Int,
           NEW l \in Nat
    PROVE  /\ [m EXCEPT !.at = a, !.j = 0] \in MainType
           /\ [m EXCEPT !.at = a, !.i = n, !.j = 0] \in MainType
           /\ [m EXCEPT !.at = a, !.i = n, !.j = 0, !.loop = l] \in MainType
<1>1. 0 \in Workers
  BY DEF Workers
<1>2. [m EXCEPT !.at = a, !.j = 0] \in MainType
  BY <1>1 DEF MainType
<1>3. [m EXCEPT !.at = a, !.i = n, !.j = 0] \in MainType
  BY <1>1 DEF MainType
<1>4. [m EXCEPT !.at = a, !.i = n, !.j = 0, !.loop = l] \in MainType
  BY <1>1 DEF MainType
<1> QED
  BY <1>2, <1>3, <1>4

\* Writing one worker's number or report.
LEMMA UpdateKeepsType ==
    ASSUME NEW f \in [Workers -> Int], NEW w, NEW n \in Int
    PROVE  [f EXCEPT ![w] = n] \in [Workers -> Int]
  OBVIOUS

\* The invariant holds at the menu.
LEMMA HandshakeInit == MemTesterInit => HandshakeIInv
<1> SUFFICES ASSUME MemTesterInit PROVE HandshakeIInv
  OBVIOUS
<1> USE DEF MemTesterInit
<1>1. HandshakeTypes
  BY DEF HandshakeTypes, MainType, Workers
<1>2. BeforeStart
  BY DEF BeforeStart, Workers
<1> QED
  BY <1>1, <1>2 DEF HandshakeIInv, OnlyStartedRun, ReadyPhase, JobPhase, ReportPhase

\* A stutter changes nothing the invariant speaks of.
LEMMA HandshakeStutter == HandshakeIInv /\ UNCHANGED mtVars => HandshakeIInv'
  BY DEF HandshakeIInv, HandshakeTypes, MainType, BeforeStart, OnlyStartedRun, ReadyPhase, JobPhase,
         ReportPhase, mtVars, Started, JobNumbers, Selected, Due, Issued, Taken, Waits, Passed,
         Failed, AfterJob

\* Up to the ready signals nothing runs: a key, the allocation.
LEMMA KeepsMenu == HandshakeIInv /\ PressKey => HandshakeIInv'
<1> SUFFICES ASSUME HandshakeIInv, PressKey PROVE HandshakeIInv'
  OBVIOUS
<1>1. /\ main.at = "menu"
      /\ main' = [main EXCEPT !.at = "alloc"] \/ main' = [main EXCEPT !.at = "exit"]
      /\ test_select' \in {"tests", "stress_tests"}
      /\ UNCHANGED <<ram, testJobId, testWorkerReport, worker>>
  BY DEF PressKey, Pick, OtherKey, suite, HandshakeIInv, HandshakeTypes, MainType
<1>2. main'.at \in {"alloc", "exit"} /\ main'.i = main.i /\ main'.j = main.j
  BY <1>1 DEF HandshakeIInv, HandshakeTypes, MainType
<1>3. HandshakeTypes'
  BY <1>1 DEF HandshakeIInv, HandshakeTypes, MainType, ram
<1>4. BeforeStart'
  BY <1>1, <1>2 DEF HandshakeIInv, BeforeStart
<1> QED
  BY <1>2, <1>3, <1>4 DEF HandshakeIInv, OnlyStartedRun, ReadyPhase, JobPhase, ReportPhase

\* The allocation only fixes how many workers there are.
LEMMA KeepsAllocate == HandshakeIInv /\ Allocate => HandshakeIInv'
<1> SUFFICES ASSUME HandshakeIInv, Allocate PROVE HandshakeIInv'
  OBVIOUS
<1>1. /\ main.at = "alloc" /\ main' = [main EXCEPT !.at = "start"]
      /\ testThreads' \in {3, 4}
      /\ UNCHANGED <<test_select, testJobId, testWorkerReport, worker>>
  BY DEF Allocate, suite, ThreadsFor
<1>2. main'.at = "start" /\ main'.i = main.i /\ main'.j = main.j
  BY <1>1 DEF HandshakeIInv, HandshakeTypes, MainType
<1>3. HandshakeTypes'
  BY <1>1 DEF HandshakeIInv, HandshakeTypes, MainType
<1>4. BeforeStart'
  BY <1>1, <1>2 DEF HandshakeIInv, BeforeStart
<1> QED
  BY <1>2, <1>3, <1>4 DEF HandshakeIInv, OnlyStartedRun, ReadyPhase, JobPhase, ReportPhase

\* The workers that start wait for their first job, the address test.
LEMMA KeepsStart == HandshakeIInv /\ StartWorkers => HandshakeIInv'
<1> SUFFICES ASSUME HandshakeIInv, StartWorkers PROVE HandshakeIInv'
  OBVIOUS
<1>1. PICK failed : worker' = [w \in Workers |-> IF w \in Started \ failed
                                     THEN [worker[w] EXCEPT !.at = "new"] ELSE worker[w]]
  BY DEF StartWorkers
<1>2. /\ main.at = "start" /\ main' = [main EXCEPT !.at = "ready"]
      /\ UNCHANGED <<test_select, testThreads, testJobId, testWorkerReport>>
  BY DEF StartWorkers, suite, ram
<1>3. main'.at = "ready" /\ main'.i = -1 /\ main'.j = 0
  BY <1>2 DEF HandshakeIInv, HandshakeTypes, MainType, BeforeStart
<1>4. \A w \in Workers : /\ worker[w] = [at |-> "none", currentJobId |-> -1]
                         /\ testJobId[w] = 0 /\ testWorkerReport[w] = 0
  BY <1>2 DEF HandshakeIInv, BeforeStart
<1>5. \A w \in Workers : /\ worker'[w].at \in {"none", "new"} /\ worker'[w].currentJobId = -1
                         /\ w \notin Started => worker'[w].at = "none"
                         /\ worker'[w] \in [at : {"none", "new", "polls", "ended"},
                                            currentJobId : Int]
  BY <1>1, <1>4
<1>6. HandshakeTypes'
  BY <1>1, <1>2, <1>5 DEF HandshakeIInv, HandshakeTypes, MainType
<1>7. OnlyStartedRun'
  BY <1>2, <1>3, <1>5 DEF OnlyStartedRun, Started, HandshakeIInv, HandshakeTypes, MainType
<1>8. ReadyPhase'
  BY <1>2, <1>3, <1>4, <1>5
     DEF ReadyPhase, Started, Due, Waits, HandshakeIInv, HandshakeTypes, MainType, Workers
<1> QED
  BY <1>3, <1>6, <1>7, <1>8 DEF HandshakeIInv, BeforeStart, JobPhase, ReportPhase

-----------------------------------------------------------------------------
\* Main alone: a worker's standing is that of before unless its job number or
\* its report is written.
LEMMA StandingKept ==
    ASSUME UNCHANGED <<test_select, worker>>, NEW w \in Workers, NEW i,
           testJobId'[w] = testJobId[w], testWorkerReport'[w] = testWorkerReport[w]
    PROVE  /\ Due(w, i)' = Due(w, i)
           /\ Issued(w, i)' = Issued(w, i)
           /\ Taken(w, i)' = Taken(w, i)
<1>1. AfterJob(i)' = AfterJob(i)
  BY DEF AfterJob, Selected
<1>2. Due(w, i)' = Due(w, i)
  BY DEF Due, Waits
<1>3. Issued(w, i)' = Issued(w, i)
  BY <1>1 DEF Issued, Waits, Passed, Failed
<1>4. Taken(w, i)' = Taken(w, i)
  BY <1>1 DEF Taken
<1> QED
  BY <1>2, <1>3, <1>4

\* Main's place in a round over the workers.
LEMMA Places ==
    ASSUME HandshakeTypes, main.j \in Started
    PROVE  /\ testThreads \in {3, 4} /\ Started = 0..(testThreads - 1)
           /\ main.j \in Nat /\ main.j < testThreads
           /\ LastOf(main.j) => \A w \in Started : w < main.j \/ w = main.j
           /\ ~LastOf(main.j) => main.j + 1 \in Started
           /\ \A w \in Started : /\ w < main.j + 1 <=> w < main.j \/ w = main.j
                                 /\ w \in Workers /\ w \in Nat
  BY DEF HandshakeTypes, MainType, Started, LastOf, Workers

\* A number of -2 is no job: no worker is made to run by it.
LEMMA KeepsSetReady == HandshakeIInv /\ SetReady => HandshakeIInv'
<1> SUFFICES ASSUME HandshakeIInv, SetReady PROVE HandshakeIInv'
  OBVIOUS
<1>1. /\ main.at = "ready" /\ testJobId' = [testJobId EXCEPT ![main.j] = -2]
      /\ main' = IF LastOf(main.j) THEN [main EXCEPT !.at = "job", !.i = -1, !.j = 0]
                 ELSE [main EXCEPT !.j = @ + 1]
      /\ UNCHANGED <<test_select, testThreads, testWorkerReport, worker>>
  BY DEF SetReady, suite, ram
<1>2. HandshakeTypes /\ main.j \in Started /\ main.i = -1
  BY <1>1 DEF HandshakeIInv, OnlyStartedRun, ReadyPhase
<1>3. /\ main'.at \in {"ready", "job"} /\ main'.i = -1
      /\ main'.j \in Started
      /\ main'.at = "job" => main'.j = 0
  BY <1>1, <1>2, Places DEF HandshakeTypes, MainType
<1>4. Started' = Started
  BY <1>1 DEF Started
<1>5. HandshakeTypes'
  <2>1. main' \in MainType
    <3>1. CASE LastOf(main.j)
      <4>1. main \in MainType /\ -1 \in Int
        BY <1>2 DEF HandshakeTypes
      <4> QED
        BY <1>1, <3>1, <4>1, MainMoves
    <3>2. CASE ~LastOf(main.j)
      BY <1>1, <1>2, <3>2, Places DEF HandshakeTypes, MainType
    <3> QED
      BY <3>1, <3>2
  <2>2. testJobId' \in [Workers -> Int]
    <3>1. testJobId \in [Workers -> Int] /\ -2 \in Int
      BY <1>2 DEF HandshakeTypes
    <3> QED
      BY <1>1, <3>1, UpdateKeepsType
  <2> QED
    BY <1>1, <1>2, <2>1, <2>2 DEF HandshakeTypes
<1>6. OnlyStartedRun'
  BY <1>1, <1>3, <1>4 DEF HandshakeIInv, OnlyStartedRun
<1>7. \A w \in Started : Due(w, -1)'
  BY <1>1, <1>2, Places DEF HandshakeIInv, ReadyPhase, Due, Waits, HandshakeTypes, MainType
<1>8. ReadyPhase'
  BY <1>3, <1>4, <1>7 DEF ReadyPhase
<1>9. JobPhase'
  <2> SUFFICES ASSUME main'.at = "job", NEW w \in Started
               PROVE -1 \in JobNumbers' /\ IF w < main'.j THEN Issued(w, -1)' ELSE Due(w, -1)'
    BY <1>2, <1>3, <1>4 DEF JobPhase
  <2>1. -1 \in JobNumbers'
    BY <1>1, <1>2, TableLength DEF JobNumbers, Selected, HandshakeTypes
  <2>2. ~(w < main'.j)
    BY <1>2, <1>3, Places
  <2> QED
    BY <1>7, <2>1, <2>2
<1> QED
  BY <1>3, <1>5, <1>6, <1>8, <1>9 DEF HandshakeIInv, BeforeStart, ReportPhase

\* Setting a worker's number issues the job to that worker and to no other.
LEMMA KeepsSetJob == HandshakeIInv /\ SetJob => HandshakeIInv'
<1> SUFFICES ASSUME HandshakeIInv, SetJob PROVE HandshakeIInv'
  OBVIOUS
<1>0. PICK i, j : i = main.i /\ j = main.j
  OBVIOUS
<1>1. /\ main.at = "job" /\ testJobId' = [testJobId EXCEPT ![j] = i]
      /\ main' = IF LastOf(j) THEN [main EXCEPT !.at = "reports", !.j = 0]
                 ELSE [main EXCEPT !.j = @ + 1]
      /\ UNCHANGED <<test_select, testThreads, testWorkerReport, worker>>
  BY <1>0 DEF SetJob, suite, ram
<1>2. HandshakeTypes /\ j \in Started /\ i \in JobNumbers
  BY <1>0, <1>1 DEF HandshakeIInv, OnlyStartedRun, JobPhase
<1>3. /\ main'.i = i /\ main'.j \in Started
      /\ IF LastOf(j) THEN main'.at = "reports" /\ main'.j = 0
         ELSE main'.at = "job" /\ main'.j = j + 1
  BY <1>0, <1>1, <1>2, Places DEF HandshakeTypes, MainType
<1>4. Started' = Started /\ JobNumbers' = JobNumbers
  BY <1>1 DEF Started, JobNumbers, Selected
<1>5. HandshakeTypes'
  <2>1. main' \in MainType
    <3>1. CASE LastOf(j)
      <4>1. main \in MainType /\ -1 \in Int
        BY <1>2 DEF HandshakeTypes
      <4> QED
        BY <1>1, <3>1, <4>1, MainMoves
    <3>2. CASE ~LastOf(j)
      BY <1>0, <1>1, <1>2, <3>2, Places DEF HandshakeTypes, MainType
    <3> QED
      BY <3>1, <3>2
  <2>2. testJobId' \in [Workers -> Int]
    <3>1. testJobId \in [Workers -> Int] /\ i \in Int
      BY <1>2 DEF HandshakeTypes, JobNumbers
    <3> QED
      BY <1>1, <3>1, UpdateKeepsType
  <2> QED
    BY <1>1, <1>2, <2>1, <2>2 DEF HandshakeTypes
<1>6. OnlyStartedRun'
  BY <1>1, <1>3, <1>4 DEF HandshakeIInv, OnlyStartedRun
<1>7. \A w \in Started : w # j =>
         testJobId'[w] = testJobId[w] /\ testWorkerReport'[w] = testWorkerReport[w]
  BY <1>0, <1>1, <1>2, Places DEF HandshakeTypes, MainType
<1>8. \A w \in Started : w < j => Issued(w, i)'
  <2> SUFFICES ASSUME NEW w \in Started, w < j PROVE Issued(w, i)'
    OBVIOUS
  <2>1. Issued(w, i)
    BY <1>0, <1>1, <1>2, Places DEF HandshakeIInv, JobPhase
  <2>2. w # j /\ w \in Workers
    BY <1>0, <1>2, Places
  <2> QED
    BY <1>1, <1>7, <2>1, <2>2, StandingKept
<1>9. Issued(j, i)'
  <2>1. Due(j, i)
    BY <1>0, <1>1, <1>2, Places DEF HandshakeIInv, JobPhase
  <2> QED
    BY <1>0, <1>1, <1>2, <2>1 DEF Due, Issued, Waits, HandshakeTypes, MainType
<1>10. \A w \in Started : ~(w < j) /\ w # j => Due(w, i)'
  <2> SUFFICES ASSUME NEW w \in Started, ~(w < j), w # j PROVE Due(w, i)'
    OBVIOUS
  <2>1. Due(w, i) /\ w \in Workers
    BY <1>0, <1>1, <1>2, Places DEF HandshakeIInv, JobPhase
  <2> QED
    BY <1>1, <1>7, <2>1, StandingKept
<1>11. JobPhase'
  <2> SUFFICES ASSUME main'.at = "job", NEW w \in Started
               PROVE IF w < main'.j THEN Issued(w, i)' ELSE Due(w, i)'
    BY <1>0, <1>2, <1>3, <1>4 DEF JobPhase
  <2>1. w < main'.j <=> w < j \/ w = j
    BY <1>0, <1>2, <1>3, Places
  <2> QED
    BY <1>8, <1>9, <1>10, <2>1
<1>12. ReportPhase'
  <2> SUFFICES ASSUME main'.at = "reports", NEW w \in Started
               PROVE IF w < main'.j THEN Taken(w, i)' ELSE Issued(w, i)'
    BY <1>0, <1>2, <1>3, <1>4 DEF ReportPhase
  <2>1. ~(w < main'.j) /\ (w < j \/ w = j)
    BY <1>0, <1>2, <1>3, Places
  <2> QED
    BY <1>8, <1>9, <2>1
<1> QED
  BY <1>3, <1>5, <1>6, <1>11, <1>12 DEF HandshakeIInv, BeforeStart, ReadyPhase

\* A report of 1 is one on the job of the round, and taking it leaves none: the
\* next round begins with every worker waiting for the next job.
LEMMA KeepsTakeReport == HandshakeIInv /\ TakeReport => HandshakeIInv'
<1> SUFFICES ASSUME HandshakeIInv, TakeReport PROVE HandshakeIInv'
  OBVIOUS
<1>0. PICK i, j : i = main.i /\ j = main.j
  OBVIOUS
<1>1. /\ main.at = "reports" /\ testWorkerReport[j] = 1
      /\ testWorkerReport' = [testWorkerReport EXCEPT ![j] = 0]
      /\ main' = IF LastOf(j) THEN NextJob ELSE [main EXCEPT !.j = @ + 1]
      /\ UNCHANGED <<test_select, testThreads, testJobId, worker>>
  BY <1>0 DEF TakeReport, ReportTaken, suite, ram
<1>2. HandshakeTypes /\ j \in Started /\ i \in JobNumbers
  BY <1>0, <1>1 DEF HandshakeIInv, OnlyStartedRun, ReportPhase
<1>3. 0 \in Started
  BY <1>2 DEF Started, HandshakeTypes, MainType
<1>4. Started' = Started /\ JobNumbers' = JobNumbers
  BY <1>1 DEF Started, JobNumbers, Selected
<1>5. \A w \in Started : w # j =>
         testJobId'[w] = testJobId[w] /\ testWorkerReport'[w] = testWorkerReport[w]
  BY <1>0, <1>1, <1>2, Places DEF HandshakeTypes, MainType
<1>5a. testWorkerReport' \in [Workers -> Int]
  <2>1. testWorkerReport \in [Workers -> Int] /\ 0 \in Int
    BY <1>2 DEF HandshakeTypes
  <2> QED
    BY <1>1, <2>1, UpdateKeepsType
<1>6. Taken(j, i)'
  <2>1. Issued(j, i)
    BY <1>0, <1>1, <1>2, Places DEF HandshakeIInv, ReportPhase
  <2>2. testJobId[j] = i /\ worker[j] = AfterJob(i)
    BY <1>1, <2>1 DEF Issued, Waits, Passed, Failed
  <2>3. AfterJob(i)' = AfterJob(i)
    BY <1>1 DEF AfterJob, Selected
  <2> QED
    BY <1>0, <1>1, <1>2, <2>2, <2>3 DEF Taken, HandshakeTypes, MainType, Started
<1>7. \A w \in Started : w < j => Taken(w, i)'
  <2> SUFFICES ASSUME NEW w \in Started, w < j PROVE Taken(w, i)'
    OBVIOUS
  <2>1. Taken(w, i) /\ w # j /\ w \in Workers
    BY <1>0, <1>1, <1>2, Places DEF HandshakeIInv, ReportPhase
  <2> QED
    BY <1>1, <1>5, <2>1, StandingKept
<1>8. \A w \in Started : ~(w < j) /\ w # j => Issued(w, i)'
  <2> SUFFICES ASSUME NEW w \in Started, ~(w < j), w # j PROVE Issued(w, i)'
    OBVIOUS
  <2>1. Issued(w, i) /\ w \in Workers
    BY <1>0, <1>1, <1>2, Places DEF HandshakeIInv, ReportPhase
  <2> QED
    BY <1>1, <1>5, <2>1, StandingKept
<1>9. CASE ~LastOf(j)
  <2>1. main'.at = "reports" /\ main'.i = i /\ main'.j = j + 1 /\ main'.j \in Started
    BY <1>0, <1>1, <1>2, <1>9, Places DEF HandshakeTypes, MainType
  <2>2. HandshakeTypes'
    <3>1. main' \in MainType
      BY <1>0, <1>1, <1>2, <1>9, Places DEF HandshakeTypes, MainType
    <3>2. testWorkerReport' \in [Workers -> Int]
      BY <1>5a
    <3> QED
      BY <1>1, <1>2, <3>1, <3>2 DEF HandshakeTypes
  <2>3. OnlyStartedRun'
    BY <1>1, <1>4, <2>1 DEF HandshakeIInv, OnlyStartedRun
  <2>4. ReportPhase'
    <3> SUFFICES ASSUME NEW w \in Started
                 PROVE IF w < main'.j THEN Taken(w, i)' ELSE Issued(w, i)'
      BY <1>0, <1>2, <1>4, <2>1 DEF ReportPhase
    <3>1. w < main'.j <=> w < j \/ w = j
      BY <1>0, <1>2, <2>1, Places
    <3> QED
      BY <1>6, <1>7, <1>8, <3>1
  <2> QED
    BY <2>1, <2>2, <2>3, <2>4 DEF HandshakeIInv, BeforeStart, ReadyPhase, JobPhase
<1>10. CASE LastOf(j)
  <2>1. \A w \in Started : Taken(w, i)'
    BY <1>0, <1>2, <1>6, <1>7, <1>10, Places
  <2>2. Len(Selected) \in {15, 3} /\ test_select \in {"tests", "stress_tests"}
    BY <1>2, TableLength DEF HandshakeTypes, MainType
  <2>3. main' = NextJob
    BY <1>1, <1>10
  <2>4. /\ main'.j = 0 /\ main'.i = AfterJob(i).currentJobId
        /\ main'.at = IF i + 1 < Len(Selected) THEN "job" ELSE "ready"
        /\ main'.at = "ready" => main'.i = -1
    BY <1>0, <1>2, <2>3 DEF NextJob, AfterJob, HandshakeTypes, MainType
  <2>5. main'.i \in JobNumbers /\ main'.i # i
    BY <1>2, <2>2, <2>4, AfterJobMovesOn
  <2>6. HandshakeTypes'
    <3>1. main' \in MainType
      <4>1. i + 1 \in Int /\ -1 \in Int /\ (main.loop % 2) + 1 \in Nat /\ main \in MainType
        BY <1>2 DEF HandshakeTypes, MainType, JobNumbers
      <4>2. CASE i + 1 < Len(Selected)
        BY <1>0, <2>3, <4>1, <4>2, MainMoves DEF NextJob
      <4>3. CASE ~(i + 1 < Len(Selected))
        BY <1>0, <2>3, <4>1, <4>3, MainMoves DEF NextJob
      <4> QED
        BY <4>2, <4>3
    <3>2. testWorkerReport' \in [Workers -> Int]
      BY <1>5a
    <3> QED
      BY <1>1, <1>2, <3>1, <3>2 DEF HandshakeTypes
  <2>7. OnlyStartedRun'
    BY <1>1, <1>3, <1>4, <2>4 DEF HandshakeIInv, OnlyStartedRun
  <2>7a. PICK k : k = main'.i
    OBVIOUS
  <2>8. \A w \in Started : Due(w, k)'
    <3> SUFFICES ASSUME NEW w \in Started PROVE Due(w, k)'
      OBVIOUS
    <3>1. testJobId'[w] = i /\ worker'[w] = AfterJob(i)' /\ testWorkerReport'[w] = 0
      BY <2>1 DEF Taken
    <3>2. AfterJob(i)' = AfterJob(i) /\ AfterJob(i).at = "polls"
      BY <1>1 DEF AfterJob, Selected
    <3> QED
      BY <2>4, <2>5, <2>7a, <3>1, <3>2 DEF Due, Waits
  <2>9. JobPhase'
    <3> SUFFICES ASSUME NEW w \in Started
                 PROVE IF w < main'.j THEN Issued(w, k)' ELSE Due(w, k)'
      BY <1>4, <2>5, <2>7a DEF JobPhase
    <3>1. ~(w < main'.j)
      BY <1>0, <1>2, <2>4, Places
    <3> QED
      BY <2>8, <3>1
  <2>10. ReadyPhase'
    BY <1>4, <2>4, <2>7a, <2>8 DEF ReadyPhase
  <2> QED
    BY <2>4, <2>6, <2>7, <2>9, <2>10 DEF HandshakeIInv, BeforeStart, ReportPhase
<1> QED
  BY <1>9, <1>10

\* A report of -1 ends the program once a key is pressed.
LEMMA KeepsEnd == HandshakeIInv /\ (ErrorDetected \/ Exit) => HandshakeIInv'
<1> SUFFICES ASSUME HandshakeIInv, ErrorDetected \/ Exit PROVE HandshakeIInv'
  OBVIOUS
<1>1. /\ main' = [main EXCEPT !.at = "error"] \/ main' = [main EXCEPT !.at = "exit"]
      /\ UNCHANGED <<test_select, testThreads, testJobId, testWorkerReport, worker>>
  BY DEF ErrorDetected, Exit, suite, ram
<1>2. main'.at \in {"error", "exit"}
  BY <1>1 DEF HandshakeIInv, HandshakeTypes, MainType
<1>3. HandshakeTypes'
  BY <1>1 DEF HandshakeIInv, HandshakeTypes, MainType
<1> QED
  BY <1>2, <1>3
     DEF HandshakeIInv, BeforeStart, OnlyStartedRun, ReadyPhase, JobPhase, ReportPhase

-----------------------------------------------------------------------------
\* Workers: one that sees -2 waits for its first job as before.
LEMMA KeepsSeesReady ==
    ASSUME NEW v \in Workers, HandshakeIInv, SeesReady(v)
    PROVE  HandshakeIInv'
<1>1. /\ worker[v].at = "new" /\ worker' = [worker EXCEPT ![v].at = "polls"]
      /\ UNCHANGED <<test_select, testThreads, testJobId, testWorkerReport, main>>
  BY DEF SeesReady, suite, ram
<1>2. HandshakeTypes
  BY DEF HandshakeIInv
<1>3. \A w \in Workers : w # v => worker'[w] = worker[w]
  BY <1>1, <1>2 DEF HandshakeTypes
<1>4. /\ worker'[v].at = "polls" /\ worker'[v].currentJobId = worker[v].currentJobId
      /\ worker'[v] \in [at : {"none", "new", "polls", "ended"}, currentJobId : Int]
  BY <1>1, <1>2 DEF HandshakeTypes
<1>5. HandshakeTypes'
  BY <1>1, <1>2, <1>4 DEF HandshakeTypes
<1>6. Started' = Started /\ JobNumbers' = JobNumbers /\ Started \subseteq Workers
  BY <1>1, <1>2 DEF Started, JobNumbers, Selected, Workers, HandshakeTypes
<1>7. BeforeStart'
  BY <1>1 DEF HandshakeIInv, BeforeStart
<1>8. OnlyStartedRun'
  BY <1>1, <1>3, <1>6 DEF HandshakeIInv, OnlyStartedRun
<1>9. ASSUME NEW w \in Started, NEW i
      PROVE  /\ Due(w, i) => Due(w, i)'
             /\ i \in JobNumbers /\ Issued(w, i) => Issued(w, i)'
             /\ i \in JobNumbers /\ Taken(w, i) => Taken(w, i)'
  <2>1. AfterJob(i)' = AfterJob(i)
    BY <1>1 DEF AfterJob, Selected
  <2>2. i \in JobNumbers => AfterJob(i).at = "polls"
    BY <1>2, AfterJobMovesOn DEF HandshakeTypes
  <2>3. CASE w = v
    BY <1>1, <1>4, <2>1, <2>2, <2>3 DEF Due, Issued, Taken, Waits, Passed, Failed
  <2>4. CASE w # v
    BY <1>1, <1>3, <1>6, <2>1, <2>4 DEF Due, Issued, Taken, Waits, Passed, Failed
  <2> QED
    BY <2>3, <2>4
<1>10. PICK i, j : i = main.i /\ j = main.j
  OBVIOUS
<1>11. ReadyPhase'
  BY <1>1, <1>6, <1>9 DEF HandshakeIInv, ReadyPhase
<1>12. JobPhase'
  <2> SUFFICES ASSUME main.at = "job", NEW w \in Started
               PROVE i \in JobNumbers /\ IF w < j THEN Issued(w, i)' ELSE Due(w, i)'
    BY <1>1, <1>6, <1>10 DEF JobPhase, HandshakeIInv
  <2>1. i \in JobNumbers /\ IF w < j THEN Issued(w, i) ELSE Due(w, i)
    BY <1>10 DEF JobPhase, HandshakeIInv
  <2> QED
    BY <1>9, <2>1
<1>13. ReportPhase'
  <2> SUFFICES ASSUME main.at = "reports", NEW w \in Started
               PROVE i \in JobNumbers /\ IF w < j THEN Taken(w, i)' ELSE Issued(w, i)'
    BY <1>1, <1>6, <1>10 DEF ReportPhase, HandshakeIInv
  <2>1. i \in JobNumbers /\ IF w < j THEN Taken(w, i) ELSE Issued(w, i)
    BY <1>10 DEF ReportPhase, HandshakeIInv
  <2> QED
    BY <1>9, <2>1
<1> QED
  BY <1>5, <1>7, <1>8, <1>11, <1>12, <1>13 DEF HandshakeIInv

\* A worker runs a job only once it was set for it and before its report was
\* written: no number left from an earlier job is the one it polls for.
LEMMA RunsWhatWasIssued ==
    ASSUME NEW v \in Workers, HandshakeIInv, worker[v].at = "polls",
           testJobId[v] = worker[v].currentJobId,
           main.at \in {"menu", "alloc", "start", "ready", "job", "reports"}
    PROVE  /\ main.at \in {"job", "reports"} /\ v \in Started /\ main.i \in JobNumbers
           /\ testJobId[v] = main.i /\ Waits(v, main.i)
           /\ IF main.at = "job" THEN v < main.j ELSE ~(v < main.j)
<1>1. HandshakeTypes
  BY DEF HandshakeIInv
<1>2. main.at \in {"ready", "job", "reports"}
  BY DEF HandshakeIInv, BeforeStart
<1>3. v \in Started
  BY <1>2 DEF HandshakeIInv, OnlyStartedRun
<1>4. \A i : ~Due(v, i)
  BY DEF Due, Waits
<1>5. main.at # "ready"
  BY <1>3, <1>4 DEF HandshakeIInv, ReadyPhase
<1>6. main.i \in JobNumbers
  BY <1>2, <1>5 DEF HandshakeIInv, JobPhase, ReportPhase
<1>7. AfterJob(main.i).currentJobId # main.i
  BY <1>1, <1>6, AfterJobMovesOn DEF HandshakeTypes
<1>8. ~Taken(v, main.i)
  BY <1>7 DEF Taken
<1>9. Issued(v, main.i) /\ IF main.at = "job" THEN v < main.j ELSE ~(v < main.j)
  BY <1>2, <1>3, <1>4, <1>5, <1>8 DEF HandshakeIInv, JobPhase, ReportPhase
<1> QED
  BY <1>2, <1>3, <1>5, <1>6, <1>7, <1>9 DEF Issued, Passed, Failed

\* A worker that runs a job leaves exactly one report, on the job of the round.
LEMMA KeepsRunJob ==
    ASSUME NEW v \in Workers, HandshakeIInv, RunJob(v)
    PROVE  HandshakeIInv'
<1>1. PICK k, rc : 
        /\ k = worker[v].currentJobId /\ testJobId[v] = k /\ worker[v].at = "polls"
        /\ testWorkerReport' = [testWorkerReport EXCEPT ![v] = IF rc = 0 THEN 1 ELSE -1]
        /\ worker' = [worker EXCEPT ![v] = IF rc = 0 THEN AfterJob(k)
                                           ELSE [worker[v] EXCEPT !.at = "ended"]]
  BY DEF RunJob
<1>2. main.at # "exit" /\ UNCHANGED <<test_select, testThreads, testJobId, main>>
  BY DEF RunJob, Running, suite, ram
<1>3. HandshakeTypes
  BY DEF HandshakeIInv
<1>4. k \in Int /\ AfterJob(k)' = AfterJob(k)
  BY <1>1, <1>2, <1>3 DEF HandshakeTypes, AfterJob, Selected
<1>5. \A w \in Workers : w # v => /\ worker'[w] = worker[w]
                                  /\ testWorkerReport'[w] = testWorkerReport[w]
  BY <1>1, <1>3 DEF HandshakeTypes
<1>6. Passed(v, k)' \/ Failed(v)'
  <2>1. CASE rc = 0
    BY <1>1, <1>3, <1>4, <2>1 DEF HandshakeTypes, Passed
  <2>2. CASE rc # 0
    BY <1>1, <1>3, <2>2 DEF HandshakeTypes, Failed
  <2> QED
    BY <2>1, <2>2
<1>7. HandshakeTypes'
  <2>1. testWorkerReport' \in [Workers -> Int]
    BY <1>1, <1>3, UpdateKeepsType DEF HandshakeTypes
  <2>2. AfterJob(k) \in [at : {"none", "new", "polls", "ended"}, currentJobId : Int]
    BY <1>3, <1>4, AfterJobType DEF HandshakeTypes
  <2>3. [worker[v] EXCEPT !.at = "ended"]
            \in [at : {"none", "new", "polls", "ended"}, currentJobId : Int]
    BY <1>3 DEF HandshakeTypes
  <2>4. worker' \in [Workers -> [at : {"none", "new", "polls", "ended"}, currentJobId : Int]]
    BY <1>1, <1>3, <2>2, <2>3 DEF HandshakeTypes
  <2> QED
    BY <1>2, <1>3, <2>1, <2>4 DEF HandshakeTypes
<1>8. Started' = Started /\ JobNumbers' = JobNumbers /\ Started \subseteq Workers
  BY <1>2, <1>3 DEF Started, JobNumbers, Selected, Workers, HandshakeTypes
<1>9. CASE main.at = "error"
  BY <1>2, <1>7, <1>9
     DEF HandshakeIInv, BeforeStart, OnlyStartedRun, ReadyPhase, JobPhase, ReportPhase
<1>10. CASE main.at # "error"
  <2>1. main.at \in {"menu", "alloc", "start", "ready", "job", "reports"}
    BY <1>2, <1>3, <1>10 DEF HandshakeTypes, MainType
  <2>2. /\ main.at \in {"job", "reports"} /\ v \in Started /\ main.i \in JobNumbers
        /\ main.i = k /\ IF main.at = "job" THEN v < main.j ELSE ~(v < main.j)
    BY <1>1, <2>1, RunsWhatWasIssued
  <2>3. PICK j : j = main.j
    OBVIOUS
  <2>4. OnlyStartedRun'
    BY <1>2, <1>5, <1>8, <2>2 DEF HandshakeIInv, OnlyStartedRun
  <2>5. Issued(v, k)'
    BY <1>1, <1>2, <1>6 DEF Issued
  <2>6. ASSUME NEW w \in Started, w # v
        PROVE  /\ Due(w, k) => Due(w, k)'
               /\ Issued(w, k) => Issued(w, k)'
               /\ Taken(w, k) => Taken(w, k)'
    BY <1>2, <1>4, <1>5, <1>8, <2>6 DEF Due, Issued, Taken, Waits, Passed, Failed
  <2>7. JobPhase'
    <3> SUFFICES ASSUME main.at = "job", NEW w \in Started
                 PROVE IF w < j THEN Issued(w, k)' ELSE Due(w, k)'
      BY <1>2, <1>8, <2>2, <2>3 DEF JobPhase
    <3>1. IF w < j THEN Issued(w, k) ELSE Due(w, k)
      BY <2>2, <2>3 DEF HandshakeIInv, JobPhase
    <3>2. v < j
      BY <2>2, <2>3
    <3> QED
      BY <2>5, <2>6, <3>1, <3>2
  <2>8. ReportPhase'
    <3> SUFFICES ASSUME main.at = "reports", NEW w \in Started
                 PROVE IF w < j THEN Taken(w, k)' ELSE Issued(w, k)'
      BY <1>2, <1>8, <2>2, <2>3 DEF ReportPhase
    <3>1. IF w < j THEN Taken(w, k) ELSE Issued(w, k)
      BY <2>2, <2>3 DEF HandshakeIInv, ReportPhase
    <3>2. ~(v < j)
      BY <2>2, <2>3
    <3> QED
      BY <2>5, <2>6, <3>1, <3>2
  <2> QED
    BY <1>2, <1>7, <2>2, <2>4, <2>7, <2>8 DEF HandshakeIInv, BeforeStart, ReadyPhase
<1> QED
  BY <1>9, <1>10

-----------------------------------------------------------------------------
\* Every step keeps the invariant.
LEMMA HandshakeStep == HandshakeIInv /\ [MemTesterNext]_mtVars => HandshakeIInv'
<1> SUFFICES ASSUME HandshakeIInv, [MemTesterNext]_mtVars PROVE HandshakeIInv'
  OBVIOUS
<1>1. CASE PressKey
  BY <1>1, KeepsMenu
<1>2. CASE Allocate
  BY <1>2, KeepsAllocate
<1>3. CASE StartWorkers
  BY <1>3, KeepsStart
<1>4. CASE SetReady
  BY <1>4, KeepsSetReady
<1>5. CASE SetJob
  BY <1>5, KeepsSetJob
<1>6. CASE TakeReport
  BY <1>6, KeepsTakeReport
<1>7. CASE ErrorDetected \/ Exit
  BY <1>7, KeepsEnd
<1>8. ASSUME NEW v \in Workers, SeesReady(v) PROVE HandshakeIInv'
  BY <1>8, KeepsSeesReady
<1>9. ASSUME NEW v \in Workers, RunJob(v) PROVE HandshakeIInv'
  BY <1>9, KeepsRunJob
<1>10. CASE UNCHANGED mtVars
  BY <1>10, HandshakeStutter
<1> QED
  BY <1>1, <1>2, <1>3, <1>4, <1>5, <1>6, <1>7, <1>8, <1>9, <1>10 DEF MemTesterNext

\* Where the invariant holds, main only counts reports on the job it handed out.
LEMMA HandshakeIsOfThisJob == HandshakeIInv => ReportIsOfThisJob
<1> SUFFICES ASSUME HandshakeIInv, main.at = "reports", NEW w \in Started
             PROVE  /\ w < main.j => worker[w].currentJobId = AfterJob(main.i).currentJobId
                    /\ testWorkerReport[w] = 1 =>
                          w >= main.j /\ worker[w].currentJobId = AfterJob(main.i).currentJobId
  BY DEF ReportIsOfThisJob
<1>1. IF w < main.j THEN Taken(w, main.i) ELSE Issued(w, main.i)
  BY DEF HandshakeIInv, ReportPhase
<1>2. w \in Int /\ main.j \in Int
  BY DEF HandshakeIInv, HandshakeTypes, MainType, Workers, Started
<1> QED
  BY <1>1, <1>2 DEF Taken, Issued, Waits, Passed, Failed

\* Whatever the pages of RAM, the suite, the faults of the memory, the workers
\* that could not be started and the interleaving of main with the three or four
\* workers, a report of success that main counts is one on the job it has handed
\* out: none is counted twice and none is left over for a later job or a later
\* loop, although both sides only poll shared words (main.c:142-183, 434-485).
THEOREM ReportIsOfThisJobHolds == MemTesterSpec => []ReportIsOfThisJob
<1>1. MemTesterInit => HandshakeIInv
  BY HandshakeInit
<1>2. HandshakeIInv /\ [MemTesterNext]_mtVars => HandshakeIInv'
  BY HandshakeStep
<1>3. HandshakeIInv => ReportIsOfThisJob
  BY HandshakeIsOfThisJob
<1> QED
  BY <1>1, <1>2, <1>3, PTL DEF MemTesterSpec

-----------------------------------------------------------------------------
\* A non-empty set of naturals has a least element.
LEMMA LeastExists ==
    ASSUME NEW S, S \subseteq Nat, S # {}
    PROVE  \E x \in S : \A y \in S : x <= y
<1>1. PICK x \in S : \A y \in S : <<y, x>> \notin OpToRel(<, Nat)
  BY WFMin, NatLessThanWellFounded, Zenon
<1>2. \A y \in S : ~(y < x)
  BY <1>1, Zenon DEF OpToRel
<1> QED BY <1>2

\* The values of a loop before and after each of its rounds.
Runs(g, n, s, body) ==
    g = [j \in 0..n |-> IF j = 0 THEN s ELSE body[j - 1][g[j - 1]]]

\* There are such values for any number of rounds.
LEMMA LoopExists ==
    ASSUME NEW n \in Nat, NEW s, NEW body
    PROVE  \E g : Runs(g, n, s, body)
<1> DEFINE Without == {k \in Nat : ~ \E g : Runs(g, k, s, body)}
<1> SUFFICES ASSUME Without # {} PROVE FALSE
  OBVIOUS
<1>1. Without \subseteq Nat
  OBVIOUS
<1>2. PICK k \in Without : \A j \in Without : k <= j
  <2> HIDE DEF Without
  <2> QED BY <1>1, LeastExists
<1>3. k # 0
  <2>1. Runs([j \in 0..0 |-> s], 0, s, body)
    BY DEF Runs
  <2> QED BY <2>1
<1>4. k \in Nat /\ k - 1 \in Nat /\ k - 1 \notin Without
  <2>1. k \in Nat /\ k - 1 \in Nat
    BY <1>3
  <2> HIDE DEF Without
  <2> QED BY <1>2, <2>1
<1>5. PICK g : Runs(g, k - 1, s, body)
  BY <1>4
<1>6. PICK h : h = [j \in 0..k |-> IF j = 0 THEN s ELSE body[j - 1][g[j - 1]]]
  OBVIOUS
<1>7. \A j \in 0..(k - 1) : h[j] = g[j]
  <2>1. \A j \in 0..(k - 1) : g[j] = IF j = 0 THEN s ELSE body[j - 1][g[j - 1]]
    BY <1>5 DEF Runs
  <2>2. \A j \in 0..k : h[j] = IF j = 0 THEN s ELSE body[j - 1][g[j - 1]]
    BY <1>6
  <2>3. \A j \in 0..(k - 1) : j \in 0..k
    BY <1>4
  <2> QED BY Zenon, <2>1, <2>2, <2>3
<1>8. \A j \in 0..k : j # 0 => h[j - 1] = g[j - 1]
  BY <1>4, <1>7
<1>9. Runs(h, k, s, body)
  <2>1. [j \in 0..k |-> IF j = 0 THEN s ELSE body[j - 1][g[j - 1]]]
          = [j \in 0..k |-> IF j = 0 THEN s ELSE body[j - 1][h[j - 1]]]
    BY <1>8
  <2> QED BY <1>6, <2>1 DEF Runs
<1> QED BY <1>9, <1>2

\* What holds at first and is kept by every round holds at the end.
LEMMA LoopKeeps ==
    ASSUME NEW n \in Nat, NEW s, NEW body, NEW Good, s \in Good[0],
           \A j \in 0..(n - 1) : \A x \in Good[j] : body[j][x] \in Good[j + 1]
    PROVE  Loop(body, s, n) \in Good[n]
<1>1. PICK g : /\ Runs(g, n, s, body) /\ Loop(body, s, n) = g[n]
  <2>1. \E g : Runs(g, n, s, body)
    BY LoopExists
  <2> QED BY <2>1 DEF Loop, Runs
<1>2. g[0] = s /\ \A j \in 1..n : g[j] = body[j - 1][g[j - 1]]
  BY <1>1 DEF Runs
<1> DEFINE Off == {j \in 0..n : g[j] \notin Good[j]}
<1> SUFFICES ASSUME Off # {} PROVE FALSE
  BY <1>1
<1>3. Off \subseteq Nat
  OBVIOUS
<1>4. PICK j \in Off : \A k \in Off : j <= k
  <2> HIDE DEF Off
  <2> QED BY <1>3, LeastExists
<1>5. j # 0
  BY <1>2, <1>4
<1>6. j \in 1..n /\ j - 1 \in 0..n /\ j - 1 \in 0..(n - 1) /\ (j - 1) + 1 = j
  BY <1>5
<1>7. g[j - 1] \in Good[j - 1]
  <2>1. j - 1 \notin Off
    <3> HIDE DEF Off
    <3> QED BY <1>3, <1>4
  <2> QED BY <1>6, <2>1
<1>8. g[j] \in Good[j]
  BY <1>2, <1>6, <1>7
<1> QED BY <1>4, <1>8

-----------------------------------------------------------------------------
Equal(words) == \A i \in Index : words[<<1, i>>] = words[<<2, i>>]
Twins == {s \in Region : Equal(s)}

\* A word of either half is a cell.
LEMMA CellsAre == \A h \in {1, 2}, i \in Index : <<h, i>> \in Cells
  BY DEF Cells

\* Sound memory gives what is there.
LEMMA SoundLoad ==
    ASSUME NEW f, f.kind = "none", NEW words, NEW c
    PROVE  Load(f, words, c) = words[c]
  BY DEF Load, Phys

\* Only the word at c was written.
Written(new, old, c, w) ==
    new \in Region /\ new[c] = w /\ \A d \in Cells : d # c => new[d] = old[d]

\* Sound memory keeps what is written, and nothing else changes.
LEMMA SoundMemory ==
    ASSUME NEW f, f.kind = "none", NEW words \in Region, NEW c \in Cells, NEW w \in Words
    PROVE  Written(Store(f, words, c, w), words, c, w)
<1>1. Store(f, words, c, w) = [words EXCEPT ![c] = w]
  BY DEF Load, Store, Phys
<1> QED BY <1>1 DEF Region, Written

\* The same word written to both halves, in either order.
BothHold(new, old, i, w) ==
    /\ new \in Region /\ new[<<1, i>>] = w /\ new[<<2, i>>] = w
    /\ \A k \in Index : k # i => new[<<1, k>>] = old[<<1, k>>] /\ new[<<2, k>>] = old[<<2, k>>]

\* A word stored to one half and then to the other.
LEMMA StoreBoth ==
    ASSUME NEW f, f.kind = "none", NEW words \in Region, NEW i \in Index, NEW w \in Words,
           NEW g \in {1, 2}, NEW h \in {1, 2}, g # h
    PROVE  BothHold(Store(f, Store(f, words, <<g, i>>, w), <<h, i>>, w), words, i, w)
<1>1. PICK t : t = Store(f, words, <<g, i>>, w)
  OBVIOUS
<1>2. Written(t, words, <<g, i>>, w)
  <2>1. <<g, i>> \in Cells
    BY CellsAre
  <2> QED BY Zenon, <1>1, <2>1, SoundMemory
<1>3. PICK u : u = Store(f, t, <<h, i>>, w)
  OBVIOUS
<1>4. Written(u, t, <<h, i>>, w)
  <2>1. <<h, i>> \in Cells
    BY CellsAre
  <2>2. t \in Region
    BY <1>2 DEF Written
  <2> QED BY Zenon, <1>3, <2>1, <2>2, SoundMemory
<1>5. u[<<g, i>>] = w
  <2>1. <<g, i>> \in Cells /\ <<g, i>> # <<h, i>>
    BY CellsAre
  <2> QED BY <1>2, <1>4, <2>1 DEF Written
<1>6. ASSUME NEW k \in Index, k # i, NEW e \in {1, 2} PROVE u[<<e, k>>] = words[<<e, k>>]
  <2>1. <<e, k>> \in Cells /\ <<e, k>> # <<h, i>> /\ <<e, k>> # <<g, i>>
    BY CellsAre, <1>6
  <2> QED BY <1>2, <1>4, <2>1 DEF Written
<1> QED BY <1>1, <1>3, <1>4, <1>5, <1>6 DEF BothHold, Written

\* Both halves are filled with the pattern, whatever was in them.
LEMMA FillSound ==
    ASSUME Count \in Nat, NEW f, f.kind = "none", NEW words \in Region,
           NEW pattern, \A i \in Index : pattern[i] \in Words
    PROVE  Fill(f, words, pattern) \in Twins
<1> DEFINE Body == [i \in Index |->
                      [s \in Region |-> Store(f, Store(f, s, <<2, i>>, pattern[i]),
                                             <<1, i>>, pattern[i])]]
           Good == [j \in 0..Count |-> {s \in Region : \A k \in 0..(j - 1) : s[<<1, k>>] = s[<<2, k>>]}]
<1>1. Fill(f, words, pattern) = Loop(Body, words, Count)
  BY DEF Fill
<1>2. ASSUME NEW i \in 0..(Count - 1), NEW s \in Good[i] PROVE Body[i][s] \in Good[i + 1]
  <2>1. i \in Index /\ i \in 0..Count /\ i + 1 \in 0..Count /\ (i + 1) - 1 = i
    BY DEF Index
  <2>2. s \in Region /\ \A k \in 0..(i - 1) : s[<<1, k>>] = s[<<2, k>>]
    BY <1>2, <2>1
  <2>3. BothHold(Body[i][s], s, i, pattern[i])
    <3>1. pattern[i] \in Words /\ Body[i][s] = Store(f, Store(f, s, <<2, i>>, pattern[i]),
                                             <<1, i>>, pattern[i])
      BY <2>1, <2>2
    <3> HIDE DEF Body
    <3>2. BothHold(Store(f, Store(f, s, <<2, i>>, pattern[i]), <<1, i>>, pattern[i]),
                   s, i, pattern[i])
      BY <2>1, <2>2, <3>1, StoreBoth
    <3> QED BY <3>1, <3>2
  <2> HIDE DEF Body
  <2>4. PICK u : u = Body[i][s]
    OBVIOUS
  <2>5. ASSUME NEW k \in 0..i PROVE u[<<1, k>>] = u[<<2, k>>]
    <3>1. k \in Index /\ (k # i => k \in 0..(i - 1))
      BY <2>1 DEF Index
    <3> QED BY <2>2, <2>3, <2>4, <3>1 DEF BothHold
  <2> QED BY <2>1, <2>3, <2>4, <2>5 DEF BothHold
<1>3. words \in Good[0] /\ Good[Count] \subseteq Twins
  BY DEF Twins, Equal, Index
<1> HIDE DEF Body, Good
<1> QED BY <1>1, <1>2, <1>3, LoopKeeps


\* Both halves are changed alike where they are alike.
LEMMA UpdateSound ==
    ASSUME Count \in Nat, NEW f, f.kind = "none", NEW words \in Twins,
           NEW g, \A i \in Index : g[words[<<1, i>>]] \in Words
    PROVE  Update(f, words, g) \in Twins
<1> DEFINE Change(s, c) == Store(f, s, c, g[Load(f, s, c)])
           Body == [i \in Index |-> [s \in Region |-> Change(Change(s, <<1, i>>), <<2, i>>)]]
           Good == [j \in 0..Count |->
                      {s \in Twins : \A k \in j..(Count - 1) : s[<<1, k>>] = words[<<1, k>>]}]
<1>1. Update(f, words, g) = Loop(Body, words, Count)
  BY DEF Update
<1>2. ASSUME NEW i \in 0..(Count - 1), NEW s \in Good[i] PROVE Body[i][s] \in Good[i + 1]
  <2>1. i \in Index /\ i \in 0..Count /\ i + 1 \in 0..Count
    BY DEF Index
  <2>2. /\ s \in Region /\ \A k \in Index : s[<<1, k>>] = s[<<2, k>>]
        /\ \A k \in i..(Count - 1) : s[<<1, k>>] = words[<<1, k>>]
    BY <1>2, <2>1 DEF Twins, Equal
  <2>3. PICK w : w = g[words[<<1, i>>]]
    OBVIOUS
  <2>4. w \in Words /\ s[<<1, i>>] = words[<<1, i>>] /\ s[<<2, i>>] = words[<<1, i>>]
    BY <2>1, <2>2, <2>3
  <2>5. PICK t : t = Store(f, s, <<1, i>>, w)
    OBVIOUS
  <2>6. <<1, i>> \in Cells /\ <<2, i>> \in Cells /\ <<1, i>> # <<2, i>>
    BY <2>1, CellsAre
  <2>7. Load(f, s, <<1, i>>) = words[<<1, i>>] /\ Written(t, s, <<1, i>>, w)
    BY <2>2, <2>4, <2>5, <2>6, SoundMemory, SoundLoad
  <2>8. Load(f, t, <<2, i>>) = words[<<1, i>>]
    <3>1. t \in Region /\ t[<<2, i>>] = s[<<2, i>>]
      BY <2>6, <2>7 DEF Written
    <3> QED BY <2>4, <3>1, SoundLoad
  <2>9. Body[i][s] = Store(f, t, <<2, i>>, w)
    BY <2>1, <2>2, <2>3, <2>5, <2>7, <2>8
  <2>10. PICK u : u = Body[i][s]
    OBVIOUS
  <2> HIDE DEF Body
  <2>11. BothHold(u, s, i, w)
    BY <2>1, <2>2, <2>4, <2>5, <2>9, <2>10, StoreBoth
  <2>12. ASSUME NEW k \in Index PROVE u[<<1, k>>] = u[<<2, k>>]
    BY <2>2, <2>11 DEF BothHold
  <2>13. ASSUME NEW k \in (i + 1)..(Count - 1) PROVE u[<<1, k>>] = words[<<1, k>>]
    <3>1. k \in Index /\ k # i /\ k \in i..(Count - 1)
      BY <2>1 DEF Index
    <3> QED BY <2>2, <2>11, <3>1 DEF BothHold
  <2> QED BY <2>1, <2>10, <2>11, <2>12, <2>13 DEF BothHold, Twins, Equal
<1>3. words \in Good[0] /\ Good[Count] \subseteq Twins
  OBVIOUS
<1> HIDE DEF Body, Good
<1> QED BY <1>1, <1>2, <1>3, LoopKeeps

\* A test that reports no error and leaves the halves alike.
Sound == {t \in Tested : t.rc = 0 /\ t.mem \in Twins}

\* Halves that are alike pass.
LEMMA VerdictSound ==
    ASSUME NEW f, f.kind = "none", NEW words \in Twins
    PROVE  Verdict(f, words) \in Sound
<1>1. ~compare_regions(f, words)
  <2>1. ASSUME NEW i \in Index PROVE Load(f, words, <<1, i>>) = Load(f, words, <<2, i>>)
    BY SoundLoad DEF Twins, Equal
  <2> QED BY <2>1 DEF compare_regions
<1>2. words \in Region
  BY DEF Twins
<1>3. Verdict(f, words) = [mem |-> words, rc |-> 0]
  BY <1>1, <1>2 DEF Verdict
<1> QED BY <1>2, <1>3 DEF Sound, Tested

\* The patterns of the rounds are words.
LEMMA RoundsSound ==
    ASSUME Count \in Nat, NEW f, f.kind = "none", NEW words \in Twins, NEW rounds \in Nat,
           NEW patterns, \A j \in 0..(rounds - 1), i \in Index : patterns[j][i] \in Words
    PROVE  Rounds(f, words, rounds, patterns) \in Sound
<1> DEFINE Body == [j \in 0..(rounds - 1) |->
             [t \in Tested |-> IF t.rc # 0 THEN t ELSE Verdict(f, Fill(f, t.mem, patterns[j]))]]
           Good == [j \in 0..rounds |-> Sound]
<1>1. Rounds(f, words, rounds, patterns) = Loop(Body, [mem |-> words, rc |-> 0], rounds)
  BY DEF Rounds
<1>2. ASSUME NEW j \in 0..(rounds - 1), NEW t \in Good[j] PROVE Body[j][t] \in Good[j + 1]
  <2>1. j \in 0..rounds /\ j + 1 \in 0..rounds
    OBVIOUS
  <2>2. t \in Tested /\ t.rc = 0 /\ t.mem \in Region
    BY <1>2, <2>1 DEF Sound, Twins
  <2>3. Body[j][t] = Verdict(f, Fill(f, t.mem, patterns[j]))
    BY <2>2
  <2>4. Fill(f, t.mem, patterns[j]) \in Twins
    BY <2>2, FillSound
  <2> HIDE DEF Body
  <2> QED BY <2>1, <2>3, <2>4, VerdictSound
<1>3. [mem |-> words, rc |-> 0] \in Good[0] /\ Good[rounds] = Sound
  BY DEF Sound, Tested, Twins
<1> HIDE DEF Body, Good
<1> QED BY <1>1, <1>2, <1>3, LoopKeeps


\* The two nested divisions keep the rounds within what was planned.
LEMMA Fewer ==
    ASSUME NEW d \in {1, 4, 16}
    PROVE  /\ Sixteenth(64, d) \in 0..64 /\ Sixteenth(128, d) \in 0..128
           /\ 16 \div d \in 1..16
  BY DEF Sixteenth

\* What the tests write are words.
LEMMA PatternsAreWords ==
    /\ \A q \in Words : Flip(q) \in Words /\ UL_BYTE(q) \in Words
    /\ \A q \in Words, i \in Index : Alternate(q)[i] \in Words /\ Same(q)[i] \in Words
    /\ \A v \in Words, w \in Words : Xor(v, w) \in Words
    /\ \A v \in Words, w \in Words : Add(v, w) \in Words
    /\ \A n \in Nat : BitsOf(n) \in Words /\ Shl(n) \in Words
    /\ CHECKERBOARD1 \in Words /\ CHECKERBOARD2 \in Words /\ UL_ONEBITS \in Words /\ {} \in Words
<1>1. \A q \in Words : Flip(q) \in Words /\ UL_BYTE(q) \in Words
  BY DEF Flip, UL_BYTE, Words
<1>2. \A q \in Words, i \in Index : Alternate(q)[i] \in Words /\ Same(q)[i] \in Words
  BY <1>1 DEF Alternate, Same
<1>3. \A v \in Words, w \in Words : Xor(v, w) \in Words
  BY DEF Xor, Words
<1>4. \A v \in Words, w \in Words : Add(v, w) \in Words
  <2>1. \A v, w : Carries(v, w) \in Words
    BY DEF Carries, Words
  <2> QED BY <1>3, <2>1 DEF Add
<1>5. \A n \in Nat : BitsOf(n) \in Words /\ Shl(n) \in Words
  BY DEF BitsOf, Shl, Words, BitIndex, UL_LEN
<1>6. CHECKERBOARD1 \in Words /\ CHECKERBOARD2 \in Words /\ UL_ONEBITS \in Words /\ {} \in Words
  BY <1>1 DEF CHECKERBOARD1, CHECKERBOARD2, UL_ONEBITS, Words
<1> QED BY <1>1, <1>2, <1>3, <1>4, <1>5, <1>6

\* The tests of fixed patterns pass and leave the halves alike.
LEMMA FixedSound ==
    ASSUME Count \in Nat, NEW f, f.kind = "none", NEW words \in Twins, NEW d \in {1, 4, 16}
    PROVE  /\ test_solidbits_comparison(f, words, d) \in Sound
           /\ test_checkerboard_comparison(f, words, d) \in Sound
           /\ test_blockseq_comparison(f, words, d) \in Sound
           /\ test_walkbits0_comparison(f, words, d) \in Sound
           /\ test_walkbits1_comparison(f, words, d) \in Sound
           /\ test_bitspread_comparison(f, words, d) \in Sound
           /\ test_bitflip_comparison(f, words, d) \in Sound
<1>1. PICK few : few = Sixteenth(64, d)
  OBVIOUS
<1>2. PICK many : many = Sixteenth(128, d)
  OBVIOUS
<1>3. /\ few \in Nat /\ \A j \in 0..(few - 1) : j \in 0..63
      /\ many \in Nat /\ \A j \in 0..(many - 1) : j \in 0..127
      /\ 8 * few \in Nat /\ \A j \in 0..(8 * few - 1) : j \in 0..511
  BY <1>1, <1>2, Fewer
<1>4. test_solidbits_comparison(f, words, d) \in Sound
  <2>1. PICK p : p = [j \in 0..63 |-> Alternate(IF j % 2 = 0 THEN UL_ONEBITS ELSE {})]
    OBVIOUS
  <2>2. ASSUME NEW j \in 0..(few - 1), NEW i \in Index PROVE p[j][i] \in Words
    <3>1. PICK w : w = IF j % 2 = 0 THEN UL_ONEBITS ELSE {}
      OBVIOUS
    <3>2. p[j] = Alternate(w)
      BY <1>3, <2>1, <3>1
    <3>3. w \in Words
      BY Zenon, <3>1, PatternsAreWords
    <3> QED BY Zenon, <3>2, <3>3, PatternsAreWords
  <2>3. Rounds(f, words, few, p) \in Sound
    BY <1>3, <2>2, RoundsSound
  <2> QED BY <1>1, <2>1, <2>3 DEF test_solidbits_comparison
<1>5. test_checkerboard_comparison(f, words, d) \in Sound
  <2>1. PICK p : p = [j \in 0..63 |-> Alternate(IF j % 2 = 0 THEN CHECKERBOARD1 ELSE CHECKERBOARD2)]
    OBVIOUS
  <2>2. ASSUME NEW j \in 0..(few - 1), NEW i \in Index PROVE p[j][i] \in Words
    <3>1. PICK w : w = IF j % 2 = 0 THEN CHECKERBOARD1 ELSE CHECKERBOARD2
      OBVIOUS
    <3>2. p[j] = Alternate(w)
      BY <1>3, <2>1, <3>1
    <3>3. w \in Words
      BY Zenon, <3>1, PatternsAreWords
    <3> QED BY Zenon, <3>2, <3>3, PatternsAreWords
  <2>3. Rounds(f, words, few, p) \in Sound
    BY <1>3, <2>2, RoundsSound
  <2> QED BY <1>1, <2>1, <2>3 DEF test_checkerboard_comparison
<1>6. test_blockseq_comparison(f, words, d) \in Sound
  <2>1. PICK p : p = [j \in 0..63 |-> Same(UL_BYTE(BitsOf(j)))]
    OBVIOUS
  <2>2. ASSUME NEW j \in 0..(few - 1), NEW i \in Index PROVE p[j][i] \in Words
    <3>1. PICK w : w = UL_BYTE(BitsOf(j))
      OBVIOUS
    <3>2. p[j] = Same(w)
      BY <1>3, <2>1, <3>1
    <3>3. w \in Words
      <4>1. j \in Nat
        OBVIOUS
      <4> QED BY Zenon, <3>1, <4>1, PatternsAreWords
    <3> QED BY Zenon, <3>2, <3>3, PatternsAreWords
  <2>3. Rounds(f, words, few, p) \in Sound
    BY <1>3, <2>2, RoundsSound
  <2> QED BY <1>1, <2>1, <2>3 DEF test_blockseq_comparison
<1>7. \A j \in 0..127 : Walk(j) \in Nat /\ Walk(j) + 2 \in Nat
  BY DEF Walk, UL_LEN
<1>8. UL_LEN * 2 = 128
  BY DEF UL_LEN
<1>9. test_walkbits0_comparison(f, words, d) \in Sound
  <2>1. PICK p : p = [j \in 0..127 |-> Same(Shl(Walk(j)))]
    OBVIOUS
  <2>2. ASSUME NEW j \in 0..(many - 1), NEW i \in Index PROVE p[j][i] \in Words
    <3>1. PICK w : w = Shl(Walk(j))
      OBVIOUS
    <3>2. p[j] = Same(w)
      BY <1>3, <2>1, <3>1
    <3>3. w \in Words
      <4>1. Walk(j) \in Nat /\ Walk(j) + 2 \in Nat
        <5>1. j \in 0..127
          BY <1>3
        <5> QED BY Zenon, <1>7, <5>1
      <4>2. Shl(Walk(j)) \in Words /\ Shl(Walk(j) + 2) \in Words
        BY Zenon, <4>1, PatternsAreWords
      <4> QED BY <3>1, <4>2
    <3> QED BY Zenon, <3>2, <3>3, PatternsAreWords
  <2>3. Rounds(f, words, many, p) \in Sound
    BY <1>3, <2>2, RoundsSound
  <2> QED BY <1>2, <1>8, <2>1, <2>3 DEF test_walkbits0_comparison
<1>10. test_walkbits1_comparison(f, words, d) \in Sound
  <2>1. PICK p : p = [j \in 0..127 |-> Same(Xor(UL_ONEBITS, Shl(Walk(j))))]
    OBVIOUS
  <2>2. ASSUME NEW j \in 0..(many - 1), NEW i \in Index PROVE p[j][i] \in Words
    <3>1. PICK w : w = Xor(UL_ONEBITS, Shl(Walk(j)))
      OBVIOUS
    <3>2. p[j] = Same(w)
      BY <1>3, <2>1, <3>1
    <3>3. w \in Words
      <4>1. Walk(j) \in Nat /\ Walk(j) + 2 \in Nat
        <5>1. j \in 0..127
          BY <1>3
        <5> QED BY Zenon, <1>7, <5>1
      <4>2. Shl(Walk(j)) \in Words /\ Shl(Walk(j) + 2) \in Words
        BY Zenon, <4>1, PatternsAreWords
      <4> QED BY Zenon, <3>1, <4>2, PatternsAreWords
    <3> QED BY Zenon, <3>2, <3>3, PatternsAreWords
  <2>3. Rounds(f, words, many, p) \in Sound
    BY <1>3, <2>2, RoundsSound
  <2> QED BY <1>2, <1>8, <2>1, <2>3 DEF test_walkbits1_comparison
<1>11. test_bitspread_comparison(f, words, d) \in Sound
  <2>1. PICK p : p = [j \in 0..127 |-> Alternate(Shl(Walk(j)) \cup Shl(Walk(j) + 2))]
    OBVIOUS
  <2>2. ASSUME NEW j \in 0..(many - 1), NEW i \in Index PROVE p[j][i] \in Words
    <3>1. PICK w : w = Shl(Walk(j)) \cup Shl(Walk(j) + 2)
      OBVIOUS
    <3>2. p[j] = Alternate(w)
      BY <1>3, <2>1, <3>1
    <3>3. w \in Words
      <4>1. Walk(j) \in Nat /\ Walk(j) + 2 \in Nat
        <5>1. j \in 0..127
          BY <1>3
        <5> QED BY Zenon, <1>7, <5>1
      <4>2. Shl(Walk(j)) \in Words /\ Shl(Walk(j) + 2) \in Words
        BY Zenon, <4>1, PatternsAreWords
      <4> QED BY <3>1, <4>2 DEF Words
    <3> QED BY Zenon, <3>2, <3>3, PatternsAreWords
  <2>3. Rounds(f, words, many, p) \in Sound
    BY <1>3, <2>2, RoundsSound
  <2> QED BY <1>2, <1>8, <2>1, <2>3 DEF test_bitspread_comparison
<1>12. test_bitflip_comparison(f, words, d) \in Sound
  <2>1. PICK p : p = [n \in 0..511 |->
                        Alternate(IF n % 2 = 0 THEN Flip(Shl(n \div 8)) ELSE Shl(n \div 8))]
    OBVIOUS
  <2>2. ASSUME NEW j \in 0..(8 * few - 1), NEW i \in Index PROVE p[j][i] \in Words
    <3>1. j \in 0..511 /\ j \div 8 \in Nat
      BY <1>3
    <3>2. Shl(j \div 8) \in Words /\ Flip(Shl(j \div 8)) \in Words
      BY <3>1, PatternsAreWords
    <3> QED BY <2>1, <3>1, <3>2, PatternsAreWords
  <2>3. Rounds(f, words, 8 * few, p) \in Sound
    BY <1>3, <2>2, RoundsSound
  <2> QED BY <1>1, <2>1, <2>3 DEF test_bitflip_comparison, UL_LEN
<1> QED BY <1>4, <1>5, <1>6, <1>9, <1>10, <1>11, <1>12


\* What the tests of random values draw are words, and so is what they make of them.
LEMMA RandomSound ==
    ASSUME Count \in Nat, NEW f, f.kind = "none", NEW words \in Region, Samples \subseteq Words
    PROVE  /\ \A r \in [Index -> Samples] : test_random_value(f, words, r) \in Sound
           /\ \A q \in Samples : test_seqinc_comparison(f, words, q) \in Sound
<1>1. ASSUME NEW r \in [Index -> Samples] PROVE test_random_value(f, words, r) \in Sound
  <2>1. Fill(f, words, r) \in Twins
    BY FillSound
  <2> QED BY <2>1, VerdictSound DEF test_random_value
<1>2. ASSUME NEW q \in Samples PROVE test_seqinc_comparison(f, words, q) \in Sound
  <2>1. PICK p : p = [i \in Index |-> Add(BitsOf(i), q)]
    OBVIOUS
  <2>2. ASSUME NEW i \in Index PROVE p[i] \in Words
    <3>1. i \in Nat /\ q \in Words
      BY DEF Index
    <3>2. BitsOf(i) \in Words
      BY Zenon, <3>1, PatternsAreWords
    <3>3. Add(BitsOf(i), q) \in Words
      BY Zenon, <3>1, <3>2, PatternsAreWords
    <3> QED BY <2>1, <3>3
  <2>3. Fill(f, words, p) \in Twins
    BY <2>2, FillSound
  <2> QED BY <2>1, <2>3, VerdictSound DEF test_seqinc_comparison
<1> QED BY <1>1, <1>2

\* The tests that change what is there keep like halves alike.
LEMMA ChangesSound ==
    ASSUME Count \in Nat, NEW f, f.kind = "none", NEW words \in Twins, Samples \subseteq Words
    PROVE  /\ \A q \in Samples : /\ test_xor_comparison(f, words, q) \in Sound
                                 /\ test_or_comparison(f, words, q) \in Sound
                                 /\ test_and_comparison(f, words, q) \in Sound
           /\ \A g \in Results(f, words) : /\ test_sub_comparison(f, words, g) \in Sound
                                         /\ test_mul_comparison(f, words, g) \in Sound
                                         /\ test_div_comparison(f, words, g) \in Sound
<1>1. \A i \in Index : words[<<1, i>>] \in Words
  BY CellsAre DEF Twins, Region
<1>2. ASSUME NEW g, \A w \in Words : g[w] \in Words
      PROVE  Verdict(f, Update(f, words, g)) \in Sound
  <2>1. Update(f, words, g) \in Twins
    BY <1>1, <1>2, UpdateSound
  <2> QED BY <2>1, VerdictSound
<1>3. ASSUME NEW q \in Samples
      PROVE  /\ test_xor_comparison(f, words, q) \in Sound
             /\ test_or_comparison(f, words, q) \in Sound
             /\ test_and_comparison(f, words, q) \in Sound
  <2>1. PICK x : x = [w \in Words |-> Xor(w, q)]
    OBVIOUS
  <2>2. PICK o : o = [w \in Words |-> w \cup q]
    OBVIOUS
  <2>3. PICK a : a = [w \in Words |-> w \cap q]
    OBVIOUS
  <2>4. \A w \in Words : Xor(w, q) \in Words /\ w \cup q \in Words /\ w \cap q \in Words
    <3>1. q \in Words
      OBVIOUS
    <3>2. \A w \in Words : Xor(w, q) \in Words
      BY Zenon, <3>1, PatternsAreWords
    <3> QED BY <3>1, <3>2 DEF Words
  <2>5. /\ \A w \in Words : x[w] \in Words
        /\ \A w \in Words : o[w] \in Words
        /\ \A w \in Words : a[w] \in Words
    BY <2>1, <2>2, <2>3, <2>4
  <2>6. /\ Verdict(f, Update(f, words, x)) \in Sound
        /\ Verdict(f, Update(f, words, o)) \in Sound
        /\ Verdict(f, Update(f, words, a)) \in Sound
    BY <1>2, <2>5
  <2> QED BY <2>1, <2>2, <2>3, <2>6 DEF test_xor_comparison, test_or_comparison, test_and_comparison
<1>4. ASSUME NEW g \in Results(f, words)
      PROVE  /\ test_sub_comparison(f, words, g) \in Sound
             /\ test_mul_comparison(f, words, g) \in Sound
             /\ test_div_comparison(f, words, g) \in Sound
  <2>1. \A i \in Index : g[words[<<1, i>>]] \in Words
    <3> SUFFICES ASSUME NEW i \in Index PROVE g[words[<<1, i>>]] \in Words
      OBVIOUS
    <3>1. <<1, i>> \in Cells /\ Load(f, words, <<1, i>>) = words[<<1, i>>]
      BY CellsAre, SoundLoad
    <3>2. words[<<1, i>>] \in Held(f, words)
      BY <3>1 DEF Held
    <3> QED BY <3>2 DEF Results
  <2>2. Update(f, words, g) \in Twins
    BY <2>1, UpdateSound
  <2>3. Verdict(f, Update(f, words, g)) \in Sound
    BY <2>2, VerdictSound
  <2> QED BY <2>3 DEF test_sub_comparison, test_mul_comparison, test_div_comparison
<1> QED BY <1>3, <1>4

-----------------------------------------------------------------------------
\* One half is set to the same word; the other stays.
HalfSet(new, old, h, g, w) ==
    /\ new \in Region
    /\ \A k \in Index : new[<<h, k>>] = w /\ new[<<g, k>>] = old[<<g, k>>]

\* memset of one half.
LEMMA MemsetSound ==
    ASSUME Count \in Nat, NEW f, f.kind = "none", NEW words \in Region, NEW q,
           NEW h \in {1, 2}, NEW g \in {1, 2}, g # h
    PROVE  HalfSet(Memset(f, words, h, q), words, h, g, UL_BYTE(q))
<1> DEFINE Body == [i \in Index |-> [s \in Region |-> Store(f, s, <<h, i>>, UL_BYTE(q))]]
           Good == [j \in 0..Count |->
                      {s \in Region : /\ \A k \in 0..(j - 1) : s[<<h, k>>] = UL_BYTE(q)
                                      /\ \A k \in Index : s[<<g, k>>] = words[<<g, k>>]}]
<1>1. Memset(f, words, h, q) = Loop(Body, words, Count)
  BY DEF Memset
<1>2. ASSUME NEW i \in 0..(Count - 1), NEW s \in Good[i] PROVE Body[i][s] \in Good[i + 1]
  <2>1. i \in Index /\ i \in 0..Count /\ i + 1 \in 0..Count /\ (i + 1) - 1 = i
    BY DEF Index
  <2>2. /\ s \in Region /\ \A k \in 0..(i - 1) : s[<<h, k>>] = UL_BYTE(q)
        /\ \A k \in Index : s[<<g, k>>] = words[<<g, k>>]
    BY <1>2, <2>1
  <2>3. PICK u : u = Body[i][s]
    OBVIOUS
  <2>4. Written(u, s, <<h, i>>, UL_BYTE(q))
    <3>1. u = Store(f, s, <<h, i>>, UL_BYTE(q))
      BY <2>1, <2>2, <2>3
    <3>2. UL_BYTE(q) \in Words /\ <<h, i>> \in Cells
      BY <2>1, CellsAre DEF UL_BYTE, Words
    <3> QED BY Zenon, <2>2, <3>1, <3>2, SoundMemory
  <2> HIDE DEF Body
  <2>5. ASSUME NEW k \in 0..i PROVE u[<<h, k>>] = UL_BYTE(q)
    <3>1. k \in Index /\ (k # i => k \in 0..(i - 1)) /\ <<h, k>> \in Cells
      BY <2>1, CellsAre DEF Index
    <3> QED BY <2>2, <2>4, <3>1 DEF Written
  <2>6. ASSUME NEW k \in Index PROVE u[<<g, k>>] = words[<<g, k>>]
    <3>1. <<g, k>> \in Cells /\ <<g, k>> # <<h, i>>
      BY CellsAre
    <3> QED BY <2>2, <2>4, <3>1 DEF Written
  <2> QED BY <2>1, <2>3, <2>4, <2>5, <2>6 DEF Written
<1>3. words \in Good[0] /\ Count \in 0..Count /\ \A k \in Index : k \in 0..(Count - 1)
  BY DEF Index
<1>4. Loop(Body, words, Count) \in Good[Count]
  <2> HIDE DEF Body, Good
  <2> QED BY <1>2, <1>3, LoopKeeps
<1> QED BY <1>1, <1>3, <1>4 DEF HalfSet

\* A fill of the two halves with one byte leaves them alike.
LEMMA BothSetSound ==
    ASSUME Count \in Nat, NEW f, f.kind = "none", NEW words \in Region, NEW q
    PROVE  BothSet(f, words, q) \in Twins
<1>1. PICK s : s = Memset(f, words, 1, q)
  OBVIOUS
<1>2. HalfSet(s, words, 1, 2, UL_BYTE(q)) /\ s \in Region
  <2>1. HalfSet(s, words, 1, 2, UL_BYTE(q))
    BY <1>1, MemsetSound
  <2> QED BY <2>1 DEF HalfSet
<1>3. PICK t : t = Memset(f, s, 2, q)
  OBVIOUS
<1>4. HalfSet(t, s, 2, 1, UL_BYTE(q))
  BY <1>2, <1>3, MemsetSound
<1> QED BY <1>1, <1>2, <1>3, <1>4 DEF BothSet, HalfSet, Twins, Equal

\* A copy of equal halves changes nothing that tells them apart.
LEMMA MemcpySound ==
    ASSUME Count \in Nat, NEW f, f.kind = "none", NEW words \in Twins
    PROVE  Memcpy(f, words) \in Twins
<1> DEFINE Body == [i \in Index |-> [s \in Region |-> Store(f, s, <<1, i>>, Load(f, s, <<2, i>>))]]
           Good == [j \in 0..Count |-> Twins]
<1>1. Memcpy(f, words) = Loop(Body, words, Count)
  BY DEF Memcpy
<1>2. ASSUME NEW i \in 0..(Count - 1), NEW s \in Good[i] PROVE Body[i][s] \in Good[i + 1]
  <2>1. i \in Index /\ i \in 0..Count /\ i + 1 \in 0..Count /\ s \in Twins
    BY <1>2 DEF Index
  <2>2. /\ s \in Region /\ \A k \in Index : s[<<1, k>>] = s[<<2, k>>]
    BY <2>1 DEF Twins, Equal
  <2>3. PICK u : u = Body[i][s]
    OBVIOUS
  <2>4. Written(u, s, <<1, i>>, s[<<2, i>>])
    <3>1. u = Store(f, s, <<1, i>>, s[<<2, i>>])
      BY <2>1, <2>2, <2>3, SoundLoad
    <3>2. s[<<2, i>>] \in Words /\ <<1, i>> \in Cells
      BY <2>1, <2>2, CellsAre DEF Region
    <3> QED BY Zenon, <2>2, <3>1, <3>2, SoundMemory
  <2> HIDE DEF Body
  <2>5. ASSUME NEW k \in Index PROVE u[<<1, k>>] = u[<<2, k>>]
    <3>1. <<1, k>> \in Cells /\ <<2, k>> \in Cells /\ <<2, k>> # <<1, i>>
          /\ (k # i => <<1, k>> # <<1, i>>)
      BY CellsAre
    <3> QED BY <2>2, <2>4, <3>1 DEF Written
  <2> QED BY <2>1, <2>3, <2>4, <2>5 DEF Written, Twins, Equal
<1>3. words \in Good[0] /\ Good[Count] = Twins
  OBVIOUS
<1> HIDE DEF Body, Good
<1> QED BY <1>1, <1>2, <1>3, LoopKeeps


\* The comparisons after each word pass.
LEMMA MemcmpSound ==
    ASSUME Count \in Nat, NEW f, f.kind = "none", NEW words \in Region, NEW q,
           Samples \subseteq Words, NEW r \in [Index -> Samples]
    PROVE  test_stress_memcmp(f, words, q, r) \in Sound
<1> DEFINE Body == [i \in Index |->
             [t \in Tested |->
                 IF t.rc # 0 THEN t
                 ELSE Verdict(f, Store(f, Store(f, t.mem, <<2, i>>, r[i]), <<1, i>>, r[i]))]]
           Good == [j \in 0..Count |-> Sound]
           first == [mem |-> BothSet(f, words, q), rc |-> 0]
<1>1. test_stress_memcmp(f, words, q, r) = Loop(Body, first, Count)
  BY DEF test_stress_memcmp
<1>2. ASSUME NEW i \in 0..(Count - 1), NEW t \in Good[i] PROVE Body[i][t] \in Good[i + 1]
  <2>1. i \in Index /\ i \in 0..Count /\ i + 1 \in 0..Count
    BY DEF Index
  <2>2. t \in Tested /\ t.rc = 0 /\ t.mem \in Twins /\ t.mem \in Region
    BY <1>2, <2>1 DEF Sound, Twins
  <2>3. PICK u : u = Store(f, Store(f, t.mem, <<2, i>>, r[i]), <<1, i>>, r[i])
    OBVIOUS
  <2>4. Body[i][t] = Verdict(f, u)
    BY <2>1, <2>2, <2>3
  <2>5. BothHold(u, t.mem, i, r[i])
    <3>1. r[i] \in Words
      BY <2>1
    <3>2. BothHold(Store(f, Store(f, t.mem, <<2, i>>, r[i]), <<1, i>>, r[i]), t.mem, i, r[i])
      BY <2>1, <2>2, <3>1, StoreBoth
    <3> QED BY <2>3, <3>2
  <2>6. u \in Twins
    BY <2>2, <2>5 DEF BothHold, Twins, Equal
  <2> HIDE DEF Body
  <2> QED BY <2>1, <2>4, <2>6, VerdictSound
<1>3. first \in Good[0] /\ Good[Count] = Sound
  <2>1. BothSet(f, words, q) \in Twins
    BY BothSetSound
  <2> QED BY <2>1 DEF Sound, Tested, Twins
<1> HIDE DEF Body, Good, first
<1> QED BY <1>1, <1>2, <1>3, LoopKeeps

\* The stress suite sets both halves before it compares them.
LEMMA StressSound ==
    ASSUME Count \in Nat, NEW f, f.kind = "none", NEW words \in Region, NEW q
    PROVE  /\ test_stress_memcpy(f, words, q) \in Sound
           /\ \A last : test_stress_memset(f, words, q, last) \in Sound
<1>1. PICK s : s = BothSet(f, words, q)
  OBVIOUS
<1>2. s \in Twins /\ s \in Region
  BY <1>1, BothSetSound DEF Twins
<1>3. test_stress_memcpy(f, words, q) \in Sound
  <2>1. PICK t : t = Memcpy(f, s)
    OBVIOUS
  <2>2. t \in Twins
    BY <1>2, <2>1, MemcpySound
  <2>3. Memcpy(f, t) \in Twins
    BY <2>2, MemcpySound
  <2> QED BY <1>1, <2>1, <2>3, VerdictSound DEF test_stress_memcpy
<1>4. ASSUME NEW last PROVE test_stress_memset(f, words, q, last) \in Sound
  <2>1. BothSet(f, s, last) \in Twins
    BY <1>2, BothSetSound
  <2> QED BY <1>1, <2>1, VerdictSound DEF test_stress_memset
<1> QED BY <1>3, <1>4

-----------------------------------------------------------------------------
\* The multiples of a number on either side of 0 and 1.
LEMMA Multiples ==
    ASSUME NEW N \in Nat \ {0}, NEW a \in Int
    PROVE  /\ N * a \in Int /\ (a = 0 => N * a = 0) /\ (a = 1 => N * a = N)
           /\ (a < 0 => N * a <= -N) /\ (a > 1 => N * a >= 2 * N)
<1>1. ASSUME a < 0 PROVE N * a <= -N
  <2>1. N * (a + 1) <= 0 /\ N * (a + 1) = N * a + N
    BY <1>1
  <2> QED BY <2>1
<1>2. ASSUME a > 1 PROVE N * a >= 2 * N
  <2>1. N * (a - 2) >= 0 /\ N * (a - 2) = N * a - 2 * N
    BY <1>2
  <2> QED BY <2>1
<1> QED BY <1>1, <1>2

\* Division of a number below twice the divisor.
LEMMA Divided ==
    ASSUME NEW N \in Nat \ {0}, NEW r \in 0..(N - 1)
    PROVE  /\ r \div N = 0 /\ r % N = r
           /\ (N + r) \div N = 1 /\ (N + r) % N = r
<1>1. ASSUME NEW x \in Int
      PROVE  x \div N \in Int /\ x = N * (x \div N) + (x % N) /\ x % N \in 0..(N - 1)
  <2>1. N \in Int /\ N > 0
    OBVIOUS
  <2>2. PICK a : a = x \div N
    OBVIOUS
  <2>3. a \in Int /\ x = N * a + (x % N) /\ x % N \in 0..(N - 1)
    BY <2>1, <2>2
  <2> QED BY <2>2, <2>3
<1>2. r \div N = 0 /\ r % N = r
  <2>1. PICK a : a = r \div N
    OBVIOUS
  <2>2. PICK b : b = r % N
    OBVIOUS
  <2>3. a \in Int /\ r = N * a + b /\ b \in 0..(N - 1)
    BY <1>1, <2>1, <2>2
  <2>4. PICK p : p = N * a
    OBVIOUS
  <2>5. /\ p \in Int /\ (a = 0 => p = 0) /\ (a = 1 => p = N)
        /\ (a < 0 => p <= -N) /\ (a > 1 => p >= 2 * N)
    BY <2>3, <2>4, Multiples
  <2>6. a = 0 /\ b = r
    BY <2>3, <2>4, <2>5
  <2> QED BY <2>1, <2>2, <2>6
<1>3. (N + r) \div N = 1 /\ (N + r) % N = r
  <2>0. PICK x : x = N + r
    OBVIOUS
  <2>1. PICK a : a = x \div N
    OBVIOUS
  <2>2. PICK b : b = x % N
    OBVIOUS
  <2>3. a \in Int /\ x = N * a + b /\ b \in 0..(N - 1) /\ x \in Int
    <3>1. x \in Int
      BY <2>0
    <3> QED BY <1>1, <2>1, <2>2, <3>1
  <2>4. PICK p : p = N * a
    OBVIOUS
  <2>5. /\ p \in Int /\ (a = 0 => p = 0) /\ (a = 1 => p = N)
        /\ (a < 0 => p <= -N) /\ (a > 1 => p >= 2 * N)
    BY <2>3, <2>4, Multiples
  <2>6. a = 1 /\ b = r
    BY <2>0, <2>3, <2>4, <2>5
  <2> QED BY <2>0, <2>1, <2>2, <2>6
<1> QED BY <1>2, <1>3

\* The words of a region have each a number of their own.
LEMMA CellsNumbered ==
    ASSUME Count \in Nat \ {0}
    PROVE  /\ \A n \in 0..(2 * Count - 1) : Cell(n) \in Cells
           /\ \A n, m \in 0..(2 * Count - 1) : n # m => Cell(n) # Cell(m)
           /\ \A c \in Cells : Place(c) \in 0..(2 * Count - 1) /\ Cell(Place(c)) = c
<1>1. ASSUME NEW i \in Index
      PROVE  /\ i \div Count = 0 /\ i % Count = i
             /\ (Count + i) \div Count = 1 /\ (Count + i) % Count = i
  <2>1. i \in 0..(Count - 1) /\ i \in Int /\ Count + i \in Int
    BY DEF Index
  <2> QED BY <2>1, Divided
<1>2. \A i \in Index : Cell(i) = <<1, i>> /\ Cell(Count + i) = <<2, i>>
  BY <1>1 DEF Cell
<1>3. ASSUME NEW n \in 0..(2 * Count - 1)
      PROVE  n \in Index \/ \E i \in Index : n = Count + i
  <2>1. CASE n < Count
    BY <2>1 DEF Index
  <2>2. CASE ~(n < Count)
    <3>1. n - Count \in Index /\ n = Count + (n - Count)
      BY <2>2 DEF Index
    <3> QED BY <3>1
  <2> QED BY <2>1, <2>2
<1>4. \A n \in 0..(2 * Count - 1) : Cell(n) \in Cells /\ Place(Cell(n)) = n
  <2>1. ASSUME NEW i \in Index
        PROVE /\ Cell(i) \in Cells /\ Place(Cell(i)) = i
              /\ Cell(Count + i) \in Cells /\ Place(Cell(Count + i)) = Count + i
    <3>1. Cell(i) = <<1, i>> /\ Cell(Count + i) = <<2, i>> /\ i \in Int
      BY <1>2 DEF Index
    <3> QED BY <3>1, CellsAre DEF Place
  <2> QED BY <1>3, <2>1
<1>5. ASSUME NEW c \in Cells PROVE Place(c) \in 0..(2 * Count - 1) /\ Cell(Place(c)) = c
  <2>1. PICK h \in {1, 2}, i \in Index : c = <<h, i>>
    BY DEF Cells
  <2>2. Place(c) = (h - 1) * Count + i
    BY <2>1 DEF Place
  <2>3. CASE h = 1
    <3>1. Place(c) = i
      BY <2>2, <2>3 DEF Index
    <3> QED BY <1>2, <2>1, <2>3, <3>1 DEF Index
  <2>4. CASE h = 2
    <3>1. Place(c) = Count + i
      BY <2>2, <2>4 DEF Index
    <3> QED BY <1>2, <2>1, <2>4, <3>1 DEF Index
  <2> QED BY <2>3, <2>4
<1> QED BY <1>4, <1>5


\* What a round of the address test writes is what it reads back.
LEMMA RoundSound ==
    ASSUME Count \in Nat \ {0}, NEW f, f.kind = "none", NEW words \in Region, NEW j \in Nat
    PROVE  AddressRound(f, words, j) \in {t \in Tested : t.rc = 0}
<1> DEFINE last == 2 * Count - 1
           Body == [n \in 0..last |->
                      [s \in Region |-> Store(f, s, Cell(n), AddressPattern(j, Cell(n)))]]
           Good == [n \in 0..(2 * Count) |->
                      {s \in Region : \A m \in 0..(n - 1) : s[Cell(m)] = AddressPattern(j, Cell(m))}]
<1>1. Addressed(f, words, j) = Loop(Body, words, 2 * Count)
  BY DEF Addressed
<1>2. \A c \in Cells : AddressPattern(j, c) \in Words
  <2> SUFFICES ASSUME NEW c \in Cells PROVE AddressPattern(j, c) \in Words
    OBVIOUS
  <2>1. Address(c) \in Words
    BY DEF Address, BitsOf, Words, BitIndex, UL_LEN
  <2>2. Flip(Address(c)) \in Words
    BY Zenon, <2>1, PatternsAreWords
  <2> QED BY Zenon, <2>1, <2>2 DEF AddressPattern
<1>3. ASSUME NEW n \in 0..last, NEW s \in Good[n] PROVE Body[n][s] \in Good[n + 1]
  <2>1. n \in 0..(2 * Count) /\ n + 1 \in 0..(2 * Count) /\ (n + 1) - 1 = n
    OBVIOUS
  <2>2. s \in Region /\ \A m \in 0..(n - 1) : s[Cell(m)] = AddressPattern(j, Cell(m))
    BY <1>3, <2>1
  <2>3. PICK u : u = Body[n][s]
    OBVIOUS
  <2>4. Cell(n) \in Cells
    BY CellsNumbered
  <2>5. Written(u, s, Cell(n), AddressPattern(j, Cell(n)))
    <3>1. u = Store(f, s, Cell(n), AddressPattern(j, Cell(n)))
      BY <2>2, <2>3
    <3>2. AddressPattern(j, Cell(n)) \in Words
      BY <1>2, <2>4
    <3> QED BY Zenon, <2>2, <2>4, <3>1, <3>2, SoundMemory
  <2> HIDE DEF Body
  <2>6. ASSUME NEW m \in 0..n PROVE u[Cell(m)] = AddressPattern(j, Cell(m))
    <3>1. CASE m = n
      BY <2>5, <3>1 DEF Written
    <3>2. CASE m # n
      <4>1. m \in 0..last /\ n \in 0..last /\ m \in 0..(n - 1)
        BY <3>2
      <4>2. Cell(m) \in Cells /\ Cell(m) # Cell(n)
        BY <3>2, <4>1, CellsNumbered
      <4> QED BY <2>2, <2>5, <4>1, <4>2 DEF Written
    <3> QED BY <3>1, <3>2
  <2> QED BY <2>1, <2>3, <2>5, <2>6 DEF Written
<1>4. words \in Good[0] /\ 2 * Count \in Nat /\ 2 * Count \in 0..(2 * Count) /\ last = 2 * Count - 1
  OBVIOUS
<1>5. PICK s : s = Addressed(f, words, j)
  OBVIOUS
<1>6. s \in Good[2 * Count]
  <2> HIDE DEF Body, Good
  <2> QED BY <1>1, <1>3, <1>4, <1>5, LoopKeeps
<1>7. s \in Region /\ \A c \in Cells : s[c] = AddressPattern(j, c)
  <2>1. s \in Region /\ \A m \in 0..last : s[Cell(m)] = AddressPattern(j, Cell(m))
    BY <1>4, <1>6
  <2> QED BY <2>1, CellsNumbered
<1>8. ~Misread(f, s, j)
  BY <1>7, SoundLoad DEF Misread
<1>9. AddressRound(f, words, j) = [mem |-> s, rc |-> 0]
  BY <1>5, <1>7, <1>8 DEF AddressRound
<1> QED BY <1>7, <1>9 DEF Tested

\* The address test passes; what it leaves in the halves differs.
LEMMA AddressSound ==
    ASSUME Count \in Nat \ {0}, NEW f, f.kind = "none", NEW words \in Region,
           NEW d \in {1, 4, 16}
    PROVE  test_stuck_address(f, words, d) \in {t \in Tested : t.rc = 0}
<1> DEFINE Body == [j \in 0..15 |->
                      [t \in Tested |-> IF t.rc # 0 THEN t ELSE AddressRound(f, t.mem, j)]]
           Good == [j \in 0..16 |-> {t \in Tested : t.rc = 0}]
           first == [mem |-> words, rc |-> 0]
<1>1. PICK n : n = 16 \div d
  OBVIOUS
<1>2. n \in 1..16
  BY <1>1, Fewer
<1>3. test_stuck_address(f, words, d) = Loop(Body, first, n)
  BY <1>1 DEF test_stuck_address
<1>4. ASSUME NEW j \in 0..(n - 1), NEW t \in Good[j] PROVE Body[j][t] \in Good[j + 1]
  <2>1. j \in 0..16 /\ j + 1 \in 0..16 /\ j \in 0..15 /\ j \in Nat
    BY <1>2
  <2>2. t \in Tested /\ t.rc = 0 /\ t.mem \in Region
    BY <1>4, <2>1 DEF Tested
  <2>3. Body[j][t] = AddressRound(f, t.mem, j)
    BY <2>1, <2>2
  <2>4. AddressRound(f, t.mem, j) \in {x \in Tested : x.rc = 0}
    BY <2>1, <2>2, RoundSound
  <2> HIDE DEF Body
  <2> QED BY <2>1, <2>3, <2>4
<1>5. first \in Good[0] /\ Good[n] = {t \in Tested : t.rc = 0} /\ n \in Nat
  BY <1>2 DEF Tested
<1> HIDE DEF Body, Good, first
<1> QED BY <1>3, <1>4, <1>5, LoopKeeps


-----------------------------------------------------------------------------
\* The tests by what they need: those that write both halves, those that go through
\* fixed patterns, and those that change what they find.
WritesBoth == {"random_value", "seqinc_comparison", "stress_memcpy", "stress_memset",
               "stress_memcmp"}
Fixed == {"solidbits_comparison", "blockseq_comparison", "checkerboard_comparison",
          "bitspread_comparison", "bitflip_comparison", "walkbits1_comparison",
          "walkbits0_comparison"}
Changes == {"xor_comparison", "sub_comparison", "mul_comparison", "div_comparison",
            "or_comparison", "and_comparison"}

\* Every test of the tables passes on sound memory and leaves the halves alike; those that
\* write nothing of their own need them alike before.
LEMMA OutcomesSound ==
    ASSUME Count \in Nat \ {0}, Samples \subseteq Words, NEW f, f.kind = "none", NEW s \in Region,
           NEW d \in {1, 4, 16}, NEW name,
           name \in WritesBoth \/ (name \in Fixed \cup Changes /\ s \in Twins)
    PROVE  Outcomes(name, f, s, d) \subseteq Sound
<1>1. CASE name = "random_value"
  <2>1. Outcomes(name, f, s, d) = {test_random_value(f, s, r) : r \in [Index -> Samples]}
    BY <1>1 DEF Outcomes
  <2> QED BY <2>1, RandomSound
<1>2. CASE name = "seqinc_comparison"
  <2>1. Outcomes(name, f, s, d) = {test_seqinc_comparison(f, s, q) : q \in Samples}
    BY <1>2 DEF Outcomes
  <2> QED BY <2>1, RandomSound
<1>3. CASE name = "stress_memcpy"
  <2>1. Outcomes(name, f, s, d) = {test_stress_memcpy(f, s, q) : q \in Samples}
    BY <1>3 DEF Outcomes
  <2>2. ASSUME NEW q \in Samples PROVE test_stress_memcpy(f, s, q) \in Sound
    BY StressSound
  <2> QED BY <2>1, <2>2
<1>4. CASE name = "stress_memset"
  <2>1. Outcomes(name, f, s, d)
          = {test_stress_memset(f, s, q[1], q[2]) : q \in Samples \X Samples}
    BY <1>4 DEF Outcomes
  <2>2. ASSUME NEW q, NEW last PROVE test_stress_memset(f, s, q, last) \in Sound
    BY StressSound
  <2> QED BY <2>1, <2>2
<1>5. CASE name = "stress_memcmp"
  <2>1. Outcomes(name, f, s, d)
          = {test_stress_memcmp(f, s, r[1], r[2]) : r \in Samples \X [Index -> Samples]}
    BY <1>5 DEF Outcomes
  <2>2. ASSUME NEW q, NEW r \in [Index -> Samples] PROVE test_stress_memcmp(f, s, q, r) \in Sound
    BY MemcmpSound
  <2> QED BY <2>1, <2>2
<1>6. CASE name \in Fixed /\ s \in Twins
  <2>1. /\ test_solidbits_comparison(f, s, d) \in Sound
        /\ test_checkerboard_comparison(f, s, d) \in Sound
        /\ test_blockseq_comparison(f, s, d) \in Sound
        /\ test_walkbits0_comparison(f, s, d) \in Sound
        /\ test_walkbits1_comparison(f, s, d) \in Sound
        /\ test_bitspread_comparison(f, s, d) \in Sound
        /\ test_bitflip_comparison(f, s, d) \in Sound
    BY <1>6, FixedSound
  <2>2. Outcomes(name, f, s, d) \in
          {{test_solidbits_comparison(f, s, d)}, {test_checkerboard_comparison(f, s, d)},
           {test_blockseq_comparison(f, s, d)}, {test_walkbits0_comparison(f, s, d)},
           {test_walkbits1_comparison(f, s, d)}, {test_bitspread_comparison(f, s, d)},
           {test_bitflip_comparison(f, s, d)}}
    BY <1>6 DEF Outcomes, Fixed
  <2> QED BY <2>1, <2>2
<1>7. CASE name \in Changes /\ s \in Twins
  <2>1. /\ \A q \in Samples : /\ test_xor_comparison(f, s, q) \in Sound
                              /\ test_or_comparison(f, s, q) \in Sound
                              /\ test_and_comparison(f, s, q) \in Sound
        /\ \A g \in Results(f, s) : /\ test_sub_comparison(f, s, g) \in Sound
                                    /\ test_mul_comparison(f, s, g) \in Sound
                                    /\ test_div_comparison(f, s, g) \in Sound
    BY <1>7, ChangesSound
  <2>2. Outcomes(name, f, s, d) \in
          {{test_xor_comparison(f, s, q) : q \in Samples},
           {test_or_comparison(f, s, q) : q \in Samples},
           {test_and_comparison(f, s, q) : q \in Samples},
           {test_sub_comparison(f, s, g) : g \in Results(f, s)},
           {test_mul_comparison(f, s, g) : g \in Results(f, s)},
           {test_div_comparison(f, s, g) : g \in Results(f, s)}}
    BY <1>7 DEF Outcomes, Changes
  <2> QED BY <2>1, <2>2
<1> QED BY <1>1, <1>2, <1>3, <1>4, <1>5, <1>6, <1>7 DEF WritesBoth


-----------------------------------------------------------------------------
\* A worker is at a job of the table or at the address test.
JobsKnown ==
    dividend \in {1, 4, 16} /\ \A w \in Workers : worker[w].currentJobId \in JobNumbers

\* Where the next test works on what is there, the halves of sound memory are alike.
MemRight ==
    fault.kind = "none" =>
        /\ mem \in Region
        /\ share[Watched] # 0 /\ worker[Watched].currentJobId > 0 => mem \in Twins

\* SoundMemoryPasses is about the reports; which tests a worker may be at, and what
\* they need of the memory, is what carries it over the suites and the loops.
SoundIInv == HandshakeIInv /\ JobsKnown /\ MemRight /\ SoundMemoryPasses

\* At the menu the memory is as the allocator gives it.
LEMMA SoundInit == MemTesterInit => JobsKnown /\ MemRight /\ SoundMemoryPasses
<1> SUFFICES ASSUME MemTesterInit PROVE JobsKnown /\ MemRight /\ SoundMemoryPasses
  OBVIOUS
<1> USE DEF MemTesterInit
<1>1. JobsKnown
  <2>1. -1 \in JobNumbers
    BY TableLength DEF JobNumbers
  <2> QED BY <2>1 DEF JobsKnown
<1>2. fault.kind = "none" => mem \in Region
  BY DEF Fresh, Region, Words
<1> QED BY <1>1, <1>2, MemTesterAssumption DEF MemRight, SoundMemoryPasses

\* Steps in which no worker runs a test leave the memory and its job as they are.
LEMMA SoundElsewhere ==
    ASSUME SoundIInv, UNCHANGED <<fault, mem>>, dividend' \in {1, 4, 16},
           \A w \in Workers : worker'[w].currentJobId = worker[w].currentJobId,
           share' = share \/ worker[Watched].currentJobId = -1,
           test_select' = test_select \/ \A w \in Workers : worker[w].currentJobId = -1,
           test_select' \in {"tests", "stress_tests"},
           \A w \in Workers : testWorkerReport'[w] = -1 => testWorkerReport[w] = -1
    PROVE  (JobsKnown /\ MemRight /\ SoundMemoryPasses)'
<1>1. JobsKnown'
  <2>1. CASE test_select' = test_select
    BY <2>1 DEF SoundIInv, JobsKnown, JobNumbers, Selected
  <2>2. CASE \A w \in Workers : worker[w].currentJobId = -1
    <3>1. Len(Selected') \in {15, 3}
      <4>1. Len(tests) = 15 /\ Len(stress_tests) = 3
        BY DEF tests, stress_tests
      <4> QED BY <4>1 DEF Selected
    <3>2. -1 \in JobNumbers'
      BY <3>1 DEF JobNumbers
    <3> QED BY <2>2, <3>2 DEF JobsKnown
  <2> QED BY <2>1, <2>2
<1>2. MemRight'
  BY MemTesterAssumption DEF SoundIInv, MemRight
<1>3. SoundMemoryPasses'
  BY DEF SoundIInv, SoundMemoryPasses
<1> QED BY <1>1, <1>2, <1>3

\* The tests of both tables, by what they need.
LEMMA TestsKnown ==
    ASSUME test_select \in {"tests", "stress_tests"}, NEW k \in JobNumbers, k # -1
    PROVE  /\ Selected[k + 1] \in WritesBoth \cup Fixed \cup Changes
           /\ k = 0 => Selected[k + 1] \in WritesBoth
<1>1. CASE test_select = "tests"
  <2>1. k \in 0..14
    BY <1>1, TableLength DEF JobNumbers, Selected, tests
  <2> QED BY <1>1, <2>1 DEF Selected, tests, WritesBoth, Fixed, Changes
<1>2. CASE test_select = "stress_tests"
  <2>1. k \in 0..2
    BY <1>2, TableLength DEF JobNumbers, Selected, stress_tests
  <2> QED BY <1>2, <2>1 DEF Selected, stress_tests, WritesBoth
<1> QED BY <1>1, <1>2

\* A test on sound memory.
LEMMA SoundRunJob ==
    ASSUME SoundIInv, NEW v \in Workers, RunJob(v)
    PROVE  (JobsKnown /\ MemRight /\ SoundMemoryPasses)'
<1>1. PICK k : k = worker[v].currentJobId
  OBVIOUS
<1>2. PICK t \in OutcomesOf(v, k) :
        /\ mem' = t.mem
        /\ testWorkerReport' = [testWorkerReport EXCEPT ![v] = IF t.rc = 0 THEN 1 ELSE -1]
        /\ worker' = [worker EXCEPT ![v] = IF t.rc = 0 THEN AfterJob(k)
                                           ELSE [@ EXCEPT !.at = "ended"]]
  BY <1>1 DEF RunJob
<1>3. UNCHANGED <<dividend, test_select, share, fault>>
  BY DEF RunJob, suite, ram
<1>4. /\ test_select \in {"tests", "stress_tests"} /\ k \in JobNumbers /\ dividend \in {1, 4, 16}
      /\ testWorkerReport \in [Workers -> Int]
      /\ worker \in [Workers -> [at : {"none", "new", "polls", "ended"}, currentJobId : Int]]
  BY <1>1 DEF SoundIInv, HandshakeIInv, HandshakeTypes, JobsKnown
<1>5. JobNumbers' = JobNumbers /\ AfterJob(k).currentJobId \in JobNumbers
  BY <1>3, <1>4, AfterJobMovesOn DEF JobNumbers, Selected
<1>6. /\ worker'[v].currentJobId \in {k, AfterJob(k).currentJobId}
      /\ t.rc = 0 => worker'[v].currentJobId = AfterJob(k).currentJobId
      /\ \A w \in Workers : w # v => worker'[w] = worker[w]
  BY <1>1, <1>2, <1>4
<1>7. JobsKnown'
  BY <1>3, <1>4, <1>5, <1>6 DEF SoundIInv, JobsKnown
<1>8. \A w \in Workers : testWorkerReport'[w]
        = IF w = v THEN IF t.rc = 0 THEN 1 ELSE -1 ELSE testWorkerReport[w]
  BY <1>2, <1>4
<1>9. CASE v # Watched \/ share[v] = 0
  <2>1. t = [mem |-> mem, rc |-> 0]
    BY <1>2, <1>9 DEF OutcomesOf
  <2>2. MemRight'
    <3>1. CASE v # Watched
      BY <1>2, <1>3, <1>6, <2>1, <3>1, MemTesterAssumption DEF SoundIInv, MemRight
    <3>2. CASE v = Watched /\ share[v] = 0
      BY <1>2, <1>3, <2>1, <3>2 DEF SoundIInv, MemRight
    <3> QED BY <1>9, <3>1, <3>2
  <2>3. SoundMemoryPasses'
    BY <1>3, <1>8, <2>1 DEF SoundIInv, SoundMemoryPasses
  <2> QED BY <1>7, <2>2, <2>3
<1>10. CASE v = Watched /\ share[v] # 0 /\ fault.kind # "none"
  <2>1. MemRight'
    BY <1>3, <1>10 DEF MemRight
  <2>2. SoundMemoryPasses'
    BY <1>3, <1>8, <1>10 DEF SoundIInv, SoundMemoryPasses
  <2> QED BY <1>7, <2>1, <2>2
<1>11. CASE v = Watched /\ share[v] # 0 /\ fault.kind = "none"
  <2>1. mem \in Region /\ (k > 0 => mem \in Twins)
    BY <1>1, <1>11 DEF SoundIInv, MemRight
  <2>2. t \in Tested /\ t.rc = 0 /\ (k # -1 => t.mem \in Twins)
    <3>1. CASE k = -1
      <4>1. t = test_stuck_address(fault, mem, dividend)
        BY <1>2, <1>11, <3>1 DEF OutcomesOf
      <4> QED BY <1>4, <1>11, <2>1, <3>1, <4>1, AddressSound, PatternsAssumption
    <3>2. CASE k # -1
      <4>1. t \in Outcomes(Selected[k + 1], fault, mem, dividend)
        BY <1>2, <1>11, <3>2 DEF OutcomesOf
      <4>2. PICK name : name = Selected[k + 1]
        OBVIOUS
      <4>3. k \in Int /\ k >= 0
        BY <1>4, <3>2, TableLength DEF JobNumbers
      <4>4. name \in WritesBoth \/ (name \in Fixed \cup Changes /\ mem \in Twins)
        <5>1. /\ name \in WritesBoth \cup Fixed \cup Changes
              /\ k = 0 => name \in WritesBoth
          BY <1>4, <3>2, <4>2, TestsKnown
        <5>2. k = 0 \/ mem \in Twins
          BY <2>1, <4>3
        <5> QED BY <5>1, <5>2
      <4>5. Outcomes(name, fault, mem, dividend) \subseteq Sound
        BY <1>4, <1>11, <2>1, <4>4, OutcomesSound, PatternsAssumption
      <4> QED BY <4>1, <4>2, <4>5 DEF Sound
    <3> QED BY <3>1, <3>2
  <2>3. k = -1 => worker'[v].currentJobId = 0
    <3>1. Len(Selected) \in {15, 3}
      BY <1>4, TableLength
    <3>2. ASSUME k = -1 PROVE AfterJob(k).currentJobId = 0
      <4>1. k + 1 = 0 /\ k + 1 < Len(Selected)
        <5>1. PICK n : n = Len(Selected)
          OBVIOUS
        <5>2. k + 1 = 0 /\ k + 1 < n
          BY <3>1, <3>2, <5>1
        <5> QED BY <5>1, <5>2
      <4>2. AfterJob(k) = [at |-> "polls", currentJobId |-> k + 1]
        BY <4>1 DEF AfterJob
      <4> QED BY <4>1, <4>2
    <3> QED BY <1>6, <2>2, <3>2
  <2>4. MemRight'
    BY <1>2, <1>3, <1>11, <2>2, <2>3 DEF MemRight, Tested
  <2>5. SoundMemoryPasses'
    BY <1>3, <1>8, <2>2 DEF SoundIInv, SoundMemoryPasses
  <2> QED BY <1>7, <2>4, <2>5
<1> QED BY <1>9, <1>10, <1>11

\* Every step keeps it.
LEMMA SoundStep == SoundIInv /\ [MemTesterNext]_mtVars => (JobsKnown /\ MemRight /\ SoundMemoryPasses)'
<1> SUFFICES ASSUME SoundIInv, [MemTesterNext]_mtVars
             PROVE (JobsKnown /\ MemRight /\ SoundMemoryPasses)'
  OBVIOUS
<1>1. /\ HandshakeTypes /\ BeforeStart /\ dividend \in {1, 4, 16}
      /\ test_select \in {"tests", "stress_tests"}
      /\ testWorkerReport \in [Workers -> Int]
      /\ worker \in [Workers -> [at : {"none", "new", "polls", "ended"}, currentJobId : Int]]
  BY DEF SoundIInv, HandshakeIInv, HandshakeTypes, JobsKnown
<1>2. main.at \in {"menu", "alloc", "start"} => \A w \in Workers : worker[w].currentJobId = -1
  BY <1>1 DEF BeforeStart
<1>3. CASE PressKey
  <2>1. /\ main.at = "menu" /\ dividend' \in {1, 4, 16}
        /\ test_select' \in {"tests", "stress_tests"}
        /\ UNCHANGED <<share, fault, mem, testWorkerReport, worker>>
    BY <1>1, <1>3 DEF PressKey, Pick, OtherKey, ram, suite
  <2> QED BY <1>1, <1>2, <2>1, SoundElsewhere
<1>4. CASE Allocate
  <2>1. /\ main.at = "alloc"
        /\ UNCHANGED <<dividend, test_select, fault, mem, testWorkerReport, worker>>
    BY <1>4 DEF Allocate, suite
  <2> QED BY <1>1, <1>2, <2>1, SoundElsewhere, MemTesterAssumption
<1>5. CASE StartWorkers
  <2>1. UNCHANGED <<dividend, test_select, share, fault, mem, testWorkerReport>>
    BY <1>5 DEF StartWorkers, suite, ram
  <2>2. \A w \in Workers : worker'[w].currentJobId = worker[w].currentJobId
    BY <1>1, <1>5 DEF StartWorkers
  <2> QED BY <1>1, <2>1, <2>2, SoundElsewhere
<1>6. CASE SetReady \/ SetJob \/ ErrorDetected \/ Exit \/ UNCHANGED mtVars
  <2>1. UNCHANGED <<dividend, test_select, share, fault, mem, testWorkerReport, worker>>
    BY <1>6 DEF SetReady, SetJob, ErrorDetected, Exit, suite, ram, mtVars
  <2> QED BY <1>1, <2>1, SoundElsewhere
<1>7. CASE TakeReport
  <2>1. UNCHANGED <<dividend, test_select, share, fault, mem, worker>>
    BY <1>7 DEF TakeReport, suite, ram
  <2>2. \A w \in Workers : testWorkerReport'[w] = -1 => testWorkerReport[w] = -1
    BY <1>1, <1>7 DEF TakeReport, ReportTaken
  <2> QED BY <1>1, <2>1, <2>2, SoundElsewhere
<1>8. ASSUME NEW v \in Workers, SeesReady(v) PROVE (JobsKnown /\ MemRight /\ SoundMemoryPasses)'
  <2>1. UNCHANGED <<dividend, test_select, share, fault, mem, testWorkerReport>>
    BY <1>8 DEF SeesReady, suite, ram
  <2>2. \A w \in Workers : worker'[w].currentJobId = worker[w].currentJobId
    BY <1>1, <1>8 DEF SeesReady
  <2> QED BY <1>1, <2>1, <2>2, SoundElsewhere
<1>9. ASSUME NEW v \in Workers, RunJob(v) PROVE (JobsKnown /\ MemRight /\ SoundMemoryPasses)'
  BY <1>9, SoundRunJob
<1> QED
  BY <1>3, <1>4, <1>5, <1>6, <1>7, <1>8, <1>9 DEF MemTesterNext

\* Sound memory is never reported: for any number of words, any values the random
\* generator gives, any suite, any heap and any order of main and the workers,
\* the only report of an error is that of a worker whose region has a fault. The
\* tests leave in the memory what the next one finds, so it rests on the order of
\* the tables: what follows the address test writes both halves (main.c:91-119,
\* tests.c).
THEOREM SoundMemoryPassesHolds == MemTesterSpec => []SoundMemoryPasses
<1>1. MemTesterInit => SoundIInv
  BY HandshakeInit, SoundInit DEF SoundIInv
<1>2. SoundIInv /\ [MemTesterNext]_mtVars => SoundIInv'
  BY HandshakeStep, SoundStep DEF SoundIInv
<1>3. SoundIInv => SoundMemoryPasses
  BY DEF SoundIInv
<1> QED
  BY <1>1, <1>2, <1>3, PTL DEF MemTesterSpec

-----------------------------------------------------------------------------
\* One more round.
LEMMA LoopNext ==
    ASSUME NEW n \in Nat, NEW s, NEW body
    PROVE  Loop(body, s, 0) = s /\ Loop(body, s, n + 1) = body[n][Loop(body, s, n)]
<1>1. ASSUME NEW k \in Nat
      PROVE \E g : Runs(g, k, s, body) /\ Loop(body, s, k) = g[k]
  <2>1. \E g : Runs(g, k, s, body)
    BY LoopExists
  <2> QED BY <2>1 DEF Loop, Runs
<1>2. Loop(body, s, 0) = s
  BY <1>1 DEF Runs
<1>3. PICK g : Runs(g, n, s, body) /\ Loop(body, s, n) = g[n]
  BY <1>1
<1>4. PICK h : Runs(h, n + 1, s, body) /\ Loop(body, s, n + 1) = h[n + 1]
  BY <1>1
<1>5. /\ \A j \in 0..n : g[j] = IF j = 0 THEN s ELSE body[j - 1][g[j - 1]]
      /\ \A j \in 0..(n + 1) : h[j] = IF j = 0 THEN s ELSE body[j - 1][h[j - 1]]
  BY <1>3, <1>4 DEF Runs
<1> DEFINE Off == {j \in 0..n : g[j] # h[j]}
<1>6. Off = {}
  <2> SUFFICES ASSUME Off # {} PROVE FALSE
    OBVIOUS
  <2>1. Off \subseteq Nat
    OBVIOUS
  <2>2. PICK j \in Off : \A k \in Off : j <= k
    <3> HIDE DEF Off
    <3> QED BY <2>1, LeastExists
  <2>3. j \in 0..n /\ j \in 0..(n + 1) /\ g[j] # h[j]
    BY <2>2
  <2>4. j # 0
    BY <1>5, <2>3
  <2>5. j - 1 \in 0..n /\ j - 1 \notin Off
    <3> HIDE DEF Off
    <3> QED BY <2>1, <2>2, <2>3, <2>4
  <2>6. g[j - 1] = h[j - 1]
    BY <2>5
  <2>7. g[j] = body[j - 1][g[j - 1]] /\ h[j] = body[j - 1][h[j - 1]]
    BY <1>5, <2>3, <2>4
  <2> QED BY <2>3, <2>6, <2>7
<1>7. h[n + 1] = body[n][h[n]]
  <2>1. n + 1 \in 0..(n + 1) /\ n + 1 # 0 /\ (n + 1) - 1 = n
    OBVIOUS
  <2> QED BY <1>5, <2>1
<1>8. g[n] = h[n]
  <2>1. n \in 0..n
    OBVIOUS
  <2> QED BY <1>6, <2>1
<1> QED BY <1>2, <1>3, <1>4, <1>7, <1>8

\* The sums over the workers.
LEMMA Sums ==
    ASSUME NEW s, s[0] \in Nat, s[1] \in Nat, s[2] \in Nat, s[3] \in Nat
    PROVE  /\ SumOver(s, 0) = 0 /\ SumOver(s, 1) = s[0] /\ SumOver(s, 2) = s[0] + s[1]
           /\ SumOver(s, 3) = s[0] + s[1] + s[2] /\ SumOver(s, 4) = s[0] + s[1] + s[2] + s[3]
<1> DEFINE Body == [d \in Workers |-> [acc \in Int |-> acc + s[d]]]
<1>1. SumOver(s, 0) = 0
  BY LoopNext DEF SumOver
<1>2. ASSUME NEW n \in {0, 1, 2, 3}, SumOver(s, n) \in Nat
      PROVE  SumOver(s, n + 1) = SumOver(s, n) + s[n]
  <2>1. SumOver(s, n + 1) = Body[n][SumOver(s, n)]
    <3> HIDE DEF Body
    <3>1. n \in Nat
      OBVIOUS
    <3>2. SumOver(s, n) = Loop(Body, 0, n) /\ SumOver(s, n + 1) = Loop(Body, 0, n + 1)
      BY DEF SumOver, Body
    <3>3. Loop(Body, 0, n + 1) = Body[n][Loop(Body, 0, n)]
      BY <3>1, LoopNext
    <3> QED BY <3>2, <3>3
  <2>2. n \in Workers
    BY DEF Workers
  <2> QED BY <1>2, <2>1, <2>2
<1>3. SumOver(s, 1) = s[0]
  BY <1>1, <1>2
<1>4. SumOver(s, 2) = s[0] + s[1]
  BY <1>2, <1>3
<1>5. SumOver(s, 3) = s[0] + s[1] + s[2]
  BY <1>2, <1>4
<1>6. SumOver(s, 4) = s[0] + s[1] + s[2] + s[3]
  BY <1>2, <1>5
<1> QED BY <1>1, <1>3, <1>4, <1>5, <1>6

\* What one malloc of the first allocation gives, in pages.
Got(h, d) == IF h - d * 524288 <= 0 THEN 0 ELSE Least(h - d * 524288, 524288)

\* Below 8191 MB the first allocation finds all there is, and knows that it has.
LEMMA AllFound ==
    ASSUME NEW h \in Nat, h < 2096896
    PROVE  Totalmem(h) = h /\ numOfMallocs(h) # 0
<1>1. \A d \in Workers : FirstGot(h)[d] = Got(h, d)
  BY DEF FirstGot, Got, Wantraw, PagesPerMB
<1>2. PICK a, b, c, e : a = Got(h, 0) /\ b = Got(h, 1) /\ c = Got(h, 2) /\ e = Got(h, 3)
  OBVIOUS
<1>3. /\ FirstGot(h)[0] = a /\ FirstGot(h)[1] = b /\ FirstGot(h)[2] = c /\ FirstGot(h)[3] = e
  BY <1>1, <1>2 DEF Workers
<1>4. /\ a \in Nat /\ b \in Nat /\ c \in Nat /\ e \in Nat
      /\ a = (IF h < 524288 THEN h ELSE 524288)
      /\ b = (IF h < 524288 THEN 0 ELSE IF h < 1048576 THEN h - 524288 ELSE 524288)
      /\ c = (IF h < 1048576 THEN 0 ELSE IF h < 1572864 THEN h - 1048576 ELSE 524288)
      /\ e = (IF h < 1572864 THEN 0 ELSE h - 1572864)
  BY <1>2 DEF Got, Least
<1>5. \A x \in Nat : x \div 256 < 2047 <=> x < 524032
  OBVIOUS
<1>6. /\ 0 \in Short(h) <=> a < 524032
      /\ 1 \in Short(h) <=> b < 524032
      /\ 2 \in Short(h) <=> c < 524032
      /\ 3 \in Short(h)
      /\ Short(h) \subseteq {0, 1, 2, 3}
  BY <1>3, <1>4, <1>5 DEF Short, Workers, PagesPerMB
<1>7. PICK d : d = CHOOSE x \in Short(h) : \A y \in Short(h) : x <= y
  OBVIOUS
<1>8. d \in Short(h) /\ \A y \in Short(h) : d <= y
  <2>1. Short(h) \subseteq Nat /\ Short(h) # {}
    BY <1>6
  <2>2. \E x \in Short(h) : \A y \in Short(h) : x <= y
    BY <2>1, LeastExists
  <2> QED BY <1>7, <2>2
<1>9. numOfMallocs(h) = 1 + d /\ d \in {0, 1, 2, 3}
  BY <1>6, <1>7, <1>8 DEF numOfMallocs
<1>10. Totalmem(h) = SumOver(FirstGot(h), 1 + d)
  BY <1>8, <1>9 DEF Totalmem
<1>11. /\ SumOver(FirstGot(h), 1) = a /\ SumOver(FirstGot(h), 2) = a + b
       /\ SumOver(FirstGot(h), 3) = a + b + c /\ SumOver(FirstGot(h), 4) = a + b + c + e
  BY <1>3, <1>4, Sums
<1>12. CASE d = 0
  <2>1. a < 524032
    BY <1>6, <1>8, <1>12
  <2>2. h = a
    BY <1>4, <2>1
  <2> QED BY <1>9, <1>10, <1>11, <1>12, <2>2
<1>13. CASE d = 1
  <2>1. ~(a < 524032) /\ b < 524032
    BY <1>6, <1>8, <1>13
  <2>2. h = a + b
    BY <1>4, <2>1
  <2> QED BY <1>9, <1>10, <1>11, <1>13, <2>2
<1>14. CASE d = 2
  <2>1. ~(a < 524032) /\ ~(b < 524032) /\ c < 524032
    BY <1>6, <1>8, <1>14
  <2>2. h = a + b + c
    BY <1>4, <2>1
  <2> QED BY <1>9, <1>10, <1>11, <1>14, <2>2
<1>15. CASE d = 3
  <2>1. ~(a < 524032) /\ ~(b < 524032) /\ ~(c < 524032)
    BY <1>6, <1>8, <1>15
  <2>2. h = a + b + c + e
    BY <1>4, <2>1
  <2> QED BY <1>9, <1>10, <1>11, <1>15, <2>2
<1> QED BY <1>9, <1>12, <1>13, <1>14, <1>15

\* What a worker gets of what is left: what it should have, what one malloc gives
\* or the rest, whichever is least.
Given(want, left, before) ==
    Least(Least(want, MallocMax), IF left - before < 0 THEN 0 ELSE left - before)
Shares(a, b, c, e) ==
    [d \in Workers |-> IF d = 0 THEN a ELSE IF d = 1 THEN b ELSE IF d = 2 THEN c ELSE e]

\* It is less than what it should be only at the limit of malloc or at the end of
\* the memory.
LEMMA GivenTyped ==
    ASSUME NEW want \in Nat, NEW left \in Int, NEW before \in Nat, HeapsFit
    PROVE  /\ Given(want, left, before) \in Nat
           /\ \/ Given(want, left, before) >= want \/ Given(want, left, before) >= MallocMax
              \/ Given(want, left, before) + before >= left
  BY DEF Given, Least, HeapsFit

\* What each of the workers has of them.
LEMMA SharesAt ==
    ASSUME NEW a \in Nat, NEW b \in Nat, NEW c \in Nat, NEW e \in Nat
    PROVE  /\ Shares(a, b, c, e) \in [Workers -> Nat]
           /\ Shares(a, b, c, e)[0] = a /\ Shares(a, b, c, e)[1] = b
           /\ Shares(a, b, c, e)[2] = c /\ Shares(a, b, c, e)[3] = e
  BY DEF Shares, Workers

\* What they have together.
SharesSum(a, b, c, e) ==
    /\ Shares(a, b, c, e) \in [Workers -> Nat]
    /\ SumOver(Shares(a, b, c, e), 0) = 0 /\ SumOver(Shares(a, b, c, e), 1) = a
    /\ SumOver(Shares(a, b, c, e), 2) = a + b /\ SumOver(Shares(a, b, c, e), 3) = a + b + c
\* The sums of shares spelt out.
LEMMA SharesSums ==
    ASSUME NEW a \in Nat, NEW b \in Nat, NEW c \in Nat, NEW e \in Nat
    PROVE  SharesSum(a, b, c, e)
<1>1. PICK s : s = Shares(a, b, c, e)
  OBVIOUS
<1>2. s \in [Workers -> Nat] /\ s[0] = a /\ s[1] = b /\ s[2] = c /\ s[3] = e
  BY <1>1 DEF Shares, Workers
<1>3. SumOver(s, 0) = 0 /\ SumOver(s, 1) = a /\ SumOver(s, 2) = a + b /\ SumOver(s, 3) = a + b + c
  BY <1>2, Sums
<1> QED BY <1>1, <1>2, <1>3 DEF SharesSum

\* The allocations one after the other.
LEMMA SharesAre ==
    ASSUME NEW h, NEW n \in {3, 4}, HeapsFit, NEW w \in Nat, NEW x \in Nat, NEW left \in Int,
           Left(h, n) = left, Wanted(h, n) = Shares(w, w, w, x),
           NEW a, NEW b, NEW c, NEW e,
           a = Given(w, left, 0), b = Given(w, left, a), c = Given(w, left, a + b),
           e = IF n = 3 THEN 0 ELSE Given(x, left, a + b + c)
    PROVE  /\ a \in Nat /\ b \in Nat /\ c \in Nat /\ e \in Nat
           /\ Share(h, n) = Shares(a, b, c, e)
<1> DEFINE Body == [d \in Workers |->
                      [s \in [Workers -> Int] |-> Give(Wanted(h, n), Left(h, n), s, d)]]
           none == [d \in Workers |-> 0]
<1>1. Share(h, n) = Loop(Body, none, n)
  BY DEF Share
<1>2. a \in Nat /\ b \in Nat /\ c \in Nat /\ e \in Nat
  <2>1. a \in Nat
    BY GivenTyped
  <2>2. b \in Nat
    BY <2>1, GivenTyped
  <2>3. c \in Nat
    BY <2>1, <2>2, GivenTyped
  <2>4. Given(x, left, a + b + c) \in Nat
    <3>1. PICK y : y = a + b + c
      OBVIOUS
    <3>2. y \in Nat
      BY <2>1, <2>2, <2>3, <3>1
    <3> QED BY <3>1, <3>2, GivenTyped
  <2> QED BY <2>1, <2>2, <2>3, <2>4
<1>4. ASSUME NEW s \in [Workers -> Nat], NEW d \in Workers
      PROVE  Body[d][s] = [s EXCEPT ![d] = Given(Shares(w, w, w, x)[d], left, SumOver(s, d))]
  BY DEF Give, Given
<1> HIDE DEF Body
<1>g. /\ Shares(w, w, w, x)[0] = w /\ Shares(w, w, w, x)[1] = w
      /\ Shares(w, w, w, x)[2] = w /\ Shares(w, w, w, x)[3] = x
  BY SharesAt
<1>5. none = Shares(0, 0, 0, 0)
  BY DEF Shares
<1>6. Body[0][none] = Shares(a, 0, 0, 0)
  <2>1. none \in [Workers -> Nat] /\ 0 \in Workers /\ SumOver(none, 0) = 0
    <3>1. none \in [Workers -> Nat] /\ 0 \in Workers
      BY DEF Workers
    <3>2. none[0] \in Nat /\ none[1] \in Nat /\ none[2] \in Nat /\ none[3] \in Nat
      BY DEF Workers
    <3> QED BY <3>1, <3>2, Sums
  <2>2. Body[0][none] = [none EXCEPT ![0] = a]
    BY <1>4, <1>g, <2>1
  <2> QED BY <1>5, <2>2 DEF Shares, Workers
<1>n. 0 \in Nat /\ 1 \in Workers /\ 2 \in Workers /\ 3 \in Workers
  BY DEF Workers
<1>7. Body[1][Shares(a, 0, 0, 0)] = Shares(a, b, 0, 0)
  <2>0. SharesSum(a, 0, 0, 0)
    BY <1>2, <1>n, SharesSums
  <2>1. PICK s : s = Shares(a, 0, 0, 0)
    OBVIOUS
  <2>2. s \in [Workers -> Nat] /\ SumOver(s, 1) = a
    BY <2>0, <2>1 DEF SharesSum
  <2>3. PICK g : g = Given(Shares(w, w, w, x)[1], left, SumOver(s, 1))
    OBVIOUS
  <2>4. g = b
    BY <1>g, <2>2, <2>3
  <2>5. Body[1][s] = [s EXCEPT ![1] = g]
    BY <1>4, <1>n, <2>2, <2>3
  <2> QED BY <2>1, <2>4, <2>5 DEF Shares, Workers
<1>8. Body[2][Shares(a, b, 0, 0)] = Shares(a, b, c, 0)
  <2>0. SharesSum(a, b, 0, 0)
    BY <1>2, <1>n, SharesSums
  <2>1. PICK s : s = Shares(a, b, 0, 0)
    OBVIOUS
  <2>2. s \in [Workers -> Nat] /\ SumOver(s, 2) = a + b
    BY <2>0, <2>1 DEF SharesSum
  <2>3. PICK g : g = Given(Shares(w, w, w, x)[2], left, SumOver(s, 2))
    OBVIOUS
  <2>4. g = c
    BY <1>g, <2>2, <2>3
  <2>5. Body[2][s] = [s EXCEPT ![2] = g]
    BY <1>4, <1>n, <2>2, <2>3
  <2> QED BY <2>1, <2>4, <2>5 DEF Shares, Workers
<1>9. ASSUME n = 4 PROVE Body[3][Shares(a, b, c, 0)] = Shares(a, b, c, e)
  <2>0. SharesSum(a, b, c, 0)
    BY <1>2, <1>n, SharesSums
  <2>1. PICK s : s = Shares(a, b, c, 0)
    OBVIOUS
  <2>2. s \in [Workers -> Nat] /\ SumOver(s, 3) = a + b + c
    BY <2>0, <2>1 DEF SharesSum
  <2>3. PICK g : g = Given(Shares(w, w, w, x)[3], left, SumOver(s, 3))
    OBVIOUS
  <2>4. g = e
    BY <1>9, <1>g, <2>2, <2>3
  <2>5. Body[3][s] = [s EXCEPT ![3] = g]
    BY <1>4, <1>n, <2>2, <2>3
  <2> QED BY <2>1, <2>4, <2>5 DEF Shares, Workers
<1> HIDE DEF none
<1>10. /\ Loop(Body, none, 0) = none
       /\ Loop(Body, none, 1) = Body[0][Loop(Body, none, 0)]
       /\ Loop(Body, none, 2) = Body[1][Loop(Body, none, 1)]
       /\ Loop(Body, none, 3) = Body[2][Loop(Body, none, 2)]
       /\ Loop(Body, none, 4) = Body[3][Loop(Body, none, 3)]
  <2>1. \A k \in Nat : Loop(Body, none, 0) = none
                       /\ Loop(Body, none, k + 1) = Body[k][Loop(Body, none, k)]
    BY LoopNext
  <2>2. /\ 0 \in Nat /\ 0 + 1 = 1 /\ 1 \in Nat /\ 1 + 1 = 2
        /\ 2 \in Nat /\ 2 + 1 = 3 /\ 3 \in Nat /\ 3 + 1 = 4
    OBVIOUS
  <2> QED BY <2>1, <2>2
<1>11. Loop(Body, none, 3) = Shares(a, b, c, 0)
  BY <1>6, <1>7, <1>8, <1>10
<1>12. CASE n = 3
  BY <1>1, <1>2, <1>11, <1>12
<1>13. CASE n = 4
  BY <1>1, <1>2, <1>9, <1>10, <1>11, <1>13
<1> QED BY <1>12, <1>13

\* The shares add up to what there is, but for the stacks and the remainder.
LEMMA AllShared ==
    ASSUME NEW h \in Nat, h >= 4, h < 2096896, HeapsFit
    PROVE  LET n == ThreadsFor(h)
           IN  SumOver(Share(h, n), n) >= Least(h, 4 * 2047 * PagesPerMB) - 2 * (n + 1)
<1>1. Totalmem(h) = h /\ numOfMallocs(h) # 0
  BY AllFound
<1>2. PagesPerMB = 256 /\ 2047 * PagesPerMB = 524032 /\ 4 * 2047 * PagesPerMB = 2096128
  BY SMT DEF PagesPerMB
<1>3. isDevKit8GB(h) <=> h >= 1572352
  BY SMT, <1>1, <1>2 DEF isDevKit8GB
<1>4. MallocMax \in Nat /\ MallocMax >= 524288
  <2>1. MallocMax \in Nat /\ MallocMax >= Wantraw
    BY DEF HeapsFit
  <2>2. Wantraw = 524288
    BY SMT DEF Wantraw, PagesPerMB
  <2> QED BY SMT, <2>1, <2>2
<1>5. PICK n : n = ThreadsFor(h)
  OBVIOUS
<1>6. n = (IF h >= 1572352 THEN 4 ELSE 3) /\ n \in {3, 4}
  BY SMT, <1>3, <1>5 DEF ThreadsFor
<1>7. PICK left : left = h - n - 1
  OBVIOUS
<1>8. Left(h, n) = left /\ left \in Int
  BY SMT, <1>1, <1>6, <1>7 DEF Left
<1>9. PICK w : w = (h - n) \div 3
  OBVIOUS
<1>10. w \in Nat /\ 3 * w <= h - n /\ h - n <= 3 * w + 2
  BY SMT, <1>6, <1>9
<1>11. Wanted(h, n) = Shares(w, w, w, IF n = 3 THEN w ELSE 524032)
  BY SMT, <1>1, <1>2, <1>3, <1>6, <1>9 DEF Wanted, Shares, Workers
<1>12. PICK x : x = IF n = 3 THEN w ELSE 524032
  OBVIOUS
<1>13. PICK a : a = Given(w, left, 0)
  OBVIOUS
<1>14. PICK b : b = Given(w, left, a)
  OBVIOUS
<1>15. PICK c : c = Given(w, left, a + b)
  OBVIOUS
<1>16. PICK e : e = IF n = 3 THEN 0 ELSE Given(x, left, a + b + c)
  OBVIOUS
<1>17. /\ a \in Nat /\ b \in Nat /\ c \in Nat /\ e \in Nat
       /\ Share(h, n) = Shares(a, b, c, e)
  BY SMT, <1>6, <1>8, <1>10, <1>11, <1>12, <1>13, <1>14, <1>15, <1>16, SharesAre
<1>18. SumOver(Share(h, n), n) = IF n = 3 THEN a + b + c ELSE a + b + c + e
  <2>1. PICK s : s = Shares(a, b, c, e)
    OBVIOUS
  <2>2. s[0] = a /\ s[1] = b /\ s[2] = c /\ s[3] = e
    BY <2>1 DEF Shares, Workers
  <2> QED BY SMT, <1>6, <1>17, <2>1, <2>2, Sums
<1>19. CASE n = 3
  <2>1. w <= MallocMax
    BY SMT, <1>4, <1>6, <1>10, <1>19
  <2> QED BY SMT, <1>2, <1>4, <1>5, <1>6, <1>7, <1>10, <1>13, <1>14, <1>15, <1>17, <1>18, <1>19, <2>1
          DEF Given, Least
<1>20. CASE n = 4
  <2>1. x = 524032 /\ e = Given(x, left, a + b + c) /\ x \in Nat
    BY SMT, <1>12, <1>16, <1>20
  <2>2. a >= w \/ a >= MallocMax \/ a >= left
    <3>1. a + 0 = a
      BY <1>17
    <3> QED BY <1>8, <1>10, <1>13, <3>1, GivenTyped
  <2>3. b >= w \/ b >= MallocMax \/ b + a >= left
    BY <1>8, <1>10, <1>14, <1>17, GivenTyped
  <2>4. c >= w \/ c >= MallocMax \/ c + (a + b) >= left
    <3>1. a + b \in Nat
      BY <1>17
    <3> QED BY <1>8, <1>10, <1>15, <3>1, GivenTyped
  <2>5. e >= 524032 \/ e >= MallocMax \/ e + (a + b + c) >= left
    <3>1. a + b + c \in Nat
      BY <1>17
    <3> QED BY SMT, <1>8, <2>1, <3>1, GivenTyped
  <2>6. PICK all : all = a + b + c + e
    OBVIOUS
  <2>7. all >= h - 10 \/ all >= 2096118
    BY SMT, <1>4, <1>7, <1>10, <1>17, <1>20, <2>2, <2>3, <2>4, <2>5, <2>6
  <2>8. all \in Nat /\ SumOver(Share(h, n), n) = all
    BY SMT, <1>17, <1>18, <1>20, <2>6
  <2>9. Least(h, 2096128) <= h /\ Least(h, 2096128) <= 2096128 /\ Least(h, 2096128) \in Nat
    BY SMT DEF Least
  <2> QED BY SMT, <1>2, <1>5, <1>20, <2>7, <2>8, <2>9
<1> QED BY SMT, <1>6, <1>19, <1>20

\* The share main starts the workers with is that of this heap.
ShareKnown ==
    /\ heap \in Heaps
    /\ main.at = "start" =>
          testThreads = ThreadsFor(heap) /\ share = Share(heap, ThreadsFor(heap))

\* Only the allocation sets it.
LEMMA ShareStep ==
    ASSUME ShareKnown, main \in MainType, [MemTesterNext]_mtVars
    PROVE  ShareKnown'
<1>1. CASE Allocate
  <2>1. /\ testThreads' = ThreadsFor(heap) /\ share' = Share(heap, ThreadsFor(heap))
        /\ heap' = heap
    BY <1>1 DEF Allocate
  <2> QED BY <2>1 DEF ShareKnown
<1>2. CASE PressKey \/ StartWorkers \/ SetReady \/ SetJob \/ TakeReport \/ ErrorDetected \/ Exit
  <2>1. main'.at # "start"
    <3>1. CASE PressKey
      BY <3>1 DEF PressKey, Pick, OtherKey, MainType
    <3>2. CASE StartWorkers \/ ErrorDetected \/ Exit
      BY <3>2 DEF StartWorkers, ErrorDetected, Exit, MainType
    <3>3. CASE SetReady \/ SetJob \/ TakeReport
      BY <3>3 DEF SetReady, SetJob, TakeReport, NextJob, MainType
    <3> QED BY <1>2, <3>1, <3>2, <3>3
  <2>2. heap' = heap
    BY <1>2 DEF PressKey, Pick, OtherKey, StartWorkers, SetReady, SetJob, TakeReport,
               ErrorDetected, Exit, ram
  <2> QED BY <2>1, <2>2 DEF ShareKnown
<1>3. ASSUME NEW w \in Workers, SeesReady(w) \/ RunJob(w) PROVE ShareKnown'
  <2>1. UNCHANGED <<heap, share, testThreads, main>>
    BY <1>3 DEF SeesReady, RunJob, ram
  <2> QED BY <2>1 DEF ShareKnown
<1>4. CASE UNCHANGED mtVars
  BY <1>4 DEF mtVars, ShareKnown
<1> QED
  BY <1>1, <1>2, <1>3, <1>4 DEF MemTesterNext

\* At first there is nothing to know.
LEMMA ShareInit == MemTesterInit => ShareKnown
  BY DEF MemTesterInit, ShareKnown

\* What is known of the share says that it is all of the memory.
LEMMA SharedNow ==
    ASSUME HeapsFit, ShareKnown
    PROVE  AllRamShared
<1> SUFFICES ASSUME main.at = "start" PROVE AllRamShared
  BY DEF AllRamShared
<1>1. heap \in Nat /\ heap >= 4 /\ heap < 2096896
  <2>1. heap \in 4..(8191 * PagesPerMB - 1)
    BY DEF ShareKnown, HeapsFit
  <2>2. 8191 * PagesPerMB = 2096896
    BY SMT DEF PagesPerMB
  <2>3. PICK top : top = 8191 * PagesPerMB
    OBVIOUS
  <2> QED BY SMT, <2>1, <2>2
<1>2. SumOver(Share(heap, ThreadsFor(heap)), ThreadsFor(heap))
         >= Least(heap, 4 * 2047 * PagesPerMB) - 2 * (ThreadsFor(heap) + 1)
  BY <1>1, AllShared
<1> QED BY <1>2 DEF AllRamShared, ShareKnown

\* Every page there is gets tested: in the state in which main starts the workers
\* their shares add up to the memory of the system, for any heap below 8191 MB and
\* any limit of one malloc from 2048 MB up, but for the stacks of the workers and of the
\* key listener and the remainder of the division (main.c:317-406). From 8191 MB
\* on the search for what there is ends with nothing counted.
THEOREM AllRamSharedHolds == HeapsFit => (MemTesterSpec => []AllRamShared)
<1> SUFFICES ASSUME HeapsFit PROVE MemTesterSpec => []AllRamShared
  OBVIOUS
<1>1. MemTesterInit => HandshakeIInv /\ ShareKnown
  BY HandshakeInit, ShareInit
<1>2. HandshakeIInv /\ ShareKnown /\ [MemTesterNext]_mtVars => (HandshakeIInv /\ ShareKnown)'
  <2>1. HandshakeIInv => main \in MainType
    BY DEF HandshakeIInv, HandshakeTypes
  <2> QED BY <2>1, HandshakeStep, ShareStep
<1>3. HandshakeIInv /\ ShareKnown => AllRamShared
  BY SharedNow
<1> QED
  BY <1>1, <1>2, <1>3, PTL DEF MemTesterSpec

\* The verdict of a test of the memory can be relied on, for any number of words,
\* any fault and any heap below 8191 MB: the three theorems above at once, as the run
\* states them (main.c, tests.c).
THEOREM VerdictRightHolds == HeapsFit => (MemTesterSpec => []VerdictRight)
<1> SUFFICES ASSUME HeapsFit PROVE MemTesterSpec => []VerdictRight
  OBVIOUS
<1>1. MemTesterSpec => []SoundMemoryPasses
  BY SoundMemoryPassesHolds
<1>2. MemTesterSpec => []ReportIsOfThisJob
  BY ReportIsOfThisJobHolds
<1>3. MemTesterSpec => []AllRamShared
  BY AllRamSharedHolds
<1>4. SoundMemoryPasses /\ ReportIsOfThisJob /\ AllRamShared => VerdictRight
  BY DEF VerdictRight
<1> QED
  BY <1>1, <1>2, <1>3, <1>4, PTL
=============================================================================
