\* The three suites, 3 and 4 workers, heaps around the limits of the shares.
SPECIFICATION MCSpec
CONSTANTS
    Count = 2
    Samples <- MCSamples
    Faults <- MCFaults
    MainHeap = 819200
    Heaps = {300, 384000, 819200, 1572096, 1572352, 1835008, 2096640}
    MallocMax = 524288
    Watched = 0
INVARIANTS VerdictRight RegionTested
PROPERTIES LoopsOn
CHECK_DEADLOCK FALSE
