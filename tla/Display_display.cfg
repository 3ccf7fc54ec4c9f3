\* A console put into the dock and taken out, rates set by override and profile,
\* boost mode and throttle.
SPECIFICATION FairSpec
CONSTANTS
    Console = "Iowa"
    Sinks <- MCSinks
    OverrideRates = {0, 45}
    HandheldRates = {0, 50}
    DockedRates = {120}
    FpsSeen = {25}
    Holds = {"none", "boost", "throttle"}
    OverBoosts = {FALSE, TRUE}
    VrrFocusTicks = 1
    VrrTicks = 1
    PanelMax = 75
    MaxEvents = 3
INVARIANTS RatesAllowed
PROPERTIES PanelLeftAlone RateShown
