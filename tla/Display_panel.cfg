\* A handheld profile of 50 Hz and VRR.
SPECIFICATION Spec
CONSTANTS
    Console = "Iowa"
    Sinks <- MCSinks
    OverrideRates = {0}
    HandheldRates = {0, 50}
    DockedRates = {0}
    FpsSeen = {25, 254}
    Holds = {"none"}
    OverBoosts = {FALSE}
    VrrFocusTicks = 1
    VrrTicks = 1
    PanelMax = 75
    MaxEvents = 3
INVARIANTS PanelWithinMax
