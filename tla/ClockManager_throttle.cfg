\* Thermal and power throttling with boost mode and governors, caps with a
\* 38.4 MHz step of the GPU.
SPECIFICATION Spec
CONSTANTS
    Soc = "Mariko"
    GpuUV = 0
    Bracket = 0
    HijackMayFail = FALSE
    Titles = {"game"}
    GlobalTitle = "global"
    Chargers = {"Handheld", "Official"}
    Table <- MCMiddleTable
    Apm <- MCApm
    Ini <- MCIniGoverned
    Override <- MCOverride
    NoOverride = "none"
    Alarms = {"none", "power", "thermal"}
    Loads = {0, 900}
    GovernorMin = 612000
    DvfsOffset = 0
    CoarseMtime = FALSE
    MaxEvents = 3
INVARIANTS ThrottleHolds
PROPERTIES CapRespected
