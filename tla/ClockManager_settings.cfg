\* Titles, profiles, overrides, governors, boost mode and throttle.
SPECIFICATION FairSpec
CONSTANTS
    Soc = "Mariko"
    GpuUV = 0
    Bracket = 0
    HijackMayFail = FALSE
    Titles = {"game", "home"}
    GlobalTitle = "global"
    Chargers = {"Handheld"}
    Table <- MCTable
    Apm <- MCApm
    Ini <- MCIni
    Override <- MCOverride
    NoOverride = "none"
    Alarms = {"none", "thermal"}
    Loads = {0, 900}
    GovernorMin = 612000
    DvfsOffset <- MCOffset
    CoarseMtime = FALSE
    MaxEvents = 2
INVARIANTS TypeOK MemFloor SetClocksApplies
PROPERTIES SettingsTakeEffect
