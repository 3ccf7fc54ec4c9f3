\* Mariko, with every table of the hardware's arithmetic at its real size.
SPECIFICATION Spec
CONSTANTS
    Soc = "Mariko"
    GpuUV = 0
    Bracket = 2
    Pcv <- MCPcvMariko
    Middle = TRUE
    Disabled = {76800, 384000, 1267200}
    WantedMax = 1400000
    WantedStep = 19200
    LoadStep = 50
    RamMax = 3500
    Fuses <- MCFuses
    Dies <- MCDies
    GarbageTemp = 77
    ChargeCurrents = {0, 1024, 1100, 1600, 2399, 3072}
    DisplayMvs = {800, 1010, 1200, 1325}
    Boards = {560, 799, 800, 801}
    MaxUpdates = 4
    GpuClocks = {76800, 115200, 192000, 460800, 652800, 921600, 1113600, 1190400, 1267200}
    Samples = 3
    GpuSamples = {0, 400, 1000}
    IdleTicks = {0, 4, 5, 4800, 9600, 9700}
    EmcClocks = {204, 1600, 2133}
    Levels = {0, 1, 12}
    Speedos = {1500, 1624, 1625, 1689, 1690, 1753, 1754, 1850, 1925, 1926, 2025, 2026, 2100, 2101, 2200, 2201}
    RamClocks = {1600, 1601, 1632, 1633, 1866, 2133, 2134, 2300, 2400, 2401, 2566, 2800, 3100, 3200, 3366, 3400}
    ProcessCount = 2
    RegionCount = 2
    Titles = {"A", "B"}
    Window = 2
    MaxEvents = 4
    Offsets = {1, 2}
    LatencyClocks = {1866000, 2133000, 2400000}
    MaxClocks = {1866000, 2400000}
    RefCounts = 16
    GameTitles = {"A", "B"}
    MaxPid = 2
    Interval = 2
    RailRegisters = {20, 64, 120}
    CustFiles <- MCCustFiles
    PieceSize = 6
    TableSize = 6
    Lists <- MCLists
    MaxCpuClocks = {1785, 2091}
INVARIANTS ClocksRight ThermalInv ChipsInv SocInv BringUpInv ServedByLive SidesAgree
PROPERTIES MoreNeverLess AnswersInStep
CHECK_DEADLOCK FALSE
