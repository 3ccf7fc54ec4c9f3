SPECIFICATION BootSpec
CONSTANTS
    Customs <- MCCustoms
    Images <- MCImages
    Programs <- MCPrograms
    Window <- MCWindow
    PinIds = {1}
    HosVersion = 20
    Development = TRUE
    PageSize = 2
    BlockSize = 8
    ModuleSizeMax = 1024
    MaxLaunches = 2
    PmcAllowed <- MCPmcAllowed
    McAllowed <- MCMcAllowed
    Mc01Allowed <- MCMc01Allowed
    Bits = {"b0", "b13"}
    SmcCalls <- MCSmcCalls
    Watched <- MCWatched
    MaxCalls = 2
INVARIANT CustomVoltageKept
CHECK_DEADLOCK FALSE
