SPECIFICATION Spec
CONSTANTS
    Keys = {"enable", "hpMode", "tRCD"}
    KipKeys = {"hpMode", "tRCD"}
    Home <- MCHome
    Control <- MCControl
    Clocks = {"CPU", "Display"}
    GovBytes = {"cpu", "gpu"}
    Apps = {"A", "B"}
    GLOBAL_PROFILE_TID = "global"
    MaxEdits = 2
INVARIANTS EditsKept
PROPERTIES WrongAppNoticed PagesSettle
