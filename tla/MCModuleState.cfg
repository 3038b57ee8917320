\* The system may stop: once the OncePyObj is dropped nothing more happens.
SPECIFICATION StateSpec
CONSTANTS
    Thread = {t1, t2, t3}
    Value = {v1, v2, v3, v4, v5}
    Object = {o1, o2, o3}
    Builds = {TRUE, FALSE}
    None = None
    TicksPerSecond = 2
    FirstTick <- MCFirstTick
    LastTick = 3
    ClockMax = 2
    Shifts <- MCShifts
    Travels <- MCTravels
    MaxBlocks = 2
SYMMETRY Symmetry
INVARIANTS
    FreeThreadedAgrees
    SetLostOnlyToRunningInit
    ReferencesBalance
    PatchedTimeAddsUp
PROPERTIES
    StableOnceInitialised
CHECK_DEADLOCK FALSE
