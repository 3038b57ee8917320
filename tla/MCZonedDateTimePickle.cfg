SPECIFICATION Spec
CONSTANTS
    EpochMin = 0
    EpochMax = 15
    OffsetMax = 1
    DayLen = 8
    Ticks = 1
    k1 = k1
    k2 = k2
    Keys = {k1}
    Zones <- FewZones
    TimeUnits = {2}
    DateUnits = {8}
    Increments = {4}
    ShiftSecs <- MCShiftSecs
    ShiftDays <- MCShiftDays
    Pickling = TRUE
VIEW StateView
INVARIANTS
    OffsetIsValid
CHECK_DEADLOCK FALSE
