SPECIFICATION Spec
CONSTANTS
    EpochMin = 0
    EpochMax = 31
    OffsetMax = 4
    DayLen = 8
    Ticks = 2
    k1 = k1
    k2 = k2
    Keys = {k1}
    Zones <- AllZones
    TimeUnits = {1, 2}
    DateUnits = {8, 16}
    Increments = {4, 6, 8}
    ShiftSecs <- MCShiftSecs
    ShiftDays <- MCShiftDays
    Pickling = FALSE
VIEW StateView
INVARIANTS
    OffsetIsValid
    NothingPanics
    UnitsContainObject
    BoundariesLineUp
    ZonedDifferenceAddsBack
CHECK_DEADLOCK FALSE
