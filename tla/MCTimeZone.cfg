SPECIFICATION MCSpec
CONSTANTS
    EpochMin = 0
    EpochMax = 23
    OffsetMax = 3
    Times = {4, 8, 9, 13}
    MaxTransitions = 3
    TypeOffsets <- MCTypeOffsets
    Versions = {1, 2}
    MaxLen = 6
    EntryTimes = {1, 3, 5, 7}
    Tables <- MCTables
    Targets = {0, 1, 2, 3, 4, 5, 6, 7, 8}
INVARIANTS
    MappingInvertsOffset
    SavingLeadsToStandard
    ReturnsFirstAfter
PROPERTIES
    Terminates
CHECK_DEADLOCK FALSE
