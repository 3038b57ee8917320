SPECIFICATION MCSpec
CONSTANTS
    StartDates <- MCStartDates
    Shifts <- MCShifts
    WeekdayNs <- MCWeekdayNs
    Fields <- MCFields
    MaxCalls = 1
    CycleDays = 146097
    EdgeDays = 120
    ZoneDays = 460
    Increments = {1, 2, 3}
    HoursPerDay = 24
    EpochMin <- MCEpochMin
    EpochMax <- MCEpochMax
    OffsetMax = 23
    Recorded = {2, 3}
    Texts <- MCTexts
INVARIANTS
    CalendarCountsDays
    WeekdaysCount
    DifferenceAddsBack
    DifferenceRoundsByMode
    OffsetFollowsRules
    FooterMappingInverts
    FooterFindsEveryChange
CHECK_DEADLOCK FALSE
