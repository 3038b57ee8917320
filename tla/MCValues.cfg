SPECIFICATION Spec
CONSTANTS
    HoursPerDay = 4
    MinutesPerHour = 3
    SecondsPerMinute = 2
    MillisPerSecond = 2
    MicrosPerMilli = 3
    NanosPerMicro = 2
    Starts <- MCStarts
    Components <- MCComponents
    Kwargs <- MCKwargs
    Factors <- MCFactors
    DeltaArgs <- MCDeltaArgs
    RoundCalls <- MCRoundCalls
    Replacements <- MCReplacements
    OffsetArgs <- MCOffsetArgs
    Timestamps <- MCTimestamps
    MaxCalls = 2
INVARIANTS
    DeltaTextRoundTrip
    ExactUnitsAddUp
    DateTimeDifferenceAddsBack
    DateTimeUnitsTile
    InstantsAddExactly
CHECK_DEADLOCK FALSE
