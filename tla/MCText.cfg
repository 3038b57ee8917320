SPECIFICATION Spec
CONSTANTS
    MaxLength = 1000
    Values <- MCValues
    Specs <- MCSpecs
    Edits <- MCEdits
    MaxEdits = 1
INVARIANTS
    PatternRoundTrip
    ParsedReadsBack
    StandardTextsReadBack
CHECK_DEADLOCK FALSE
