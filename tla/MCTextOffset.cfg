SPECIFICATION Spec
CONSTANTS
    MaxLength = 1000
    Values <- MCValues
    Specs <- MCSpecs
    Edits <- MCEdits
    MaxEdits = 1
INVARIANT ParsedOffsetWithinBounds
CHECK_DEADLOCK FALSE
