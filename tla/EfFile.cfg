CONSTANTS
    PageSize = 2
    MaxSize = 3
    MaxBytes = 3
    MaxRounds = 1
    MaxOwed = 4
SPECIFICATION Spec
CHECK_DEADLOCK FALSE
INVARIANTS ClosedFileIsWhole NoAbort ReadyMeansData
PROPERTY SettledReads
