CONSTANTS
    Disk = {d1, d2}
    PageSize = 2
    MaxBytes = 2
    MaxSyncs = 1
SPECIFICATION FairSpec
INVARIANTS CountersAgree BytesInOrder CloseIsDurable
PROPERTIES CloseReturns RequestsComplete
