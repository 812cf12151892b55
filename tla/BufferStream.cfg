SPECIFICATION FairSpec
CONSTANTS
    Nodes = {n1, n2, n3}
    Null = Null
    MaxBytes = 4
    MaxPush = 2
    MaxLens = {0, 3}
    BufSize = 2
    WSize = 2
INVARIANTS BytesInOrder NoUseAfterFree NextMessageIntact OutputWhole
PROPERTIES CallsReturn
