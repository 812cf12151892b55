SPECIFICATION FairSpec
CONSTANTS
    Slots = {0}
    Users = {u1, u2}
    Disk = {k1, k2}
    Walker = w
    Null = Null
    MaxOpens = 2
INVARIANTS SlotsConserved FreedOnlyByStatusCalls
PROPERTIES SlotComesBack
