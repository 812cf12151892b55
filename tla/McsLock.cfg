CONSTANTS
    Procs = {p1, p2, p3}
    Nodes = {n1, n2, n3}
    Null = Null
SPECIFICATION FairSpec
INVARIANTS NoUseAfterFree
PROPERTIES ServesInOrder EveryoneEnters
