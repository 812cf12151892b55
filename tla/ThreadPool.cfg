CONSTANTS
    Threads = {w1, w2}
    Clients = {c1}
    Tasks = {k1, k2, k3}
    Poison = Poison
    NoTask = NoTask
    Nobody = Nobody
SPECIFICATION FairSpec
INVARIANTS RunAtMostOnce DestroyRunsAccepted NoNullElement NoLostWakeup
PROPERTIES AcceptedRuns DestroyReturns
