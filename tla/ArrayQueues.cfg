SPECIFICATION FairSpec
CONSTANTS
    Kinds = {"p", "pa", "mpi", "pi"}
    Lists = 2
    Enqueuers = {e1, e2}
    Dequeuers = {d1, d2}
    Nodes = {n1, n2}
    Null = Null
    None = None
    Empty = Empty
    MaxItems = 3
    MaxShared = 2
    MaxIndex = 2
INVARIANTS ListsInOrder NoUseAfterFree EmptyWhenAlone
PROPERTIES ImplementsFifo ItemsAreTaken
