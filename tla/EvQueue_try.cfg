CONSTANTS
    Enqueuers = {e1, e2}
    Dequeuers = {d1}
    TryDequeuers = {t1}
    Nodes = {n1, n2}
    MaxEnqueues = 2
    Null = Null
    None = None
    Empty = Empty
    Busy = Busy
SPECIFICATION FairSpec
PROPERTIES ImplementsFifo CallsReturn QueueDrains
