CONSTANTS
    Enqueuers = {e1, e2}
    Dequeuers = {d1, d2}
    TryDequeuers = {}
    Nodes = {n1, n2, n3}
    MaxEnqueues = 2
    Null = Null
    None = None
    Empty = Empty
    Busy = Busy
SPECIFICATION Spec
SYMMETRY Symmetry
INVARIANTS NoUseAfterFree
PROPERTIES ImplementsFifo
