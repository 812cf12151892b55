CONSTANTS
    Pushers = {a1, a2}
    Poppers = {b1, b2}
    MaxPushes = 2
    Null = Null
    None = None
    Empty = Empty
SPECIFICATION FairSpec
PROPERTIES ImplementsLifo StackDrains
