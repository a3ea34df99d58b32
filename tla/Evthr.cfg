\* Three deferring threads and three commands: two inserts can be pending on top
\* of a linked one, commands are reused, and the eventfd reaches its limit.
CONSTANTS
    Nodes = {n1, n2, n3}
    Stub = Stub
    Null = Null
    Producers = {p1, p2, p3}
    MaxSent = 3
    MaxCount = 2
SPECIFICATION ThrFairSpec
INVARIANTS
    NoWriteToPolledNode
PROPERTIES
    ImplementsFifo
    EventuallyRun
    StopReturns
CHECK_DEADLOCK FALSE
