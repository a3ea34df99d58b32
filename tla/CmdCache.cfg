\* A pool with one worker: the ring has one producer.  With three slots it
\* wraps, and holds two commands, so four commands overflow it and come round.
CONSTANTS
    Cap = 3
    Data = {c1, c2, c3, c4}
    Producers = {w1}
    MaxSent = 5
    NoData = NoData
SPECIFICATION CacheSpec
INVARIANTS
    Fifo
    OneOwner
PROPERTIES
    ExactVerdicts
CHECK_DEADLOCK FALSE
