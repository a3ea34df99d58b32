\* A pool with two workers that serve one sender.
CONSTANTS
    Cap = 3
    Data = {c1, c2, c3}
    Producers = {w1, w2}
    MaxSent = 5
    NoData = NoData
SPECIFICATION CacheSpec
INVARIANTS
    OnlyWriter
CHECK_DEADLOCK FALSE
