SPECIFICATION FairSpec
CONSTANTS
    main = main
    vhost1 = vhost1
    vhost2 = vhost2
    Main <- main
    Vhosts <- MCVhosts
    NumMsgs = 4
    Host <- MCHostLong
    Body <- MCBodyLong
    KeepAlive <- MCKeepAliveLong
    Expect <- MCExpectLong
    Stream <- MCStream
    Start <- MCStart
    MaxBody = 3
    MaxKeepalive = 3
    MaxRead = 3
    Pipelined = FALSE
    MayClose = TRUE
    HookResults = {"OK", "PAUSE"}
    CbActions = {"reply", "defer", "pause", "stream_chunked"}
INVARIANTS
    PerRequestState
PROPERTIES
    EveryRequestAnswered
    ClosedIsFreed
CHECK_DEADLOCK FALSE
