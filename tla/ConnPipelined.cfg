SPECIFICATION Spec
CONSTANTS
    main = main
    vhost1 = vhost1
    vhost2 = vhost2
    Main <- main
    Vhosts <- MCVhosts
    NumMsgs = 3
    Host <- MCHost
    Body <- MCBodyLimit
    KeepAlive <- MCCloseSecond
    Expect <- MCExpectSecond
    Stream <- MCStream
    Start <- MCStart
    MaxBody = 3
    MaxKeepalive = 0
    MaxRead = 3
    Pipelined = TRUE
    MayClose = TRUE
    HookResults = {"OK", "PAUSE", "ERROR"}
    CbActions = {"reply", "defer", "pause", "stream_length", "stream_chunked", "own"}
INVARIANTS
    RepliesInOrder
    BodyIntact
    HandoverExact
PROPERTIES
    PauseHolds
CHECK_DEADLOCK FALSE
