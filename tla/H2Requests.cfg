SPECIFICATION Spec
CHECK_DEADLOCK FALSE
CONSTANTS
    main = main
    vhost1 = vhost1
    vhost2 = vhost2
    Main = main
    Vhosts <- MCVhosts
    NumStreams = 2
    Host <- MCHost
    MaxBody = 4
    MaxKeepalive = 3
    MaxData = 2
    MaxPieces = 0
    HookResults = {"OK", "reply", "fail", "abort"}
    ReadResults = {"OK", "ERROR"}
    AppCalls = {"reply", "reset"}
    PeerFrames = {"trailers", "rst", "goaway", "error"}
INVARIANTS
    BodyIntact
    WindowReturned
PROPERTIES
    DispatchedOnce
