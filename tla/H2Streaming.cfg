SPECIFICATION FairSpec
CHECK_DEADLOCK FALSE
CONSTANTS
    main = main
    vhost1 = vhost1
    vhost2 = vhost2
    Main = main
    Vhosts <- MCVhosts
    NumStreams = 2
    Host <- MCOneHost
    MaxBody = 0
    MaxKeepalive = 0
    MaxData = 0
    MaxPieces = 2
    HookResults = {"OK"}
    ReadResults = {"OK"}
    AppCalls = {"start", "reset"}
    PeerFrames = {"rst", "window"}
INVARIANTS
    NoDanglingRequest
    ReplyIntact
PROPERTIES
    FinishedReplyCompletes
