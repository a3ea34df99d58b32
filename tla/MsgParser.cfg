\* Every cut of the streams of MCMsgParser into reads.  A line may have two
\* symbols, so that a CR at the end of a read still fits, a head two fields.
SPECIFICATION FairSpec
CONSTANTS
    Requests <- RequestStreams
    Responses <- ResponseStreams
    MaxLine = 2
    MaxHeaders = 2
    MaxEmpty = 3
    PauseIn = {"hdrs_complete", "body"}
    FailIn = {"hdr_val", "body", "msg_complete", "chunk_complete"}
    SkipIn = {"hdrs_complete"}
INVARIANTS
    ReportsFollowGrammar
    HooksObeyed
PROPERTIES
    EventuallyRead
CHECK_DEADLOCK FALSE
