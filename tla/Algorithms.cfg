\* Every path and query of up to five characters, every text of up to four
\* bytes, every list of headers that four calls make and every reply of up to
\* six calls; patterns of up to three characters.
SPECIFICATION Spec
CONSTANTS
    MaxLen <- Lengths
    MaxPattern = 3
    MaxResults = 2
INVARIANTS
    GlobMatches
    CallbackChosen
    QueryReadsArguments
    HeadersKept
    H2Forwarded
    ReplyDecodes
CHECK_DEADLOCK FALSE
