SPECIFICATION FairSpec
CONSTANTS
    Words = 5
    WordValues <- MCValues
    BufferSize = 4
    Purge = 2
    MaxFaults = 1
    Image <- MCImage
    Packet = 2
    WordBytes = 2
    ByteValues = 2
    Attempts = 2
    Exchanges = 2
    Extra = 1
    Counters = 3
    Stale <- MCStale
    MaxLull = 2
INVARIANTS
    AnswersBelong
    VerifiedMeansLoaded
PROPERTY SessionSucceeds
\* The session ends.
CHECK_DEADLOCK FALSE
