CONSTANTS
    Sizes <- GreetingAndFour
    MaxPayload = 2
    MaxPrefetch = 7
SPECIFICATION FairSpec
INVARIANTS
    FetchNeverBlocks
PROPERTIES
    ImplementsChannel
    EverythingArrives
CHECK_DEADLOCK FALSE
