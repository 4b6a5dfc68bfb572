SPECIFICATION FairSpec
CONSTANTS
    MaxEvent = 6
    GapWindow = 2
    InitWindow = 3
INVARIANTS
    RangesSorted
    CursorFound
PROPERTIES
    SkipAfterWindow
    ImplementsFeed
    EveryEventSettles
