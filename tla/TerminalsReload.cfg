SPECIFICATION FairSpec
CONSTANTS
    None = None
    k1 = k1
    Tab = {k1}
    Page = {w1}
    Shows <- MCShows
    MaxRequests = 3
INVARIANTS TypeOK OneOwner EndTold Indexed
PROPERTY Reaped
CHECK_DEADLOCK FALSE
