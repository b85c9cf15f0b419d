SPECIFICATION Spec
CONSTANTS
    None = None
    k1 = k1
    Tab = {k1}
    Page = {w1}
    Shows <- MCShows
    MaxRequests = 2
INVARIANT OnePtyPerTab
CHECK_DEADLOCK FALSE
