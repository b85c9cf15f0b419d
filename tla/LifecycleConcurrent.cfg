SPECIFICATION FairSpec
CONSTANTS
    None = None
    outer = outer
    inner = inner
    shown = c1
    second = c2
    Workspace = {"w1", "w2"}
    Container = {c1, c2}
    WorkspaceOf <- MCOneEach
    DefaultOf <- MCDefaultOf
    ProjectOf <- MCProjectOf
    Dir = {outer, inner}
    Above <- MCAbove
    Token = {1, 2, 3}
    Request = {r1, r2}
    Op = {"ensure", "mutate", "start"}
    FaultKinds = {"podman", "store", "restart"}
    MaxFaults = 1
    Serial = FALSE
    InitialMounts <- MCNestedOrApart
    InitialToken <- MCInitialToken
INVARIANT NestingInv
PROPERTIES NeverNewNesting EnsureHandsOutUnnested EnsureKeepsUsable EveryCallReturns
CHECK_DEADLOCK FALSE
