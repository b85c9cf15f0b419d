SPECIFICATION FairSpec
CONSTANTS
    None = None
    outer = outer
    inner = inner
    shown = c1
    second = c2
    Workspace = {"w1"}
    Container = {c1, c2}
    WorkspaceOf <- MCBothInOne
    DefaultOf <- MCDefaultOf
    ProjectOf <- MCProjectOf
    Dir = {outer, inner}
    Above <- MCAbove
    Token = {1, 2, 3, 4, 5}
    Request = {r1, r2}
    Op = {"start", "reconcile"}
    FaultKinds = {}
    MaxFaults = 0
    Serial = FALSE
    InitialMounts <- MCApart
    InitialToken <- MCInitialToken
PROPERTY WrittenAfterLookupKept
CHECK_DEADLOCK FALSE
