SPECIFICATION Spec
CONSTANTS
    None = None
    Session = Session
    c1 = c1
    c2 = c2
    Container = {c1}
    Port = {80}
    HostPort = {1}
    Request = {r1, r2}
    MaxCalls = 3
    Op = {"publish", "unpublish", "remove"}
    Suggested <- MCAny
    MaxPublished = 1
    MaxAttempts = 2
    MaxOrphans = 2
    FaultKinds = {"caller"}
    MaxFaults = 1
    Serial = TRUE
INVARIANT NoPortOnlyInGateway
CHECK_DEADLOCK FALSE
