SPECIFICATION FairSpec
CONSTANTS
    None = None
    Session = Session
    c1 = c1
    c2 = c2
    Container = {c1, c2}
    Port = {80}
    HostPort = {1, 2}
    Request = {r1, r2}
    MaxCalls = 3
    Op = {"publish", "unpublish", "recreate", "ensure", "remove"}
    Suggested <- MCApart
    MaxPublished = 1
    MaxAttempts = 2
    MaxOrphans = 2
    FaultKinds = {"caller", "agent", "gateway", "orchestrator"}
    MaxFaults = 2
    Serial = TRUE
PROPERTIES GoneReleases Recovers
CHECK_DEADLOCK FALSE
