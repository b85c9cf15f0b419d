SPECIFICATION Spec
CONSTANTS
    None = None
    Session = Session
    c1 = c1
    c2 = c2
    Container = {c1, c2}
    Port = {80, 90}
    HostPort = {1, 2}
    Request = {r1, r2}
    MaxCalls = 3
    Op = {"publish", "unpublish", "recreate", "ensure", "remove"}
    Suggested <- MCAny
    MaxPublished = 1
    MaxAttempts = 2
    MaxOrphans = 2
    FaultKinds = {"store", "podman", "agent", "gateway", "orchestrator"}
    MaxFaults = 1
    Serial = TRUE
INVARIANTS LeaseOwnsBindings BoundAsRecorded NoPortOnlyInGateway
CHECK_DEADLOCK FALSE
