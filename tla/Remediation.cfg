SPECIFICATION Spec
CONSTANTS
    aarav = aarav
    priya = priya
    laptop = laptop
    phone = phone
    Users <- MCUsers
    Devices <- MCDevices
    SeededDevices <- MCSeededDevices
    SeededCapabilities <- MCSeededCapabilities
    DecisionIds = {d1, d2, d3}
    ReplayIds = {r1, r2}
    Requests <- MixedRequests
    ForkChanges <- NoForks
    SimWindow = 1
    MaxTime = 2
    MaxRemediations = 1
    DemoMode = TRUE
SYMMETRY Symmetry
INVARIANTS
    RemediationDelivers
    MinimalUnlessEnabledSince
    ExactReplayAgrees
CHECK_DEADLOCK FALSE
