SPECIFICATION Spec
CONSTANTS
    aarav = aarav
    priya = priya
    laptop = laptop
    phone = phone
    Users <- MCUsers
    Devices <- MCDevices
    SeededDevices <- MCSeededDevices
    SeededCapabilities <- MCSeededCapabilities
    DecisionIds = {d1, d2}
    ReplayIds = {r1}
    Requests <- FewRequests
    ForkChanges <- NoForks
    SimWindow = 1
    MaxTime = 2
    MaxRemediations = 0
    DemoMode = TRUE
SYMMETRY Symmetry
INVARIANTS
    ExactReplayIsIdentical
CHECK_DEADLOCK FALSE
