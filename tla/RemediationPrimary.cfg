SPECIFICATION Spec
CONSTANTS
    aarav = aarav
    priya = priya
    laptop = laptop
    phone = phone
    Users <- MCUsers
    Devices <- MCDevices
    SeededDevices <- MCSeededDevices
    SeededCapabilities <- MCSeededCapabilities
    DecisionIds = {d1}
    ReplayIds = {r1}
    Requests <- RemedyRequests
    ForkChanges <- NoForks
    SimWindow = 1
    MaxTime = 1
    MaxRemediations = 1
    DemoMode = TRUE
INVARIANTS
    RemediationTriesPrimary
CHECK_DEADLOCK FALSE
