SPECIFICATION Spec
CONSTANTS
    aarav = aarav
    priya = priya
    laptop = laptop
    phone = phone
    Users <- MCUsers
    Devices <- MCDevices
    SeededDevices <- MCSeededDevices
    SeededCapabilities <- MCSeededCapabilities
    DecisionIds = {d1, d2}
    ReplayIds = {r1}
    Requests <- BroadRequests
    ForkChanges <- AlarmForks
    SimWindow = 1
    MaxTime = 2
    MaxRemediations = 0
    DemoMode = TRUE
SYMMETRY Symmetry
INVARIANTS
    TypeOK
    SmsClosedAfterSimChange
    CandidateOnlyRestricts
    AlarmOnlyRestricts
    DiffFollowsCauses
    TraceTellsOutcome
CHECK_DEADLOCK FALSE
