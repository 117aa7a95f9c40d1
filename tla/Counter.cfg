SPECIFICATION Spec
CONSTANTS
    Users = {u1}
    SeedEnrolled = {u1}
    CredentialIds = {k1}
    CeremonyIds = {p1}
    RegistrationCalls = {g1}
    DecisionIds = {d1}
    ChallengeIds = {c1}
    CreateCalls = {n1}
    VerifyCalls = {v1}
    Counters = {0, 1}
    Ttl = 2
    MaxTime = 1
    DemoMode = TRUE
    MayCrash = FALSE
    CoreEvents = 1
    local = local
    plain = plain
    Origins <- MCOrigins
    SecureOrigins <- MCSecureOrigins
    DefaultOrigin = local
    NoOrigin = NoOrigin
    FactorMaps <- MCFactorMaps
    NoRow = NoRow
    Idle = Idle
    NoCredential = NoCredential
    NoDecision = NoDecision
PROPERTY
    CounterAdvances
CHECK_DEADLOCK FALSE
