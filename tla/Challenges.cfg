SPECIFICATION Spec
CONSTANTS
    Users = {u1}
    SeedEnrolled = {u1}
    CredentialIds = {k1}
    CeremonyIds = {}
    RegistrationCalls = {}
    DecisionIds = {d1, d2}
    ChallengeIds = {c1, c2}
    CreateCalls = {n1, n2}
    VerifyCalls = {v1, v2}
    Counters = {0}
    Ttl = 1
    MaxTime = 2
    DemoMode = TRUE
    MayCrash = TRUE
    CoreEvents = 2
    local = local
    plain = plain
    Origins <- MCOrigins
    SecureOrigins <- MCSecureOrigins
    DefaultOrigin = local
    NoOrigin = NoOrigin
    FactorMaps <- MCFactorMaps
    NoRow = NoRow
    Idle = Idle
    NoCredential = NoCredential
    NoDecision = NoDecision
SYMMETRY Symmetry
INVARIANTS
    TypeOK
    NoOrphans
    OnlyEligibleFactorsChallenged
    TraceGapless
    StatusTellsLastOutcome
    AuthorizedIsEarned
    OneEventPerChange
PROPERTIES
    SettledIsFinal
    PromiseKept
CHECK_DEADLOCK FALSE
