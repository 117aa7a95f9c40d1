SPECIFICATION Spec
CONSTANTS
    Users = {u1}
    SeedEnrolled = {u1}
    CredentialIds = {k1}
    CeremonyIds = {p1, p2}
    RegistrationCalls = {g1, g2}
    DecisionIds = {d1}
    ChallengeIds = {c1}
    CreateCalls = {n1}
    VerifyCalls = {v1, v2}
    Counters = {0}
    Ttl = 1
    MaxTime = 1
    DemoMode = TRUE
    MayCrash = FALSE
    CoreEvents = 1
    local = local
    plain = plain
    Origins = {local}
    SecureOrigins = {local}
    DefaultOrigin = local
    NoOrigin = NoOrigin
    FactorMaps <- MCFactorMaps
    NoRow = NoRow
    Idle = Idle
    NoCredential = NoCredential
    NoDecision = NoDecision
PROPERTIES
    VerificationSettles
    CompletionSettles
CHECK_DEADLOCK FALSE
