SPECIFICATION Spec
CONSTANTS
    Users = {u1, u2}
    SeedEnrolled = {u1}
    CredentialIds = {k1, k2}
    CeremonyIds = {p1, p2}
    RegistrationCalls = {g1, g2}
    DecisionIds = {d1}
    ChallengeIds = {c1}
    CreateCalls = {n1}
    VerifyCalls = {v1}
    Counters = {0}
    Ttl = 1
    MaxTime = 2
    DemoMode = TRUE
    MayCrash = TRUE
    CoreEvents = 1
    local = local
    plain = plain
    Origins = {local}
    SecureOrigins = {local}
    DefaultOrigin = local
    NoOrigin = NoOrigin
    FactorMaps <- MCPasskeyMaps
    NoRow = NoRow
    Idle = Idle
    NoCredential = NoCredential
    NoDecision = NoDecision
SYMMETRY Symmetry
INVARIANTS
    OneCredentialPerCeremony
    CredentialHasCeremony
    EnrolledMatchesCredentials
    AcceptedCredentialIsOwned
    RealCeremonyNeedsCredential
PROPERTY
    RegistrationsAreFinal
CHECK_DEADLOCK FALSE
