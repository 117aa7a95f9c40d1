SPECIFICATION Spec
CONSTANTS
    DecisionIds = {d1, d2}
    ChallengeIds = {c1}
    NoDecision = NoDecision
    CallIds = {k1, k2}
    Selections = {"PASSKEY"}
    WebAuthnAvailable = TRUE
    Empty = Empty
    NoCall = NoCall
    Pending = Pending
    Failed = Failed
    NoChallenge = NoChallenge
    NoVerdict = NoVerdict
PROPERTIES
    RefreshKeepsDecision
CHECK_DEADLOCK FALSE
