SPECIFICATION Spec
CONSTANTS
    active = active
    candidate = candidate
    Processes = {s1, s2, cli}
    Servers = {s1, s2}
    N = 3
    Bundles <- MCBundles
    Earlier <- MCEarlier
    Nobody = Nobody
INVARIANTS
    TypeOK
    RunExactlyOnce
    ListeningIsComplete
PROPERTIES
    GrowsInOrder
    LoneStartSucceeds
CHECK_DEADLOCK FALSE
