CONSTANTS
    Nil = Nil
    DeviceKeys = {k1, k2, k3}
    Calls = {c1, c2}
    Scenarios <- AllScenarios
SPECIFICATION Spec
INVARIANTS TypeOK EnrolledIsUsable FailedCallKeepsIdentity CachedClientIsCurrentUnlessRaced
PROPERTY LoadingEnds
CHECK_DEADLOCK FALSE
