CONSTANTS
    Nil = Nil
    DeviceKeys = {k1, k2, k3}
    Calls = {c1, c2}
    Scenarios <- OverlappingScenarios
SPECIFICATION Spec
INVARIANT CachedClientIsCurrent
CHECK_DEADLOCK FALSE
