CONSTANTS
    Nil = Nil
    DeviceKeys = {k1, k2, k3}
    Calls = {c1}
    Scenarios <- KeystoreFailsScenarios
SPECIFICATION Spec
INVARIANT FailedCallKeepsIdentity
CHECK_DEADLOCK FALSE
