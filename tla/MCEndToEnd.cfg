CONSTANTS
    Nil = Nil
    DeviceKeys = {k1, k2, k3, k4}
    Calls = {c1}
    Scenarios <- AllScenarios
    MaxFaults = 3
SPECIFICATION SystemSpec
INVARIANTS SystemTypeOK EnrolledIsRegistered HeldIsRegistered
PROPERTIES ImplementsCertificateLedger AuthenticatesOrTurnedAway
CHECK_DEADLOCK FALSE
