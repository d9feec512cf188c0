CONSTANTS
    Nil = Nil
    Malformed = Malformed
    DefaultAppPackage = "app"
    Environments <- AllEnvironments
    Presented <- AllPresented
    expectedChallenge = "nonce"
    csrKey = "key"
SPECIFICATION Spec
INVARIANTS SoftwareListCannotSway StricterAcceptsLess BarWithoutDevMode
CHECK_DEADLOCK FALSE
