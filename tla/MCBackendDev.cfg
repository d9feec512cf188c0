CONSTANTS
    Nil = Nil
    Malformed = Malformed
    NoName = NoName
    Nonces = {n1}
    ChallengeRequests = {h1}
    ChallengeTTL = 1
    MaxTime = 1
    Keys = {k1}
    Serials = {s1, s2}
    EnrollRequests = {e1, e2}
    EnrollBodies <- EmulatorBodies
    Policy <- DevPolicy
    RepoWritesCanFail = TRUE
    MtlsRequests = {m1}
    OtherCerts <- ForeignCerts
SYMMETRY Symmetry
SPECIFICATION Spec
INVARIANTS
    AuthenticationIsAtomic
    UntrackedOnlyIfBothWritesFail
    OneCertificatePerChallenge
    RevocationHoldsUnlessRaced
PROPERTY ImplementsCertificateLedger
CHECK_DEADLOCK FALSE
