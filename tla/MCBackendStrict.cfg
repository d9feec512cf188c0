CONSTANTS
    Nil = Nil
    Malformed = Malformed
    NoName = NoName
    Nonces = {n1, n2}
    ChallengeRequests = {h1}
    ChallengeTTL = 1
    MaxTime = 2
    Keys = {k1, k2}
    Serials = {s1, s2}
    EnrollRequests = {e1, e2}
    EnrollBodies <- StrictBodies
    Policy <- StrictPolicy
    RepoWritesCanFail = TRUE
    MtlsRequests = {m1}
    OtherCerts <- ForeignCerts
SYMMETRY Symmetry
SPECIFICATION Spec
INVARIANTS
    TypeOK
    AuthenticationIsAtomic
    UntrackedOnlyIfBothWritesFail
    OneCertificatePerChallenge
    RevocationHoldsUnlessRaced
PROPERTY ImplementsCertificateLedger
CHECK_DEADLOCK FALSE
