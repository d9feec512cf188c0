CONSTANTS
    Nil = Nil
    Nonces = {n1, n2}
    ChallengeRequests = {h1, h2}
    Verifiers = {v1, v2}
    ChallengeTTL = 2
    MaxTime = 4
SPECIFICATION Spec
INVARIANT TypeOK
PROPERTIES ImplementsLedger StoreDrains
CHECK_DEADLOCK FALSE
