CONSTANTS
    Nil = Nil
    r1 = r1
    r2 = r2
    k1 = k1
    k2 = k2
    ListKeys = {k1, k2}
    Callers = {r1, r2}
    Chain <- MCChain
    TTL = 2
    FetchTimeout = 1
SPECIFICATION Spec
INVARIANTS TypeOK OverdueKeyNeverCleared
PROPERTIES CacheNeverRegresses VerificationEnds
