\* Fair threads, two first users; failed writes, crashes and the kill switch.
CONSTANTS
    Callers = {c1, c2}
    Quotas = {q1, q2}
    Chain <- TwoProviders
    Off = {}
    Limit <- Limits
    Retries = 1
    MaxCalls = 2
    None = None
SPECIFICATION FairSpec
INVARIANTS
    TypeOK
    BudgetHolds
    LockedUntilWritten
    SpentWhenRefused
PROPERTIES
    OnceThroughAtMost
    CallEnds
