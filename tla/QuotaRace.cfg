\* Two first users may each build a Quota object: is the count still exact?
CONSTANTS
    Callers = {c1, c2}
    Quotas = {q1, q2}
    Chain <- TwoProviders
    Off = {}
    Limit <- Limits
    Retries = 1
    MaxCalls = 2
    None = None
SPECIFICATION Spec
INVARIANTS
    CountExact
