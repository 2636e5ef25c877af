\* Two searches overlap on one chain.
CONSTANTS
    Callers = {c1, c2}
    Tiers <- AllTiers
    LIMIT = 2
    Urls = {u1, u2}
    Links <- NoPages
    MaxHeard = 3
    Stub = "stub"
SPECIFICATION Spec
INVARIANTS
    ToldOfOneSearch
    ResultsSound
