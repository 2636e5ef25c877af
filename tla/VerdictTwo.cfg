\* Every way two seats can score two options, or one option twice, on two evidence ids.
\* The mean of the two confidences is halfway between two decimals, and may fall up.
CONSTANTS
    Seating <- TwoSeats
    Options = {1, 2}
    EvidenceIds = {1, 2}
    Totals = {4, 9}
    Confidences = {5005, 5006}
    HalvesUp <- FloatHalves
    None = None
SPECIFICATION Spec
INVARIANTS
    OrderIndependent
    FlipsAreEarned
    SensitivityAgrees
