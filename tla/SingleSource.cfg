\* What the reader is told when no removal changes the winner.
CONSTANTS
    Seating <- TwoSeats
    Options = {1, 2}
    EvidenceIds = {1, 2}
    Totals = {4, 9}
    Confidences = {5000, 9000}
    HalvesUp = {}
    None = None
SPECIFICATION Spec
INVARIANTS
    NoSingleSource
