\* Two overlapping requests break the hash chain.
CONSTANTS
    Workers = {w1, w2}
    Seating <- TwoSeats
    Stages = {Define}
    Tripping = {"devil"}
    MaxSigned = 4
    None = None
    HISTORY_ROUNDS = 1
    SUMMARY_TURNS = 3
SPECIFICATION Spec
INVARIANT
    ChainIntact
