\* Requests of a session never overlap; crashes, aborts and the kill switch.
CONSTANTS
    Workers = {w1}
    Seating <- TwoSeats
    Stages = {Define}
    Tripping = {"devil"}
    MaxSigned = 6
    None = None
    HISTORY_ROUNDS = 1
    SUMMARY_TURNS = 2
SPECIFICATION Spec
INVARIANTS
    ChainIntact
    ShownIsStored
    RowBehindRecord
    RoundsWhole
    FlagsTruthful
    TamperEvident
    LastArgumentsReach
    ChamberComplete
PROPERTIES
    ClosedIsFinal
    KeepsRecord
