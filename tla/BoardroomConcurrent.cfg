\* Two handlers at a time, scheduled fairly, in every interleaving, with crashes and aborts;
\* a rule trips on two seats of three, so that save_flags can fail half-way.
CONSTANTS
    Workers = {w1, w2}
    Seating <- ThreeSeats
    Stages = {Define}
    Tripping = {"cfo", "devil"}
    MaxSigned = 3
    None = None
    HISTORY_ROUNDS = 1
    SUMMARY_TURNS = 3
SPECIFICATION FairSpec
INVARIANTS
    TypeOK
    TransactionIsHolders
    HolderSaves
    RequestOK
PROPERTIES
    AppendOnly
    LockReleased
    RequestEnds
