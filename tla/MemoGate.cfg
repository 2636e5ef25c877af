\* Every short text, flagged anywhere, is ingested while memos are built.
CONSTANTS
    Texts <- ShortTexts
    Budget = 2
    Drafts <- TwoDrafts
    LIMIT = 2
    Seats = {cfo, devil}
    None = None
SPECIFICATION Spec
INVARIANTS
    ChunksCover
    NoPlantedClaim
    EveryClaimOnce
