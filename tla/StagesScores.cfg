\* A streamed and a synchronous request of one session overlap, either may fail or be
\* left, the process may die at any step, and the outcome comes at any time.
CONSTANTS
    Requests = {r1, r2}
    Streams = {r1}
    Seating <- TwoSeats
    Kinds = {"score", "framing", "dissent"}
    Options <- TwoOptions
    Alphabet <- Sorted
    Confidences <- Belief
    None = None
    End = End
SPECIFICATION FairSpec
INVARIANTS
    ArtefactWhole
    DoneAfterAll
    RowsAreEarned
PROPERTIES
    StreamEnds
