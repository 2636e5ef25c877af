\* Two requests ingest and one searches, while the process may die at any statement.
CONSTANTS
    Ingesters = {w1, w2}
    Docs = {"plan", "note"}
    NChunks <- TwoAndOne
    Embedders = {bge, mini}
    Dim <- OneWidth
    POOL = 2
    Unset = Unset
    None = None
SYMMETRY Alike
SPECIFICATION Spec
INVARIANTS
    TextWhole
    NoClash
    HitsResolve
    FusionFair
    OneSpaceEach
