\* The commit that publishes a document before its vectors.
CONSTANTS
    Ingesters = {w1, w2}
    Docs = {"plan", "note"}
    NChunks <- TwoAndOne
    Embedders = {bge, mini}
    Dim <- OneWidth
    POOL = 2
    Unset = Unset
    None = None
SYMMETRY Alike
SPECIFICATION Spec
INVARIANTS
    NeverHalfIngested
