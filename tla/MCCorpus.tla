------------------------------ MODULE MCCorpus ------------------------------
(* A document of two chunks and one of one, two backends of one width, as    *)
(* two models that OLLAMA_EMBED_MODEL names are.                             *)
EXTENDS Corpus

TwoAndOne == [d \in Docs |-> IF d = "plan" THEN 2 ELSE 1]
OneWidth == [e \in Embedders |-> 1024]

\* No action and no property tells two requests, or two backends of one width, apart.
Alike == Permutations(Ingesters) \cup Permutations(Embedders)

=============================================================================
