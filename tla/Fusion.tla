------------------------------- MODULE Fusion -------------------------------
(***************************************************************************)
(* The rank fusion of rag/retrieve.py: the mean reciprocal rank over the   *)
(* arms that could have ranked a chunk.  Ranks count from 0, as there.     *)
(***************************************************************************)
EXTENDS Naturals, Sequences, FiniteSets, SequencesExt

RRF_K == 60

\* The chunks that one of the arms ranked.
Ranked(arm) == {arm[i] : i \in DOMAIN arm}

\* 1 / (RRF_K + rank + 1), the reciprocal's denominator.
Weight(arm, c) == RRF_K + CHOOSE i \in DOMAIN arm : arm[i] = c

\* Mutant of Share: textbook fusion, the sum over the arms.
ShareSum(arms) == 1

\* The mean is over the arms that could rank the chunk.
Share(arms) == IF arms = 0 THEN 1 ELSE arms

\* The score of a chunk as a fraction: bm25 counts when the chunk shares a token
\* with the query (eligible), the vector arm when it ran; an arm that counts and did
\* not rank the chunk contributes nothing.
Fused(c, lexical, semantic, eligible, vectorRan) ==
    LET inLex == c \in eligible /\ c \in Ranked(lexical)
        inVec == vectorRan /\ c \in Ranked(semantic)
        arms == (IF c \in eligible THEN 1 ELSE 0) + (IF vectorRan THEN 1 ELSE 0)
        x == IF inLex THEN Weight(lexical, c) ELSE 1
        y == IF inVec THEN Weight(semantic, c) ELSE 1
    IN [num |-> (IF inLex THEN y ELSE 0) + (IF inVec THEN x ELSE 0),
        den |-> x * y * Share(arms)]

Higher(p, q) == p.num * q.den > q.num * p.den

\* The fused chunks, best first; the order of equal scores is the order of a
\* set's iteration, which nothing fixes.
FusedOrders(chunks, score) ==
    {order \in SetToSeqs(chunks) :
        \A i, j \in DOMAIN order : i < j => ~Higher(score[order[j]], score[order[i]])}

=============================================================================
