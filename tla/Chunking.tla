------------------------------ MODULE Chunking ------------------------------
(***************************************************************************)
(* plan_chunks of rag/ingest.py.  A text is a sequence of characters of    *)
(* three kinds: "w" ordinary, "s" white space that follows the end of a    *)
(* sentence, "p" part of a break between paragraphs.  Spans are half-open  *)
(* and count from 0, as there.                                             *)
(***************************************************************************)
EXTENDS Naturals, Sequences, FiniteSets, SequencesExt

\* White space ends a sentence only after a character of one.
IsText(t) ==
    /\ t \in Seq({"w", "s", "p"})
    /\ \A i \in DOMAIN t : t[i] = "s" => i > 1 /\ t[i - 1] # "p"

TextsUpTo(n) == {t \in UNION {[1..k -> {"w", "s", "p"}] : k \in 0..n} : IsText(t)}

CharAt(text, at) == text[at + 1]

\* _spans: what [from, to) has between the separators, in order.  A character begins a
\* span at the start and behind a separator, and otherwise makes one longer.
Spans(text, from, to, separator) ==
    LET spans[at \in from..to] ==
            IF at = from THEN <<>>
            ELSE IF CharAt(text, at - 1) = separator THEN spans[at - 1]
            ELSE IF at - 1 = from \/ CharAt(text, at - 2) = separator
                 THEN spans[at - 1] \o <<<<at - 1, at>>>>
            ELSE [spans[at - 1] EXCEPT ![Len(spans[at - 1])] = <<@[1], at>>]
    IN spans[to]

\* Mutant of Overflows: a sentence is always added to the one before.
OverflowsNever(acc, sentence, budget) == FALSE

\* The sentence does not fit behind what is accumulated, and something is.
Overflows(acc, sentence, budget) == sentence[2] - acc.from > budget /\ acc.to > acc.from

\* The pieces of the budget's size that are cut off [from, to) while more is left.
Cuts(from, to, budget) == (to - from - 1) \div budget
Cut(from, to, budget) ==
    [i \in 1..Cuts(from, to, budget) |-> <<from + (i - 1) * budget, from + i * budget>>]

\* One sentence of a paragraph that is too long: what it overflows is put out.
AddSentence(acc, sentence, budget) ==
    LET flush == Overflows(acc, sentence, budget)
        from == IF flush THEN sentence[1] ELSE acc.from
    IN [out |-> acc.out \o (IF flush THEN <<<<acc.from, acc.to>>>> ELSE <<>>)
                        \o Cut(from, sentence[2], budget),
        from |-> from + Cuts(from, sentence[2], budget) * budget,
        to |-> sentence[2]]

\* A paragraph whole, or by sentences.
ParagraphChunks(para, text, budget) ==
    IF para[2] - para[1] <= budget THEN <<para>>
    ELSE LET sentences == Spans(text, para[1], para[2], "s")
             acc[n \in 0..Len(sentences)] ==
                 IF n = 0 THEN [out |-> <<>>, from |-> para[1], to |-> para[1]]
                 ELSE AddSentence(acc[n - 1], sentences[n], budget)
             all == acc[Len(sentences)]
         IN IF all.to > all.from THEN all.out \o <<<<all.from, all.to>>>> ELSE all.out

PlanChunks(text, budget) ==
    LET paras == Spans(text, 0, Len(text), "p")
        plan[n \in 0..Len(paras)] ==
            IF n = 0 THEN <<>> ELSE plan[n - 1] \o ParagraphChunks(paras[n], text, budget)
    IN plan[Len(paras)]

=============================================================================
