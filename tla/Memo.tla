-------------------------------- MODULE Memo --------------------------------
(***************************************************************************)
(* A memo over a document that is being ingested: crew/memo.py drafts,     *)
(* grounds every sentence in the corpus, and puts it where the gate of     *)
(* rag/citations.py lets it; rag/ingest.py inserts the document's rows     *)
(* meanwhile, on the connection that both share.                           *)
(*                                                                         *)
(* Sentences are opaque.  Which chunks share a long enough phrase with a   *)
(* sentence is any choice, and so is which of them retrieval returns.      *)
(***************************************************************************)
EXTENDS Chunking

CONSTANTS
    Texts,      \* the texts that may be uploaded
    Budget,     \* the largest chunk
    Drafts,     \* what the model may draft: two lists of sentences
    LIMIT,      \* how many hits a sentence gets
    Seats,      \* the seats, each of which may dissent
    None        \* no finding

ASSUME TextsAssumption == \A t \in Texts : IsText(t)
ASSUME BudgetAssumption == Budget \in Nat \ {0}
ASSUME DraftsAssumption ==
    Drafts \subseteq [context : Seq(STRING), reasoning : Seq(STRING)]
ASSUME LimitAssumption == LIMIT \in Nat
\* A seat's dissent can be told apart from the sentences.
ASSUME SeatsAssumption == IsFiniteSet(Seats) /\ Seats \cap STRING = {}

VARIABLES
    text,       \* the document
    finding,    \* the one passage the scanner flags in it, or None
    rows,       \* how far its rows are in: none, document, findings, chunks
    memo        \* the memo and what its handler is doing

vars == <<text, finding, rows, memo>>

Findings(t) == [from : 0..Len(t), to : 0..Len(t), severity : {"high", "medium"}]

NoMemo ==
    [pc |-> "idle", seen |-> {}, todo |-> <<>>, candidates |-> {}, ungrounded |-> FALSE,
     context |-> <<>>, reasoning |-> <<>>, uncited |-> <<>>, refused |-> <<>>,
     dissents |-> {}, unanimous |-> FALSE]

Init ==
    /\ text \in Texts
    /\ finding \in {None} \cup {f \in Findings(text) : f.from < f.to}
    /\ rows = "none"
    /\ memo = NoMemo

-----------------------------------------------------------------------------
(* The rows of the document, statement by statement.                       *)

\* Mutant of After: the chunks are inserted before the findings.
AfterSwapped == [none |-> "document", document |-> "text", text |-> "chunks"]

\* The order of the inserts.
After == [none |-> "document", document |-> "findings", findings |-> "chunks"]

Insert ==
    /\ rows \in DOMAIN After
    /\ rows' = After[rows]
    /\ UNCHANGED <<text, finding, memo>>

\* What the other handlers see of it.
Pieces == Range(PlanChunks(text, Budget))
StoredChunks == IF rows \in {"text", "chunks"} THEN Pieces ELSE {}
StoredFindings ==
    IF rows \in {"findings", "chunks"} /\ finding # None THEN {finding} ELSE {}

-----------------------------------------------------------------------------
(* The citation gate.                                                      *)

\* Mutant of Overlaps: only a finding inside the span counts.
OverlapsInside(f, span) == span[1] <= f.from /\ f.to <= span[2]

\* Half-open intervals that share a character.
Overlaps(f, span) == f.from < span[2] /\ f.to > span[1]

\* flagged_patterns: the high findings that the span overlaps.
Flagged(span) == \E f \in StoredFindings : f.severity = "high" /\ Overlaps(f, span)

\* require_citations: at least one, and each resolves; what ground returned does,
\* the quote being a phrase of the chunk's own text.
Gate(citations) ==
    IF citations = {} THEN "uncited"
    ELSE IF \E c \in citations : Flagged(c) THEN "poisoned" ELSE "passed"

-----------------------------------------------------------------------------
(* build_memo.                                                             *)

\* The sentences of both lists with the bucket each is meant for.
Sentences(draft) ==
    [i \in DOMAIN draft.context |-> <<"context", draft.context[i]>>]
    \o [i \in DOMAIN draft.reasoning |-> <<"reasoning", draft.reasoning[i]>>]

\* The model drafts from the passages it was shown, and the documents are counted.
Draft ==
    /\ memo.pc = "idle"
    /\ \E draft \in Drafts :
          memo' = [memo EXCEPT !.pc = "sentence", !.todo = Sentences(draft),
                               !.ungrounded = rows = "none"]
    /\ UNCHANGED <<text, finding, rows>>

\* A sentence that was seen is skipped.
Skip ==
    /\ memo.pc = "sentence" /\ memo.todo # <<>> /\ Head(memo.todo)[2] \in memo.seen
    /\ memo' = [memo EXCEPT !.todo = Tail(@)]
    /\ UNCHANGED <<text, finding, rows>>

\* ground, flagged spans included: the hits that share a phrase with the sentence.
Ground ==
    /\ memo.pc = "sentence" /\ memo.todo # <<>> /\ Head(memo.todo)[2] \notin memo.seen
    /\ \E candidates \in SUBSET StoredChunks :
          /\ Cardinality(candidates) <= LIMIT
          /\ memo' = [memo EXCEPT !.pc = "judge", !.seen = @ \cup {Head(memo.todo)[2]},
                                  !.candidates = candidates]
    /\ UNCHANGED <<text, finding, rows>>

\* Mutant of Bucket: a sentence without a citation is dropped from the memo.
BucketDropped(sentence, citations, poisoned) ==
    CASE Gate(citations) = "passed" -> [memo EXCEPT ![sentence[1]] =
                                            Append(@, [claim |-> sentence[2], cites |-> citations])]
      [] Gate(citations) = "poisoned" \/ poisoned -> [memo EXCEPT !.refused = Append(@, sentence[2])]
      [] OTHER -> memo

\* Where the sentence goes: into the body, among those whose only support was
\* planted, or among those that nothing supports.
Bucket(sentence, citations, poisoned) ==
    LET verdict == Gate(citations) IN
    CASE verdict = "passed" ->
            [memo EXCEPT ![sentence[1]] = Append(@, [claim |-> sentence[2], cites |-> citations])]
      [] verdict = "poisoned" \/ (verdict = "uncited" /\ poisoned) ->
            [memo EXCEPT !.refused = Append(@, sentence[2])]
      [] OTHER ->
            [memo EXCEPT !.uncited = Append(@, sentence[2])]

\* The flagged candidates are told apart, and the rest is put to the gate.
Judge ==
    /\ memo.pc = "judge"
    /\ LET citations == {c \in memo.candidates : ~Flagged(c)}
           placed == Bucket(Head(memo.todo), citations, citations # memo.candidates)
       IN memo' = [placed EXCEPT !.pc = "sentence", !.todo = Tail(@), !.candidates = {}]
    /\ UNCHANGED <<text, finding, rows>>

\* attach_dissents: the seats that answered and do not agree.
AttachDissents ==
    /\ memo.pc = "sentence" /\ memo.todo = <<>>
    /\ \E against \in SUBSET Seats :
          memo' = [memo EXCEPT !.pc = "done", !.dissents = against,
                               !.unanimous = Seats # {} /\ against = Seats]
    /\ UNCHANGED <<text, finding, rows>>

\* The handler has answered; the next memo is built anew.
Answered ==
    /\ memo.pc = "done"
    /\ memo' = NoMemo
    /\ UNCHANGED <<text, finding, rows>>

\* The client of the stream leaves, or a seat's dissent fails, after the draft: nothing
\* of the memo is kept.
Discarded ==
    /\ memo.pc = "sentence" /\ memo.todo = <<>>
    /\ memo' = NoMemo
    /\ UNCHANGED <<text, finding, rows>>

Next == Insert \/ Draft \/ Skip \/ Ground \/ Judge \/ AttachDissents \/ Answered \/ Discarded

Spec == Init /\ [][Next]_vars

-----------------------------------------------------------------------------

Body == {memo.context[i] : i \in DOMAIN memo.context}
            \cup {memo.reasoning[i] : i \in DOMAIN memo.reasoning}

\* render_markdown: the sections of the page, in order, with the sentences they show.
\* A section without content is left out; the ranking, the pre-mortem and what would
\* change the room's mind come as they were drafted.
Rendered(m) ==
    LET Note(shown, title) == IF shown THEN <<[title |-> title, shows |-> <<>>]>> ELSE <<>>
        List(title, shows) == IF shows # <<>> THEN <<[title |-> title, shows |-> shows]>> ELSE <<>>
        Said(claims) == [i \in DOMAIN claims |-> claims[i].claim]
    IN Note(TRUE, "Recommendation")
       \o Note(m.unanimous, "Every seat disagreed") \o Note(m.ungrounded, "No documents")
       \o List("Context", Said(m.context)) \o List("Reasoning", Said(m.reasoning))
       \o List("Dissent log", SetToSeq(m.dissents))
       \o List("Asserted without evidence", m.uncited) \o List("Refused", m.refused)

\* The chunks of a text are in order and apart, none is over the budget, every
\* ordinary character is in one of them, and a sentence that fits is not cut
\* (ingest.py: "each within budget where the text allows").
ChunksCover ==
    LET chunks == PlanChunks(text, Budget)
        In(at, c) == c[1] <= at /\ at < c[2]
        sentences == UNION {Range(Spans(text, p[1], p[2], "s")) :
                               p \in Range(Spans(text, 0, Len(text), "p"))}
    IN /\ \A i \in DOMAIN chunks :
             /\ chunks[i][1] < chunks[i][2] /\ chunks[i][2] - chunks[i][1] <= Budget
             /\ i > 1 => chunks[i - 1][2] <= chunks[i][1]
       /\ \A at \in 0..(Len(text) - 1) :
             CharAt(text, at) = "w" => \E c \in Range(chunks) : In(at, c)
       /\ \A s \in sentences : s[2] - s[1] <= Budget =>
             \E c \in Range(chunks) : c[1] <= s[1] /\ s[2] <= c[2]

\* No sentence of the body rests on a passage of the document that the scanner flags,
\* not even when the memo is built while the document's rows arrive (citations.py:
\* "Resolving is not the same as being trustworthy").
NoPlantedClaim ==
    \A claim \in Body :
        /\ claim.cites # {}
        /\ finding # None /\ finding.severity = "high" =>
              \A c \in claim.cites : ~(finding.from < c[2] /\ c[1] < finding.to)

\* A finished memo shows every sentence of the draft in exactly one section, however
\* often the model repeated it: none is dropped (memo.py: "recorded rather than
\* removed").
EveryClaimOnce ==
    memo.pc = "done" =>
        LET page == Rendered(memo)
            Places(s) == UNION {{<<i, k>> : k \in {n \in DOMAIN page[i].shows : page[i].shows[n] = s}} :
                                   i \in DOMAIN page}
        IN \A s \in memo.seen : Cardinality(Places(s)) = 1

=============================================================================
