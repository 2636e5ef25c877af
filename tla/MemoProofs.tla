------------------------------ MODULE MemoProofs ------------------------------
(***************************************************************************)
(* That no sentence of a memo's body rests on a planted passage, for any   *)
(* text, any finding in it, any budget and any drafts, while the rows of   *)
(* the document arrive.  The argument: a sentence has a candidate only     *)
(* when the chunks are in, the findings went in before them, and so the    *)
(* gate sees the finding whenever there is something to cite.              *)
(*                                                                         *)
(* And that the page of a finished memo shows every sentence once.  The    *)
(* argument: of the four lists a sentence may go to, each one dealt with   *)
(* is in exactly one and any other is in none; the page is the lists put   *)
(* end to end, and a dissent is no sentence.                               *)
(*                                                                         *)
(* And that the chunks of any text, for any budget, are in order and apart *)
(* and lose nothing.  The argument: each of the three loops of plan_chunks *)
(* is a recursive function over the numbers up to some n, which exists and *)
(* keeps its invariant because every n hands it to n + 1; what has been    *)
(* put out covers all that is no longer accumulated.                       *)
(***************************************************************************)
EXTENDS Memo, FiniteSetTheorems, WellFoundedInduction, TLAPS

Buckets == {"context", "reasoning"}
Claims == [claim : STRING, cites : SUBSET Pieces]
Memos ==
    [pc : {"idle", "sentence", "judge", "done"}, seen : SUBSET STRING,
     todo : Seq(Buckets \X STRING), candidates : SUBSET Pieces, ungrounded : BOOLEAN,
     context : Seq(Claims), reasoning : Seq(Claims), uncited : Seq(STRING),
     refused : Seq(STRING), dissents : SUBSET Seats, unanimous : BOOLEAN]

TypeOK ==
    /\ memo \in Memos
    /\ rows \in {"none", "document", "findings", "chunks"}
    /\ memo.pc = "judge" => memo.todo # <<>>

\* Nobody has found a chunk to cite before the chunks are stored.
NothingToCite == memo.candidates # {} => rows = "chunks"

\* A citation that does not touch the planted passage.
Clean(c) ==
    finding # None /\ finding.severity = "high" =>
        ~(finding.from < c[2] /\ c[1] < finding.to)
Sound(claims) ==
    \A i \in DOMAIN claims : claims[i].cites # {} /\ \A c \in claims[i].cites : Clean(c)

IInv == TypeOK /\ NothingToCite /\ Sound(memo.context) /\ Sound(memo.reasoning)

LEMMA NoMemoType == NoMemo \in Memos /\ NoMemo.candidates = {} /\ NoMemo.pc = "idle"
                    /\ NoMemo.context = <<>> /\ NoMemo.reasoning = <<>>
BY DEF NoMemo, Memos

LEMMA InitIInv == Init => IInv
BY NoMemoType DEF Init, IInv, TypeOK, NothingToCite, Sound

\* One more sound claim.
LEMMA OneMore ==
    ASSUME NEW claims \in Seq(Claims), Sound(claims), NEW claim \in Claims,
           claim.cites # {}, \A c \in claim.cites : Clean(c)
    PROVE  Append(claims, claim) \in Seq(Claims) /\ Sound(Append(claims, claim))
<1>1. \A i \in DOMAIN Append(claims, claim) :
          Append(claims, claim)[i] = IF i = Len(claims) + 1 THEN claim ELSE claims[i]
  OBVIOUS
<1>2. \A i \in DOMAIN Append(claims, claim) : i # Len(claims) + 1 => i \in DOMAIN claims
  OBVIOUS
<1>3. Append(claims, claim) \in Seq(Claims)
  OBVIOUS
<1> QED
  BY <1>1, <1>2, <1>3 DEF Sound

\* The gate lets through only what is sound: with something to cite, the findings of
\* the document are stored.
LEMMA PassedIsClean ==
    ASSUME IInv, NEW citations, citations = {c \in memo.candidates : ~Flagged(c)},
           Gate(citations) = "passed"
    PROVE  citations # {} /\ \A c \in citations : Clean(c)
<1>1. citations # {}
  BY DEF Gate
<1>2. rows = "chunks"
  BY <1>1 DEF IInv, NothingToCite
<1> QED
  BY <1>1, <1>2 DEF Flagged, StoredFindings, Overlaps, Clean

LEMMA JudgeStep == ASSUME IInv, Judge PROVE IInv'
<1> DEFINE sentence == Head(memo.todo)
           citations == {c \in memo.candidates : ~Flagged(c)}
           placed == Bucket(sentence, citations, citations # memo.candidates)
           claim == [claim |-> sentence[2], cites |-> citations]
<1>1. memo \in Memos /\ memo.todo \in Seq(Buckets \X STRING) /\ memo.todo # <<>>
  BY DEF IInv, TypeOK, Memos, Judge
<1>2. sentence \in Buckets \X STRING /\ Tail(memo.todo) \in Seq(Buckets \X STRING)
  BY <1>1
<1>3. claim \in Claims
  BY <1>1, <1>2 DEF Claims, Memos
<1>4. /\ memo' = [placed EXCEPT !.pc = "sentence", !.todo = Tail(memo.todo), !.candidates = {}]
      /\ UNCHANGED <<text, finding, rows>>
  <2>1. memo' = [placed EXCEPT !.pc = "sentence", !.todo = Tail(@), !.candidates = {}]
        /\ UNCHANGED <<text, finding, rows>>
    BY DEF Judge
  <2>2. placed.todo = memo.todo
    BY <1>1, <1>2 DEF Bucket, Memos, Buckets
  <2> QED
    BY <2>1, <2>2
<1>5. placed \in Memos /\ Sound(placed.context) /\ Sound(placed.reasoning)
  <2>1. CASE Gate(citations) = "passed"
    <3>1. \A b \in Buckets : /\ memo[b] \in Seq(Claims)
                             /\ Append(memo[b], claim) \in Seq(Claims)
                             /\ Sound(memo[b]) /\ Sound(Append(memo[b], claim))
      BY <1>1, <1>3, <2>1, PassedIsClean, OneMore DEF IInv, Memos, Buckets, Claims
    <3>2. placed = [memo EXCEPT ![sentence[1]] = Append(memo[sentence[1]], claim)]
      BY <2>1 DEF Bucket
    <3>3. sentence[1] \in Buckets
      BY <1>2
    <3> HIDE DEF claim, placed, sentence
    <3>4. CASE sentence[1] = "context"
      BY <1>1, <3>1, <3>2, <3>4 DEF Memos, Buckets
    <3>5. CASE sentence[1] = "reasoning"
      BY <1>1, <3>1, <3>2, <3>5 DEF Memos, Buckets
    <3> QED
      BY <3>3, <3>4, <3>5 DEF Buckets
  <2>2. CASE Gate(citations) # "passed"
    <3>1. \/ placed = [memo EXCEPT !.refused = Append(memo.refused, sentence[2])]
          \/ placed = [memo EXCEPT !.uncited = Append(memo.uncited, sentence[2])]
      BY <2>2 DEF Bucket, Gate
    <3>2. /\ Append(memo.refused, sentence[2]) \in Seq(STRING)
          /\ Append(memo.uncited, sentence[2]) \in Seq(STRING)
      BY <1>1, <1>2 DEF Memos
    <3> HIDE DEF placed, sentence
    <3> QED
      BY <1>1, <3>1, <3>2 DEF IInv, Memos
  <2> QED
    BY <2>1, <2>2
<1> HIDE DEF placed
<1>6. /\ memo' \in Memos /\ memo'.pc = "sentence" /\ memo'.candidates = {}
      /\ memo'.context = placed.context /\ memo'.reasoning = placed.reasoning
  BY <1>2, <1>4, <1>5 DEF Memos
<1>7. Pieces' = Pieces /\ Memos' = Memos
  BY <1>4 DEF Pieces, Memos, Claims
<1>8. Sound(memo.context)' /\ Sound(memo.reasoning)'
  BY <1>4, <1>5, <1>6 DEF Sound, Clean
<1> QED
  BY <1>4, <1>6, <1>7, <1>8 DEF IInv, TypeOK, NothingToCite

LEMMA IsASeq ==
    ASSUME NEW S, NEW n \in Nat, NEW f \in [1..n -> S]
    PROVE  f \in Seq(S)
OBVIOUS

\* What the model drafts is a list of sentences, each with its bucket.
LEMMA DraftType ==
    ASSUME NEW draft \in Drafts
    PROVE  Sentences(draft) \in Seq(Buckets \X STRING)
<1>1. draft.context \in Seq(STRING) /\ draft.reasoning \in Seq(STRING)
  BY DraftsAssumption
<1>2. /\ [i \in DOMAIN draft.context |-> <<"context", draft.context[i]>>] \in Seq(Buckets \X STRING)
      /\ [i \in DOMAIN draft.reasoning |-> <<"reasoning", draft.reasoning[i]>>] \in Seq(Buckets \X STRING)
  <2>1. ASSUME NEW said \in Seq(STRING), NEW b \in Buckets
        PROVE  [i \in DOMAIN said |-> <<b, said[i]>>] \in Seq(Buckets \X STRING)
    <3>1. DOMAIN said = 1..Len(said) /\ Len(said) \in Nat
      OBVIOUS
    <3>2. [i \in 1..Len(said) |-> <<b, said[i]>>] \in [1..Len(said) -> Buckets \X STRING]
      OBVIOUS
    <3> QED
      BY <3>1, <3>2, IsASeq
  <2> QED
    BY <1>1, <2>1 DEF Buckets
<1> QED
  BY <1>2 DEF Sentences

LEMMA Step == IInv /\ [Next]_vars => IInv'
<1> SUFFICES ASSUME IInv, [Next]_vars PROVE IInv'
  OBVIOUS
<1>1. memo \in Memos
  BY DEF IInv, TypeOK
<1> DEFINE Goal == IInv'
\* The document's rows: chunks, once stored, stay.
<1>2. CASE Insert
  <2>1. Memos' = Memos /\ UNCHANGED <<memo, finding>>
    BY <1>2 DEF Insert, Memos, Claims, Pieces
  <2>2. /\ rows' \in {"none", "document", "findings", "chunks"}
        /\ rows # "chunks"
    BY <1>2 DEF Insert, After, IInv, TypeOK
  <2> QED
    BY <2>1, <2>2 DEF IInv, TypeOK, NothingToCite, Sound, Clean
\* A step of the memo that adds no claim.
<1>3. ASSUME UNCHANGED <<text, finding, rows>>, memo' \in Memos,
             memo'.pc = "judge" => memo'.todo # <<>>,
             memo'.candidates # {} => rows = "chunks",
             memo'.context \in {memo.context, <<>>}, memo'.reasoning \in {memo.reasoning, <<>>}
      PROVE  Goal
  <2>1. Memos' = Memos
    BY <1>3 DEF Memos, Claims, Pieces
  <2>2. Sound(memo.context)' /\ Sound(memo.reasoning)'
    BY <1>3 DEF IInv, Sound, Clean
  <2> QED
    BY <1>3, <2>1, <2>2 DEF IInv, TypeOK, NothingToCite
<1>4. CASE Draft
  <2>1. PICK draft \in Drafts :
            memo' = [memo EXCEPT !.pc = "sentence", !.todo = Sentences(draft),
                                 !.ungrounded = rows = "none"]
    BY <1>4 DEF Draft
  <2> DEFINE empty == rows = "none"
             sentences == Sentences(draft)
  <2>2. empty \in BOOLEAN /\ sentences \in Seq(Buckets \X STRING)
    BY DraftType
  <2>3. memo' = [memo EXCEPT !.pc = "sentence", !.todo = sentences, !.ungrounded = empty]
    BY <2>1
  <2> HIDE DEF empty, sentences
  <2>4. /\ memo' \in Memos /\ memo'.pc = "sentence" /\ memo'.candidates = memo.candidates
        /\ memo'.context = memo.context /\ memo'.reasoning = memo.reasoning
    BY <1>1, <2>2, <2>3 DEF Memos
  <2> QED
    BY <1>3, <1>4, <2>4 DEF Draft, IInv, NothingToCite
<1>5. CASE Skip
  <2> DEFINE rest == Tail(memo.todo)
  <2>1. memo.todo \in Seq(Buckets \X STRING) /\ memo.todo # <<>> /\ memo.pc = "sentence"
    BY <1>1, <1>5 DEF Skip, Memos
  <2>2. rest \in Seq(Buckets \X STRING)
    BY <2>1
  <2>3. memo' = [memo EXCEPT !.todo = rest] /\ UNCHANGED <<text, finding, rows>>
    BY <1>5 DEF Skip
  <2> HIDE DEF rest
  <2>4. /\ memo' \in Memos /\ memo'.pc = "sentence" /\ memo'.candidates = memo.candidates
        /\ memo'.context = memo.context /\ memo'.reasoning = memo.reasoning
    BY <1>1, <2>1, <2>2, <2>3 DEF Memos
  <2> QED
    BY <1>3, <2>3, <2>4 DEF IInv, NothingToCite
<1>6. CASE Ground
  <2>1. PICK candidates \in SUBSET StoredChunks :
            memo' = [memo EXCEPT !.pc = "judge", !.seen = @ \cup {Head(memo.todo)[2]},
                                 !.candidates = candidates]
    BY <1>6 DEF Ground
  <2>2. memo.todo # <<>> /\ Head(memo.todo) \in Buckets \X STRING
    BY <1>1, <1>6 DEF Ground, Memos
  <2>3. candidates \in SUBSET Pieces /\ (candidates # {} => rows = "chunks")
    BY <2>1 DEF StoredChunks, IInv, TypeOK
  <2>4. memo' \in Memos
    BY <1>1, <2>1, <2>2, <2>3 DEF Memos
  <2> QED
    BY <1>1, <1>3, <1>6, <2>1, <2>2, <2>3, <2>4 DEF Ground, Memos
<1>7. CASE AttachDissents
  <2>1. memo' \in Memos
    BY <1>1, <1>7 DEF AttachDissents, Memos
  <2> QED
    BY <1>1, <1>3, <1>7, <2>1 DEF AttachDissents, Memos, IInv, NothingToCite
<1>8. CASE Answered \/ Discarded
  BY <1>3, <1>8, NoMemoType DEF Answered, Discarded
<1>9. CASE UNCHANGED vars
  BY <1>1, <1>3, <1>9 DEF vars, IInv, TypeOK, NothingToCite
<1> QED
  BY <1>2, <1>4, <1>5, <1>6, <1>7, <1>8, <1>9, JudgeStep DEF Next

\* Whatever a document tells the model and whenever it arrives, a sentence in the body
\* of a memo cites something, and nothing it cites touches a passage that the scanner
\* flagged as high (citations.require_citations behind build_memo).
THEOREM NothingPlanted == Spec => []NoPlantedClaim
<1>1. IInv => NoPlantedClaim
  BY DEF IInv, Sound, Clean, NoPlantedClaim, Body
<1> QED
  BY <1>1, InitIInv, Step, PTL DEF Spec

-----------------------------------------------------------------------------
(* Where a sentence is shown.                                              *)

\* The places of a list that hold a sentence; it may be absent, or there once.
Places(list, s) == {k \in DOMAIN list : list[k] = s}
Absent(list, s) == Places(list, s) = {}
Single(list, s) == \E k \in Nat : Places(list, s) = {k}

\* The lists of a memo that its sentences go to.
SaidBy(claims) == [i \in DOMAIN claims |-> claims[i].claim]
Bins == {"context", "reasoning", "uncited", "refused"}
Lists(m) == [context |-> SaidBy(m.context), reasoning |-> SaidBy(m.reasoning),
             uncited |-> m.uncited, refused |-> m.refused]

Unplaced(m, s) == \A b \in Bins : Absent(Lists(m)[b], s)
Placed(m, s) ==
    \E b \in Bins : Single(Lists(m)[b], s) /\ \A c \in Bins \ {b} : Absent(Lists(m)[c], s)

\* The sentence that the gate is looking at.
Judged(m) == IF m.pc = "judge" THEN {Head(m.todo)[2]} ELSE {}

\* Every sentence that was dealt with is in one place, and no other is in any.
OnceEach ==
    /\ Judged(memo) \subseteq memo.seen
    /\ \A s \in STRING :
          IF s \in memo.seen \ Judged(memo) THEN Placed(memo, s) ELSE Unplaced(memo, s)

LEMMA ListsAt ==
    ASSUME NEW m
    PROVE  /\ Lists(m)["context"] = SaidBy(m.context) /\ Lists(m)["reasoning"] = SaidBy(m.reasoning)
           /\ Lists(m)["uncited"] = m.uncited /\ Lists(m)["refused"] = m.refused
BY DEF Lists

\* What Append does, at the end and before it.
LEMMA AppendIs ==
    ASSUME NEW S, NEW list \in Seq(S), NEW x \in S
    PROVE  /\ Len(list) \in Nat /\ DOMAIN list = 1..Len(list)
           /\ DOMAIN Append(list, x) = 1..(Len(list) + 1)
           /\ Append(list, x) \in [1..(Len(list) + 1) -> S]
           /\ \A k \in 1..Len(list) : Append(list, x)[k] = list[k]
           /\ Append(list, x)[Len(list) + 1] = x
<1>1. Len(list) \in Nat /\ DOMAIN list = 1..Len(list)
  OBVIOUS
<1>2. Append(list, x) \in Seq(S) /\ Len(Append(list, x)) = Len(list) + 1
  OBVIOUS
<1>3. DOMAIN Append(list, x) = 1..(Len(list) + 1) /\ Append(list, x) \in [1..(Len(list) + 1) -> S]
  <2> DEFINE more == Append(list, x)
  <2>1. more \in Seq(S) /\ Len(more) = Len(list) + 1
    BY <1>2
  <2> HIDE DEF more
  <2>2. more \in [1..Len(more) -> S]
    BY <2>1
  <2>3. more \in [1..(Len(list) + 1) -> S]
    BY <2>1, <2>2
  <2>4. DOMAIN more = 1..(Len(list) + 1)
    BY <2>3
  <2> QED
    BY <2>3, <2>4 DEF more
<1>4. \A k \in 1..Len(list) : Append(list, x)[k] = list[k]
  OBVIOUS
<1>5. Append(list, x)[Len(list) + 1] = x
  OBVIOUS
<1> QED
  BY <1>1, <1>3, <1>4, <1>5

LEMMA SaidType ==
    ASSUME NEW claims \in Seq(Claims)
    PROVE  /\ SaidBy(claims) \in [1..Len(claims) -> STRING]
           /\ SaidBy(claims) \in Seq(STRING) /\ Len(SaidBy(claims)) = Len(claims)
<1>1. DOMAIN claims = 1..Len(claims) /\ Len(claims) \in Nat
  OBVIOUS
<1>2. \A k \in 1..Len(claims) : claims[k] \in Claims
  OBVIOUS
<1>3. \A c \in Claims : c.claim \in STRING
  BY DEF Claims
<1>4. SaidBy(claims) \in [1..Len(claims) -> STRING]
  BY <1>1, <1>2, <1>3 DEF SaidBy
<1>5. SaidBy(claims) \in Seq(STRING)
  BY <1>1, <1>4, IsASeq
<1>6. Len(SaidBy(claims)) = Len(claims)
  BY <1>1, <1>4, <1>5
<1> QED
  BY <1>4, <1>5, <1>6

LEMMA ListTypes ==
    ASSUME NEW m \in Memos
    PROVE  \A b \in Bins : Lists(m)[b] \in Seq(STRING)
<1>1. /\ m.context \in Seq(Claims) /\ m.reasoning \in Seq(Claims)
      /\ m.uncited \in Seq(STRING) /\ m.refused \in Seq(STRING)
  BY DEF Memos
<1> QED
  BY <1>1, SaidType, ListsAt DEF Bins

LEMMA OneMorePlace ==
    ASSUME NEW list \in Seq(STRING), NEW x \in STRING, NEW s \in STRING
    PROVE  /\ s # x => Places(Append(list, x), s) = Places(list, s)
           /\ s = x /\ Absent(list, s) => Single(Append(list, x), s)
<1> DEFINE n == Len(list)
           more == Append(list, x)
<1> HIDE DEF n, more
<1>1. /\ n \in Nat /\ DOMAIN list = 1..n /\ DOMAIN more = 1..(n + 1)
      /\ \A k \in 1..n : more[k] = list[k]
      /\ more[n + 1] = x
  <2>1. n \in Nat /\ DOMAIN list = 1..n /\ DOMAIN more = 1..(n + 1)
    BY AppendIs DEF n, more
  <2>2. \A k \in 1..n : more[k] = list[k]
    BY AppendIs DEF n, more
  <2>3. more[n + 1] = x
    BY AppendIs DEF n, more
  <2> QED
    BY <2>1, <2>2, <2>3
<1>2. 1..(n + 1) = 1..n \cup {n + 1} /\ n + 1 \notin 1..n
  BY <1>1
<1>3. Places(list, s) = {k \in 1..n : list[k] = s}
  BY <1>1, Zenon DEF Places
<1>4. Places(more, s) = {k \in 1..n \cup {n + 1} : more[k] = s}
  BY <1>1, <1>2, Zenon DEF Places
<1>5. ASSUME s # x PROVE Places(more, s) = Places(list, s)
  BY <1>1, <1>3, <1>4, <1>5
<1>6. ASSUME s = x, Absent(list, s) PROVE Single(more, s)
  <2>1. \A k \in 1..n : list[k] # s
    BY <1>3, <1>6 DEF Absent
  <2>2. Places(more, s) = {n + 1}
    BY <1>1, <1>4, <1>6, <2>1
  <2>3. n + 1 \in Nat
    BY <1>1
  <2> QED
    BY <2>2, <2>3 DEF Single
<1> QED
  BY <1>5, <1>6 DEF more

LEMMA SaidAppend ==
    ASSUME NEW claims \in Seq(Claims), NEW claim \in Claims
    PROVE  SaidBy(Append(claims, claim)) = Append(SaidBy(claims), claim.claim)
<1> DEFINE n == Len(claims)
           more == Append(claims, claim)
           old == SaidBy(claims)
           said == claim.claim
           longer == Append(old, said)
<1>1. /\ n \in Nat /\ DOMAIN claims = 1..n /\ DOMAIN more = 1..(n + 1)
      /\ \A k \in 1..n : more[k] = claims[k]
      /\ more[n + 1] = claim
  BY AppendIs
<1>2. old \in Seq(STRING) /\ Len(old) = n /\ \A k \in 1..n : old[k] = claims[k].claim
  BY <1>1, SaidType DEF SaidBy
<1>3. said \in STRING
  BY DEF Claims
<1>4. /\ longer \in [1..(n + 1) -> STRING]
      /\ \A k \in 1..n : longer[k] = old[k]
      /\ longer[n + 1] = said
  <2> HIDE DEF old, said, n
  <2> QED
    BY <1>2, <1>3, AppendIs
<1>5. SaidBy(more) = [k \in 1..(n + 1) |-> more[k].claim]
  BY <1>1 DEF SaidBy
<1> HIDE DEF n, more, old, longer
<1>6. \A k \in 1..(n + 1) : longer[k] = more[k].claim
  BY <1>1, <1>2, <1>4
<1>7. longer = [k \in 1..(n + 1) |-> more[k].claim]
  BY <1>4, <1>6
<1> QED
  BY <1>5, <1>7 DEF longer, more, old

\* The sentence judged goes to one of the lists, and the others stay.
LEMMA JudgePlaces ==
    ASSUME IInv, Judge
    PROVE  /\ memo'.pc = "sentence" /\ memo'.seen = memo.seen
           /\ \E b \in Bins : \A c \in Bins :
                 Lists(memo')[c] = IF c = b THEN Append(Lists(memo)[c], Head(memo.todo)[2])
                                   ELSE Lists(memo)[c]
<1> DEFINE sentence == Head(memo.todo)
           citations == {c \in memo.candidates : ~Flagged(c)}
           placed == Bucket(sentence, citations, citations # memo.candidates)
           claim == [claim |-> sentence[2], cites |-> citations]
           Into(m, b) == \A c \in Bins :
                             Lists(m)[c] = IF c = b THEN Append(Lists(memo)[c], sentence[2])
                                           ELSE Lists(memo)[c]
<1>1. memo \in Memos /\ memo.todo \in Seq(Buckets \X STRING) /\ memo.todo # <<>>
  BY DEF IInv, TypeOK, Memos, Judge
<1>2. sentence \in Buckets \X STRING
  BY <1>1
<1>3. claim \in Claims /\ claim.claim = sentence[2]
  BY <1>1, <1>2 DEF Claims, Memos
<1>4. memo' = [placed EXCEPT !.pc = "sentence", !.todo = Tail(@), !.candidates = {}]
  BY DEF Judge
<1>5. /\ DOMAIN placed = DOMAIN memo /\ placed.seen = memo.seen
      /\ \E b \in Bins : Into(placed, b)
  <2>1. CASE Gate(citations) = "passed"
    <3>1. placed = [memo EXCEPT ![sentence[1]] = Append(memo[sentence[1]], claim)]
      BY <2>1 DEF Bucket
    <3>2. sentence[1] \in Buckets
      BY <1>2
    <3>3. /\ memo.context \in Seq(Claims) /\ memo.reasoning \in Seq(Claims)
      BY <1>1 DEF Memos
    <3>4. /\ SaidBy(Append(memo.context, claim)) = Append(SaidBy(memo.context), sentence[2])
          /\ SaidBy(Append(memo.reasoning, claim)) = Append(SaidBy(memo.reasoning), sentence[2])
      BY <1>3, <3>3, SaidAppend
    <3> HIDE DEF claim, placed, sentence
    <3>5. CASE sentence[1] = "context"
      <4>1. placed = [memo EXCEPT !.context = Append(memo.context, claim)]
        BY <3>1, <3>5
      <4>2. /\ DOMAIN placed = DOMAIN memo /\ placed.seen = memo.seen
            /\ placed.context = Append(memo.context, claim)
            /\ placed.reasoning = memo.reasoning
            /\ placed.uncited = memo.uncited /\ placed.refused = memo.refused
        BY <1>1, <4>1 DEF Memos
      <4>3. Into(placed, "context")
        BY <3>4, <4>2, ListsAt DEF Bins
      <4> QED
        BY <4>2, <4>3 DEF Bins
    <3>6. CASE sentence[1] = "reasoning"
      <4>1. placed = [memo EXCEPT !.reasoning = Append(memo.reasoning, claim)]
        BY <3>1, <3>6
      <4>2. /\ DOMAIN placed = DOMAIN memo /\ placed.seen = memo.seen
            /\ placed.reasoning = Append(memo.reasoning, claim)
            /\ placed.context = memo.context
            /\ placed.uncited = memo.uncited /\ placed.refused = memo.refused
        BY <1>1, <4>1 DEF Memos
      <4>3. Into(placed, "reasoning")
        BY <3>4, <4>2, ListsAt DEF Bins
      <4> QED
        BY <4>2, <4>3 DEF Bins
    <3> QED
      BY <3>2, <3>5, <3>6 DEF Buckets
  <2>2. CASE Gate(citations) # "passed"
    <3>1. \/ placed = [memo EXCEPT !.refused = Append(memo.refused, sentence[2])]
          \/ placed = [memo EXCEPT !.uncited = Append(memo.uncited, sentence[2])]
      BY <2>2 DEF Bucket, Gate
    <3> HIDE DEF placed, sentence
    <3>2. CASE placed = [memo EXCEPT !.refused = Append(memo.refused, sentence[2])]
      <4>1. /\ DOMAIN placed = DOMAIN memo /\ placed.seen = memo.seen
            /\ placed.context = memo.context /\ placed.reasoning = memo.reasoning
            /\ placed.uncited = memo.uncited
            /\ placed.refused = Append(memo.refused, sentence[2])
        BY <1>1, <3>2 DEF Memos
      <4>2. Into(placed, "refused")
        BY <4>1, ListsAt DEF Bins
      <4> QED
        BY <4>1, <4>2 DEF Bins
    <3>3. CASE placed = [memo EXCEPT !.uncited = Append(memo.uncited, sentence[2])]
      <4>1. /\ DOMAIN placed = DOMAIN memo /\ placed.seen = memo.seen
            /\ placed.context = memo.context /\ placed.reasoning = memo.reasoning
            /\ placed.refused = memo.refused
            /\ placed.uncited = Append(memo.uncited, sentence[2])
        BY <1>1, <3>3 DEF Memos
      <4>2. Into(placed, "uncited")
        BY <4>1, ListsAt DEF Bins
      <4> QED
        BY <4>1, <4>2 DEF Bins
    <3> QED
      BY <3>1, <3>2, <3>3
  <2> QED
    BY <2>1, <2>2
<1> HIDE DEF placed, sentence
<1>6. /\ memo'.pc = "sentence" /\ memo'.seen = placed.seen
      /\ memo'.context = placed.context /\ memo'.reasoning = placed.reasoning
      /\ memo'.uncited = placed.uncited /\ memo'.refused = placed.refused
  BY <1>1, <1>4, <1>5 DEF Memos
<1>7. Lists(memo') = Lists(placed)
  BY <1>6 DEF Lists
<1>8. PICK b \in Bins : Into(placed, b)
  BY <1>5
<1>9. Into(memo', b)
  BY <1>7, <1>8
<1> QED
  BY <1>5, <1>6, <1>9 DEF sentence

LEMMA OnceEachStep ==
    ASSUME IInv, OnceEach, [Next]_vars
    PROVE  OnceEach'
<1>1. memo \in Memos
  BY DEF IInv, TypeOK
<1>2. ASSUME NoMemo = memo' PROVE OnceEach'
  <2>1. memo'.seen = {} /\ Judged(memo') = {}
    BY <1>2 DEF NoMemo, Judged
  <2>2. \A b \in Bins : Lists(memo')[b] = <<>>
    BY <1>2 DEF NoMemo, Lists, SaidBy, Bins
  <2>3. \A s \in STRING : Unplaced(memo', s)
    <3>1. \A s \in STRING : Absent(<<>>, s)
      BY DEF Absent, Places
    <3> QED
      BY <2>2, <3>1 DEF Unplaced
  <2> QED
    BY <2>1, <2>3 DEF OnceEach
\* A step that places nothing.
<1>3. ASSUME Lists(memo') = Lists(memo), Judged(memo') \subseteq memo'.seen,
             memo'.seen \ Judged(memo') = memo.seen \ Judged(memo)
      PROVE  OnceEach'
  BY <1>3 DEF OnceEach, Placed, Unplaced
<1>4. CASE Draft
  <2>1. /\ memo.pc = "idle" /\ memo'.pc = "sentence" /\ memo'.seen = memo.seen
        /\ memo'.context = memo.context /\ memo'.reasoning = memo.reasoning
        /\ memo'.uncited = memo.uncited /\ memo'.refused = memo.refused
    BY <1>1, <1>4 DEF Draft, Memos
  <2> QED
    BY <1>3, <2>1 DEF Lists, Judged
<1>5. CASE Skip
  <2>1. /\ memo.pc = "sentence" /\ memo'.pc = "sentence" /\ memo'.seen = memo.seen
        /\ memo'.context = memo.context /\ memo'.reasoning = memo.reasoning
        /\ memo'.uncited = memo.uncited /\ memo'.refused = memo.refused
    BY <1>1, <1>5 DEF Skip, Memos
  <2> QED
    BY <1>3, <2>1 DEF Lists, Judged
<1>6. CASE Ground
  <2> DEFINE s == Head(memo.todo)[2]
  <2>1. PICK candidates \in SUBSET StoredChunks :
            memo' = [memo EXCEPT !.pc = "judge", !.seen = @ \cup {s}, !.candidates = candidates]
    BY <1>6 DEF Ground
  <2>2. memo.pc = "sentence" /\ s \notin memo.seen
    BY <1>6 DEF Ground
  <2> HIDE DEF s
  <2>3. /\ memo'.pc = "judge" /\ memo'.seen = memo.seen \cup {s} /\ memo'.todo = memo.todo
        /\ memo'.context = memo.context /\ memo'.reasoning = memo.reasoning
        /\ memo'.uncited = memo.uncited /\ memo'.refused = memo.refused
    BY <1>1, <2>1 DEF Memos
  <2>4. Lists(memo') = Lists(memo) /\ Judged(memo') = {s} /\ Judged(memo) = {}
    BY <2>2, <2>3 DEF Lists, Judged, s
  <2> QED
    BY <1>3, <2>2, <2>3, <2>4
<1>7. CASE Judge
  <2> DEFINE x == Head(memo.todo)[2]
  <2>1. x \in STRING /\ Judged(memo) = {x}
    <3>1. memo.todo \in Seq(Buckets \X STRING) /\ memo.todo # <<>> /\ memo.pc = "judge"
      BY <1>1, <1>7 DEF Judge, IInv, TypeOK, Memos
    <3>2. Head(memo.todo) \in Buckets \X STRING
      BY <3>1
    <3> QED
      BY <3>1, <3>2 DEF Judged
  <2> HIDE DEF x
  <2>2. memo'.pc = "sentence" /\ memo'.seen = memo.seen
    BY <1>7, JudgePlaces
  <2>3. PICK b \in Bins : \A c \in Bins :
            Lists(memo')[c] = IF c = b THEN Append(Lists(memo)[c], x) ELSE Lists(memo)[c]
    BY <1>7, JudgePlaces DEF x
  <2>4. Judged(memo') = {}
    BY <2>2 DEF Judged
  <2>5. \A c \in Bins : Lists(memo)[c] \in Seq(STRING)
    BY <1>1, ListTypes
  <2>6. x \in memo.seen /\ Unplaced(memo, x)
    BY <2>1 DEF OnceEach
  <2>7. Placed(memo', x)
    <3>1. Single(Lists(memo')[b], x)
      BY <2>1, <2>3, <2>5, <2>6, OneMorePlace DEF Unplaced
    <3>2. \A c \in Bins \ {b} : Absent(Lists(memo')[c], x)
      BY <2>3, <2>6 DEF Unplaced
    <3> QED
      BY <3>1, <3>2 DEF Placed
  <2>8. ASSUME NEW s \in STRING, s # x
        PROVE  (Placed(memo, s) => Placed(memo', s)) /\ (Unplaced(memo, s) => Unplaced(memo', s))
    <3>1. \A c \in Bins : Places(Lists(memo')[c], s) = Places(Lists(memo)[c], s)
      <4> TAKE c \in Bins
      <4>1. Places(Append(Lists(memo)[c], x), s) = Places(Lists(memo)[c], s)
        BY <2>1, <2>5, <2>8, OneMorePlace
      <4> QED
        BY <2>3, <4>1
    <3>2. \A c \in Bins : /\ Single(Lists(memo)[c], s) => Single(Lists(memo')[c], s)
                          /\ Absent(Lists(memo)[c], s) => Absent(Lists(memo')[c], s)
      BY <3>1 DEF Single, Absent
    <3> QED
      BY <3>2 DEF Placed, Unplaced
  <2> QED
    BY <2>1, <2>2, <2>4, <2>6, <2>7, <2>8 DEF OnceEach
<1>8. CASE AttachDissents
  <2>1. /\ memo.pc = "sentence" /\ memo'.pc = "done" /\ memo'.seen = memo.seen
        /\ memo'.context = memo.context /\ memo'.reasoning = memo.reasoning
        /\ memo'.uncited = memo.uncited /\ memo'.refused = memo.refused
    BY <1>1, <1>8 DEF AttachDissents, Memos
  <2> QED
    BY <1>3, <2>1 DEF Lists, Judged
<1>9. CASE Answered \/ Discarded
  BY <1>2, <1>9 DEF Answered, Discarded
<1>10. CASE Insert \/ UNCHANGED vars
  BY <1>3, <1>10 DEF Insert, vars, OnceEach
<1> QED
  BY <1>4, <1>5, <1>6, <1>7, <1>8, <1>9, <1>10 DEF Next

-----------------------------------------------------------------------------
(* What the page shows.                                                    *)

Titles == {"Recommendation", "Every seat disagreed", "No documents", "Context", "Reasoning",
           "Dissent log", "Asserted without evidence", "Refused"}
Sections == [title : Titles, shows : Seq(STRING \cup Seats)]

\* A sentence in no section, or in one and there once.
Clear(page, s) == \A i \in DOMAIN page : Absent(page[i].shows, s)
Once(page, s) ==
    \E i \in DOMAIN page : /\ Single(page[i].shows, s)
                           /\ \A j \in DOMAIN page \ {i} : Absent(page[j].shows, s)

\* The helpers of Rendered.
Note(shown, title) == IF shown THEN <<[title |-> title, shows |-> <<>>]>> ELSE <<>>
Section(title, shows) == IF shows # <<>> THEN <<[title |-> title, shows |-> shows]>> ELSE <<>>

LEMMA OnceIsOne ==
    ASSUME NEW page, NEW s, Once(page, s)
    PROVE  Cardinality(
               UNION {{<<i, k>> : k \in {n \in DOMAIN page[i].shows : page[i].shows[n] = s}} :
                          i \in DOMAIN page}) = 1
<1> DEFINE Here(i) == {<<i, k>> : k \in Places(page[i].shows, s)}
<1>1. PICK i \in DOMAIN page : /\ Single(page[i].shows, s)
                               /\ \A j \in DOMAIN page \ {i} : Absent(page[j].shows, s)
  BY DEF Once
<1>2. PICK k \in Nat : Places(page[i].shows, s) = {k}
  BY <1>1 DEF Single
<1>3. Here(i) = {<<i, k>>}
  BY <1>2
<1>4. \A j \in DOMAIN page \ {i} : Here(j) = {}
  BY <1>1 DEF Absent
<1> HIDE DEF Here
<1>5. UNION {Here(j) : j \in DOMAIN page} = {<<i, k>>}
  <2>1. ASSUME NEW e \in UNION {Here(j) : j \in DOMAIN page} PROVE e = <<i, k>>
    <3>1. PICK j \in DOMAIN page : e \in Here(j)
      OBVIOUS
    <3> QED
      BY <1>3, <1>4, <3>1
  <2>2. <<i, k>> \in UNION {Here(j) : j \in DOMAIN page}
    BY <1>1, <1>3
  <2> QED
    BY <2>1, <2>2
<1>6. UNION {{<<j, n>> : n \in {m \in DOMAIN page[j].shows : page[j].shows[m] = s}} :
                 j \in DOMAIN page} = {<<i, k>>}
  BY <1>5, Zenon DEF Here, Places
<1> QED
  BY <1>6, FS_Singleton

\* The entries of two pages put together.
LEMMA TogetherIs ==
    ASSUME NEW a \in Seq(Sections), NEW b \in Seq(Sections)
    PROVE  /\ a \o b \in Seq(Sections)
           /\ \A i \in DOMAIN a : i \in DOMAIN (a \o b) /\ (a \o b)[i] = a[i]
           /\ \A j \in DOMAIN b : Len(a) + j \in DOMAIN (a \o b) /\ (a \o b)[Len(a) + j] = b[j]
           /\ \A i \in DOMAIN (a \o b) : i \notin DOMAIN a =>
                 \E j \in DOMAIN b : i = Len(a) + j /\ (a \o b)[i] = b[j]
           /\ \A j \in DOMAIN b : Len(a) + j \notin DOMAIN a /\ j \in Nat /\ Len(a) \in Nat
<1>1. a \o b \in Seq(Sections) /\ Len(a \o b) = Len(a) + Len(b)
  OBVIOUS
<1>2. Len(a) \in Nat /\ Len(b) \in Nat /\ DOMAIN a = 1..Len(a) /\ DOMAIN b = 1..Len(b)
  OBVIOUS
<1>3. DOMAIN (a \o b) = 1..(Len(a) + Len(b))
  BY <1>1, <1>2
<1>4. \A i \in 1..Len(a) : (a \o b)[i] = a[i]
  BY <1>2
<1>5. \A j \in 1..Len(b) : (a \o b)[Len(a) + j] = b[j]
  BY <1>2
<1> DEFINE c == a \o b
           n == Len(a)
           p == Len(b)
<1> HIDE DEF c, n, p
<1>6. /\ n \in Nat /\ p \in Nat /\ DOMAIN a = 1..n /\ DOMAIN b = 1..p /\ DOMAIN c = 1..(n + p)
      /\ \A i \in 1..n : c[i] = a[i]
      /\ \A j \in 1..p : c[n + j] = b[j]
  BY <1>2, <1>3, <1>4, <1>5 DEF c, n, p
<1>7. \A i \in DOMAIN c : i \notin DOMAIN a => \E j \in DOMAIN b : i = n + j /\ c[i] = b[j]
  <2> SUFFICES ASSUME NEW i \in 1..(n + p), i \notin 1..n
               PROVE  \E j \in 1..p : i = n + j /\ c[i] = b[j]
    BY <1>6
  <2>1. i - n \in 1..p /\ i = n + (i - n)
    BY <1>6
  <2> QED
    BY <1>6, <2>1
<1>8. \A i \in DOMAIN a : i \in DOMAIN c /\ c[i] = a[i]
  BY <1>6
<1>9. \A j \in DOMAIN b : n + j \in DOMAIN c /\ c[n + j] = b[j]
  BY <1>6
<1>10. \A j \in DOMAIN b : n + j \notin DOMAIN a /\ j \in Nat /\ n \in Nat
  BY <1>6
<1> QED
  BY <1>1, <1>7, <1>8, <1>9, <1>10 DEF c, n

LEMMA Together ==
    ASSUME NEW a \in Seq(Sections), NEW b \in Seq(Sections), NEW s
    PROVE  /\ a \o b \in Seq(Sections)
           /\ Clear(a, s) /\ Clear(b, s) => Clear(a \o b, s)
           /\ Once(a, s) /\ Clear(b, s) => Once(a \o b, s)
           /\ Clear(a, s) /\ Once(b, s) => Once(a \o b, s)
<1> DEFINE c == a \o b
           n == Len(a)
<1>1. /\ c \in Seq(Sections)
      /\ \A i \in DOMAIN a : i \in DOMAIN c /\ c[i] = a[i]
      /\ \A j \in DOMAIN b : n + j \in DOMAIN c /\ c[n + j] = b[j]
      /\ \A i \in DOMAIN c : i \notin DOMAIN a => \E j \in DOMAIN b : i = n + j /\ c[i] = b[j]
      /\ \A j \in DOMAIN b : n + j \notin DOMAIN a
  BY TogetherIs
<1> HIDE DEF c, n
<1>2. ASSUME Clear(a, s), Clear(b, s) PROVE Clear(c, s)
  BY <1>1, <1>2 DEF Clear
<1>3. ASSUME Once(a, s), Clear(b, s) PROVE Once(c, s)
  <2>1. PICK i \in DOMAIN a : /\ Single(a[i].shows, s)
                              /\ \A j \in DOMAIN a \ {i} : Absent(a[j].shows, s)
    BY <1>3 DEF Once
  <2>2. \A j \in DOMAIN c \ {i} : Absent(c[j].shows, s)
    BY <1>1, <1>3, <2>1 DEF Clear
  <2> QED
    BY <1>1, <2>1, <2>2 DEF Once
<1>4. ASSUME Clear(a, s), Once(b, s) PROVE Once(c, s)
  <2>1. PICK i \in DOMAIN b : /\ Single(b[i].shows, s)
                              /\ \A j \in DOMAIN b \ {i} : Absent(b[j].shows, s)
    BY <1>4 DEF Once
  <2>2. n + i \in DOMAIN c /\ Single(c[n + i].shows, s)
    BY <1>1, <2>1
  <2>3. \A j \in DOMAIN c \ {n + i} : Absent(c[j].shows, s)
    <3> SUFFICES ASSUME NEW j \in DOMAIN c, j # n + i PROVE Absent(c[j].shows, s)
      OBVIOUS
    <3>1. CASE j \in DOMAIN a
      BY <1>1, <1>4, <3>1 DEF Clear
    <3>2. CASE j \notin DOMAIN a
      <4>1. PICK k \in DOMAIN b : j = n + k /\ c[j] = b[k]
        BY <1>1, <3>2
      <4> QED
        BY <2>1, <4>1
    <3> QED
      BY <3>1, <3>2
  <2> QED
    BY <2>2, <2>3 DEF Once
<1> QED
  BY <1>1, <1>2, <1>3, <1>4 DEF c

LEMMA NoteIs ==
    ASSUME NEW shown, NEW title \in Titles, NEW s
    PROVE  Note(shown, title) \in Seq(Sections) /\ Clear(Note(shown, title), s)
<1> DEFINE section == [title |-> title, shows |-> <<>>]
<1>1. section \in Sections /\ section.shows = <<>>
  BY DEF Sections
<1>2. Absent(<<>>, s)
  BY DEF Absent, Places
<1> HIDE DEF section
<1>3. <<section>> \in Seq(Sections) /\ Clear(<<section>>, s)
  BY <1>1, <1>2 DEF Clear
<1>4. <<>> \in Seq(Sections) /\ Clear(<<>>, s)
  BY DEF Clear
<1> QED
  BY <1>3, <1>4 DEF Note, section

LEMMA SectionIs ==
    ASSUME NEW title \in Titles, NEW shows \in Seq(STRING \cup Seats), NEW s
    PROVE  /\ Section(title, shows) \in Seq(Sections)
           /\ Absent(shows, s) => Clear(Section(title, shows), s)
           /\ Single(shows, s) => Once(Section(title, shows), s)
<1> DEFINE section == [title |-> title, shows |-> shows]
<1>1. section \in Sections /\ section.shows = shows
  BY DEF Sections
<1> HIDE DEF section
<1>2. <<section>> \in Seq(Sections) /\ DOMAIN <<section>> = {1} /\ <<section>>[1] = section
  BY <1>1
<1>3. Absent(shows, s) => Clear(<<section>>, s)
  BY <1>1, <1>2 DEF Clear
<1>4. Single(shows, s) => Once(<<section>>, s)
  BY <1>1, <1>2 DEF Once
<1>5. <<>> \in Seq(Sections) /\ Clear(<<>>, s)
  BY DEF Clear
<1>6. ~Single(<<>>, s)
  BY DEF Single, Places
<1> QED
  BY <1>2, <1>3, <1>4, <1>5, <1>6 DEF Section, section

\* A set of seats in a row shows no sentence.
LEMMA DissentsShown ==
    ASSUME NEW dissents \in SUBSET Seats, NEW s \in STRING
    PROVE  SetToSeq(dissents) \in Seq(STRING \cup Seats) /\ Absent(SetToSeq(dissents), s)
<1> DEFINE n == Cardinality(dissents)
           order == SetToSeq(dissents)
<1>1. IsFiniteSet(dissents)
  BY SeatsAssumption, FS_Subset
<1>2. n \in Nat /\ ExistsBijection(1..n, dissents)
  BY <1>1, FS_CardinalityType
<1>3. \E f \in [1..n -> dissents] : IsInjective(f)
  BY <1>2 DEF ExistsBijection, Bijection, Injection, IsInjective
<1>4. order \in [1..n -> dissents]
  BY <1>3 DEF SetToSeq
<1> HIDE DEF order, n
<1>5. order \in [1..n -> STRING \cup Seats]
  BY <1>4
<1>6. order \in Seq(STRING \cup Seats)
  BY <1>2, <1>5, IsASeq
<1>7. \A k \in DOMAIN order : order[k] # s
  BY <1>4, SeatsAssumption
<1>8. Absent(order, s)
  BY <1>7 DEF Absent, Places
<1> QED
  BY <1>6, <1>8 DEF order

\* A sentence that is in one list of the memo is in one section of its page.
LEMMA PlacedIsOnce ==
    ASSUME NEW m \in Memos, NEW s \in STRING, Placed(m, s)
    PROVE  Once(Rendered(m), s)
<1> DEFINE page1 == Note(TRUE, "Recommendation")
           page2 == Note(m.unanimous, "Every seat disagreed")
           page3 == Note(m.ungrounded, "No documents")
           page4 == Section("Context", SaidBy(m.context))
           page5 == Section("Reasoning", SaidBy(m.reasoning))
           page6 == Section("Dissent log", SetToSeq(m.dissents))
           page7 == Section("Asserted without evidence", m.uncited)
           page8 == Section("Refused", m.refused)
<1>1. Rendered(m) = page1 \o page2 \o page3 \o page4 \o page5 \o page6 \o page7 \o page8
  BY Zenon DEF Rendered, Note, Section, SaidBy
<1>2. m.dissents \in SUBSET Seats
  BY DEF Memos
<1>3. /\ page1 \in Seq(Sections) /\ Clear(page1, s)
      /\ page2 \in Seq(Sections) /\ Clear(page2, s)
      /\ page3 \in Seq(Sections) /\ Clear(page3, s)
  BY NoteIs, Zenon DEF Titles
<1>4. \A b \in Bins : Lists(m)[b] \in Seq(STRING \cup Seats)
  <2>1. \A list \in Seq(STRING) : list \in Seq(STRING \cup Seats)
    OBVIOUS
  <2> QED
    BY <2>1, ListTypes
<1>5. page6 \in Seq(Sections) /\ Clear(page6, s)
  <2>1. SetToSeq(m.dissents) \in Seq(STRING \cup Seats) /\ Absent(SetToSeq(m.dissents), s)
    BY <1>2, DissentsShown
  <2> QED
    BY <2>1, SectionIs, Zenon DEF Titles
<1>6. /\ page4 \in Seq(Sections) /\ page5 \in Seq(Sections)
      /\ page7 \in Seq(Sections) /\ page8 \in Seq(Sections)
      /\ Absent(Lists(m)["context"], s) => Clear(page4, s)
      /\ Single(Lists(m)["context"], s) => Once(page4, s)
      /\ Absent(Lists(m)["reasoning"], s) => Clear(page5, s)
      /\ Single(Lists(m)["reasoning"], s) => Once(page5, s)
      /\ Absent(Lists(m)["uncited"], s) => Clear(page7, s)
      /\ Single(Lists(m)["uncited"], s) => Once(page7, s)
      /\ Absent(Lists(m)["refused"], s) => Clear(page8, s)
      /\ Single(Lists(m)["refused"], s) => Once(page8, s)
  <2>1. /\ Lists(m)["context"] \in Seq(STRING \cup Seats)
        /\ Lists(m)["reasoning"] \in Seq(STRING \cup Seats)
        /\ Lists(m)["uncited"] \in Seq(STRING \cup Seats)
        /\ Lists(m)["refused"] \in Seq(STRING \cup Seats)
    BY <1>4 DEF Bins
  <2>2. /\ page4 = Section("Context", Lists(m)["context"])
        /\ page5 = Section("Reasoning", Lists(m)["reasoning"])
        /\ page7 = Section("Asserted without evidence", Lists(m)["uncited"])
        /\ page8 = Section("Refused", Lists(m)["refused"])
    BY ListsAt, Zenon
  <2> HIDE DEF page4, page5, page7, page8
  <2> QED
    BY <2>1, <2>2, SectionIs, Zenon DEF Titles
<1> HIDE DEF page1, page2, page3, page4, page5, page6, page7, page8
<1>7. PICK b \in Bins : Single(Lists(m)[b], s) /\ \A c \in Bins \ {b} : Absent(Lists(m)[c], s)
  BY DEF Placed
<1>8. \/ Once(page4, s) /\ Clear(page5, s) /\ Clear(page7, s) /\ Clear(page8, s)
      \/ Clear(page4, s) /\ Once(page5, s) /\ Clear(page7, s) /\ Clear(page8, s)
      \/ Clear(page4, s) /\ Clear(page5, s) /\ Once(page7, s) /\ Clear(page8, s)
      \/ Clear(page4, s) /\ Clear(page5, s) /\ Clear(page7, s) /\ Once(page8, s)
  BY <1>6, <1>7 DEF Bins
<1> DEFINE upTo3 == page1 \o page2 \o page3
           upTo4 == upTo3 \o page4
           upTo5 == upTo4 \o page5
           upTo6 == upTo5 \o page6
           upTo7 == upTo6 \o page7
<1>9. upTo3 \in Seq(Sections) /\ Clear(upTo3, s)
  <2>1. page1 \o page2 \in Seq(Sections) /\ Clear(page1 \o page2, s)
    BY <1>3, Together, Zenon
  <2> QED
    BY <1>3, <2>1, Together, Zenon
<1> HIDE DEF upTo3
<1>10. /\ upTo4 \in Seq(Sections)
       /\ Clear(page4, s) => Clear(upTo4, s)
       /\ Once(page4, s) => Once(upTo4, s)
  BY <1>6, <1>9, Together, Zenon
<1> HIDE DEF upTo4
<1>11. /\ upTo5 \in Seq(Sections)
       /\ Clear(upTo4, s) /\ Clear(page5, s) => Clear(upTo5, s)
       /\ Once(upTo4, s) /\ Clear(page5, s) => Once(upTo5, s)
       /\ Clear(upTo4, s) /\ Once(page5, s) => Once(upTo5, s)
  BY <1>6, <1>10, Together, Zenon
<1> HIDE DEF upTo5
<1>12. /\ upTo6 \in Seq(Sections)
       /\ Clear(upTo5, s) => Clear(upTo6, s)
       /\ Once(upTo5, s) => Once(upTo6, s)
  BY <1>5, <1>11, Together, Zenon
<1> HIDE DEF upTo6
<1>13. /\ upTo7 \in Seq(Sections)
       /\ Clear(upTo6, s) /\ Clear(page7, s) => Clear(upTo7, s)
       /\ Once(upTo6, s) /\ Clear(page7, s) => Once(upTo7, s)
       /\ Clear(upTo6, s) /\ Once(page7, s) => Once(upTo7, s)
  BY <1>6, <1>12, Together, Zenon
<1> HIDE DEF upTo7
<1>14. /\ Once(upTo7, s) /\ Clear(page8, s) => Once(upTo7 \o page8, s)
       /\ Clear(upTo7, s) /\ Once(page8, s) => Once(upTo7 \o page8, s)
  <2>1. upTo7 \in Seq(Sections) /\ page8 \in Seq(Sections)
    BY <1>6, <1>13
  <2> QED
    BY <2>1, Together, Zenon
<1>15. \/ Once(upTo5, s) /\ Clear(page7, s) /\ Clear(page8, s)
       \/ Clear(upTo5, s) /\ Once(page7, s) /\ Clear(page8, s)
       \/ Clear(upTo5, s) /\ Clear(page7, s) /\ Once(page8, s)
  BY <1>8, <1>9, <1>10, <1>11, Zenon
<1>16. (Once(upTo7, s) /\ Clear(page8, s)) \/ (Clear(upTo7, s) /\ Once(page8, s))
  BY <1>12, <1>13, <1>15, Zenon
<1>17. Once(upTo7 \o page8, s)
  BY <1>14, <1>16, Zenon
<1> QED
  BY <1>1, <1>17 DEF upTo3, upTo4, upTo5, upTo6, upTo7

\* Whatever the model drafted, however often it repeated a sentence, and whenever the
\* document's rows arrived, a finished memo shows every sentence of the draft in one
\* place of its page (build_memo with the gate, and render_markdown).
THEOREM EveryClaimShownOnce == Spec => []EveryClaimOnce
<1>1. Init => OnceEach
  <2> SUFFICES ASSUME Init PROVE OnceEach
    OBVIOUS
  <2>1. memo.seen = {} /\ Judged(memo) = {}
    BY DEF Init, NoMemo, Judged
  <2>2. \A b \in Bins : Lists(memo)[b] = <<>>
    BY DEF Init, NoMemo, Lists, SaidBy, Bins
  <2>3. \A s \in STRING : Absent(<<>>, s)
    BY DEF Absent, Places
  <2> QED
    BY <2>1, <2>2, <2>3 DEF OnceEach, Unplaced
<1>2. IInv /\ OnceEach => EveryClaimOnce
  <2> SUFFICES ASSUME IInv, OnceEach, memo.pc = "done", NEW s \in memo.seen
               PROVE  Once(Rendered(memo), s)
    BY OnceIsOne DEF EveryClaimOnce
  <2>1. memo \in Memos /\ s \in STRING
    BY DEF IInv, TypeOK, Memos
  <2>2. Judged(memo) = {}
    BY DEF Judged
  <2> QED
    BY <2>1, <2>2, PlacedIsOnce DEF OnceEach
<1> QED
  BY <1>1, <1>2, InitIInv, Step, OnceEachStep, PTL DEF Spec

-----------------------------------------------------------------------------
\* The entries of two lists put together.
LEMMA JoinIs ==
    ASSUME NEW S, NEW a \in Seq(S), NEW b \in Seq(S)
    PROVE  /\ a \o b \in Seq(S) /\ Len(a \o b) = Len(a) + Len(b)
           /\ Len(a) \in Nat /\ Len(b) \in Nat
           /\ \A i \in 1..Len(a) : (a \o b)[i] = a[i]
           /\ \A j \in 1..Len(b) : (a \o b)[Len(a) + j] = b[j]
<1>1. a \o b \in Seq(S) /\ Len(a \o b) = Len(a) + Len(b)
  OBVIOUS
<1>2. Len(a) \in Nat /\ Len(b) \in Nat
  OBVIOUS
<1>3. \A i \in 1..Len(a) : (a \o b)[i] = a[i]
  BY <1>2
<1>4. \A j \in 1..Len(b) : (a \o b)[Len(a) + j] = b[j]
  BY <1>2
<1> QED
  BY <1>1, <1>2, <1>3, <1>4

-----------------------------------------------------------------------------
(* Lists of pieces of a text.                                              *)

\* Counting up from a, what each number of S hands to the next reaches b.
LEMMA CountUp ==
    ASSUME NEW a \in Nat, NEW b \in Nat, NEW S, a \in S,
           \A n \in a..(b - 1) : n \in S => n + 1 \in S
    PROVE  \A n \in a..b : n \in S
<1> SUFFICES ASSUME NEW n \in a..b, n \notin S PROVE FALSE
  OBVIOUS
<1> DEFINE missed == {m \in a..b : m \notin S}
<1>1. missed \subseteq Nat /\ missed # {}
  OBVIOUS
<1>2. PICK least \in missed : \A m \in missed : ~(<<m, least>> \in OpToRel(<, Nat))
  BY <1>1, NatLessThanWellFounded, WFMin, Zenon
<1>3. \A m \in missed : ~(m < least)
  BY <1>1, <1>2, Zenon DEF OpToRel
<1>4. least # a /\ least - 1 \in a..(b - 1) /\ least = (least - 1) + 1 /\ least \notin S
  <2>1. least \in a..b /\ least \notin S
    OBVIOUS
  <2> HIDE DEF missed
  <2>2. least # a
    BY <2>1
  <2> QED
    BY <2>1, <2>2
<1>5. least - 1 \in missed
  <2>1. least - 1 \in S => (least - 1) + 1 \in S
    BY <1>4
  <2> QED
    BY <1>4, <2>1
<1> QED
  BY <1>1, <1>3, <1>5

\* Where a piece begins and ends.
Pair == Nat \X Nat

\* Pieces of [from, to), in order, apart and not empty.
Laid(list, from, to) ==
    /\ list \in Seq(Pair)
    /\ \A i \in 1..Len(list) : from <= list[i][1] /\ list[i][1] < list[i][2] /\ list[i][2] <= to
    /\ \A i, j \in 1..Len(list) : i < j => list[i][2] <= list[j][1]

Small(list, budget) == \A i \in 1..Len(list) : list[i][2] - list[i][1] <= budget

\* All of [from, to) is in one piece.
Holds(list, from, to) ==
    \E i \in 1..Len(list) : list[i][1] <= from /\ to <= list[i][2]

\* The two ends of a piece are numbers.
LEMMA PairsAt ==
    ASSUME NEW list \in Seq(Pair)
    PROVE  \A i \in 1..Len(list) :
              /\ list[i][1] \in Nat /\ list[i][2] \in Nat
              /\ list[i] = <<list[i][1], list[i][2]>>
<1> SUFFICES ASSUME NEW i \in 1..Len(list)
             PROVE  /\ list[i][1] \in Nat /\ list[i][2] \in Nat
                    /\ list[i] = <<list[i][1], list[i][2]>>
  OBVIOUS
<1>1. list[i] \in Pair
  OBVIOUS
<1> QED
  BY <1>1 DEF Pair

\* Pieces of one interval, and behind them those of the next.
LEMMA LaidJoin ==
    ASSUME NEW from \in Nat, NEW mid \in Nat, NEW to \in Nat, from <= mid, mid <= to,
           NEW first, NEW second, Laid(first, from, mid), Laid(second, mid, to)
    PROVE  /\ Laid(first \o second, from, to)
           /\ \A b \in Nat : Small(first, b) /\ Small(second, b) => Small(first \o second, b)
           /\ \A lo, hi \in Nat :
                 Holds(first, lo, hi) \/ Holds(second, lo, hi) => Holds(first \o second, lo, hi)
<1> DEFINE both == first \o second
           n == Len(first)
           p == Len(second)
<1>1. first \in Seq(Pair) /\ second \in Seq(Pair)
  BY DEF Laid
<1>2. /\ both \in Seq(Pair) /\ Len(both) = n + p
      /\ n \in Nat /\ p \in Nat
      /\ \A i \in 1..n : both[i] = first[i]
      /\ \A i \in 1..p : both[n + i] = second[i]
  BY <1>1, JoinIs
<1>3. /\ \A i \in 1..n : first[i][1] \in Nat /\ first[i][2] \in Nat
      /\ \A i \in 1..p : second[i][1] \in Nat /\ second[i][2] \in Nat
  BY <1>1, <1>2, PairsAt
<1>4. /\ \A i \in 1..n :
            from <= first[i][1] /\ first[i][1] < first[i][2] /\ first[i][2] <= mid
      /\ \A i, j \in 1..n : i < j => first[i][2] <= first[j][1]
      /\ \A i \in 1..p :
            mid <= second[i][1] /\ second[i][1] < second[i][2] /\ second[i][2] <= to
      /\ \A i, j \in 1..p : i < j => second[i][2] <= second[j][1]
  BY DEF Laid
<1> HIDE DEF both, n, p
<1>9. \A i \in 1..(n + p) :
         \/ i \in 1..n /\ both[i] = first[i]
         \/ i \notin 1..n /\ i - n \in 1..p /\ both[i] = second[i - n]
  <2> SUFFICES ASSUME NEW i \in 1..(n + p), i \notin 1..n
               PROVE  i - n \in 1..p /\ both[i] = second[i - n]
    BY <1>2
  <2>1. i - n \in 1..p /\ i = n + (i - n)
    BY <1>2
  <2> QED
    BY <1>2, <2>1
<1>5. Laid(both, from, to)
  <2>1. ASSUME NEW i \in 1..(n + p)
        PROVE  from <= both[i][1] /\ both[i][1] < both[i][2] /\ both[i][2] <= to
    <3>1. CASE i \in 1..n /\ both[i] = first[i]
      BY <1>3, <1>4, <3>1
    <3>2. CASE i - n \in 1..p /\ both[i] = second[i - n]
      BY <1>3, <1>4, <3>2
    <3> QED
      BY <1>9, <3>1, <3>2
  <2>2. ASSUME NEW i \in 1..(n + p), NEW j \in 1..(n + p), i < j
        PROVE  both[i][2] <= both[j][1]
    <3>1. CASE j \in 1..n /\ both[j] = first[j]
      <4>1. i \in 1..n /\ both[i] = first[i]
        BY <1>2, <2>2, <3>1
      <4> QED
        BY <1>4, <2>2, <3>1, <4>1
    <3>2. CASE i \in 1..n /\ both[i] = first[i] /\ j - n \in 1..p /\ both[j] = second[j - n]
      BY <1>3, <1>4, <3>2
    <3>3. CASE i \notin 1..n /\ i - n \in 1..p /\ both[i] = second[i - n]
      <4>1. j \notin 1..n /\ i - n < j - n
        BY <1>2, <2>2, <3>3
      <4>2. j - n \in 1..p /\ both[j] = second[j - n]
        BY <1>9, <4>1
      <4> QED
        BY <1>4, <3>3, <4>1, <4>2
    <3> QED
      BY <1>9, <3>1, <3>2, <3>3
  <2> QED
    BY <1>2, <2>1, <2>2 DEF Laid
<1>6. \A b \in Nat : Small(first, b) /\ Small(second, b) => Small(both, b)
  <2> SUFFICES ASSUME NEW b \in Nat, Small(first, b), Small(second, b), NEW i \in 1..(n + p)
               PROVE  both[i][2] - both[i][1] <= b
    BY <1>2 DEF Small
  <2>1. CASE i \in 1..n /\ both[i] = first[i]
    BY <2>1 DEF Small, n
  <2>2. CASE i - n \in 1..p /\ both[i] = second[i - n]
    BY <2>2 DEF Small, p
  <2> QED
    BY <1>9, <2>1, <2>2
<1>7. \A lo, hi \in Nat : Holds(first, lo, hi) => Holds(both, lo, hi)
  <2> SUFFICES ASSUME NEW lo \in Nat, NEW hi \in Nat, NEW i \in 1..n,
                      first[i][1] <= lo, hi <= first[i][2]
               PROVE  Holds(both, lo, hi)
    BY DEF Holds, n
  <2>1. i \in 1..Len(both) /\ both[i] = first[i]
    BY <1>2
  <2> QED
    BY <2>1 DEF Holds
<1>8. \A lo, hi \in Nat : Holds(second, lo, hi) => Holds(both, lo, hi)
  <2> SUFFICES ASSUME NEW lo \in Nat, NEW hi \in Nat, NEW i \in 1..p,
                      second[i][1] <= lo, hi <= second[i][2]
               PROVE  Holds(both, lo, hi)
    BY DEF Holds, p
  <2>1. n + i \in 1..Len(both) /\ both[n + i] = second[i]
    BY <1>2
  <2> QED
    BY <2>1 DEF Holds
<1> QED
  BY <1>5, <1>6, <1>7, <1>8 DEF both

\* One piece alone, and none.
LEMMA LaidOne ==
    ASSUME NEW from \in Nat, NEW to \in Nat
    PROVE  /\ from < to => Laid(<<<<from, to>>>>, from, to)
           /\ \A b \in Nat : to - from <= b => Small(<<<<from, to>>>>, b)
           /\ \A lo, hi \in Nat : from <= lo /\ hi <= to => Holds(<<<<from, to>>>>, lo, hi)
           /\ from <= to => Laid(<<>>, from, to)
           /\ \A b \in Nat : Small(<<>>, b)
<1> DEFINE one == <<<<from, to>>>>
<1>1. one \in Seq(Pair) /\ Len(one) = 1 /\ one[1][1] = from /\ one[1][2] = to
  <2>1. <<from, to>> \in Pair
    BY DEF Pair
  <2> QED
    BY <2>1
<1>2. <<>> \in Seq(Pair) /\ Len(<<>>) = 0
  OBVIOUS
<1> HIDE DEF one
<1>3. from < to => Laid(one, from, to)
  BY <1>1 DEF Laid
<1>4. \A b \in Nat : to - from <= b => Small(one, b)
  BY <1>1 DEF Small
<1>5. \A lo, hi \in Nat : from <= lo /\ hi <= to => Holds(one, lo, hi)
  BY <1>1 DEF Holds
<1>6. (from <= to => Laid(<<>>, from, to)) /\ \A b \in Nat : Small(<<>>, b)
  BY <1>2 DEF Laid, Small
<1> QED
  BY <1>3, <1>4, <1>5, <1>6 DEF one

\* More room behind them changes nothing.
LEMMA LaidWider ==
    ASSUME NEW from \in Nat, NEW mid \in Nat, NEW to \in Nat, mid <= to,
           NEW list, Laid(list, from, mid)
    PROVE  Laid(list, from, to)
<1>1. list \in Seq(Pair)
  BY DEF Laid
<1>2. \A i \in 1..Len(list) : list[i][2] \in Nat
  BY <1>1, PairsAt
<1> QED
  BY <1>2 DEF Laid

-----------------------------------------------------------------------------
(* The spans between separators.                                           *)

\* The scan that Spans stands for.
ScanStep(before, t, from, separator, at) ==
    IF CharAt(t, at - 1) = separator THEN before
    ELSE IF at - 1 = from \/ CharAt(t, at - 2) = separator
         THEN before \o <<<<at - 1, at>>>>
    ELSE [before EXCEPT ![Len(before)] = <<@[1], at>>]
ScanOf(f, t, from, to, separator) ==
    [at \in from..to |->
        IF at = from THEN <<>> ELSE ScanStep(f[at - 1], t, from, separator, at)]
Scan(t, from, to, separator) == CHOOSE f : f = ScanOf(f, t, from, to, separator)

\* Spans, with its recursive function taken out.
LEMMA SpansAreScanned ==
    ASSUME NEW t, NEW from, NEW to, NEW separator
    PROVE  Spans(t, from, to, separator) = Scan(t, from, to, separator)[to]
BY DEF Spans, Scan, ScanOf, ScanStep

\* There is such a scan: it is one step longer than that of a shorter text.
LEMMA ScanIs ==
    ASSUME NEW t, NEW from \in Nat, NEW to \in Nat, from <= to, NEW separator
    PROVE  Scan(t, from, to, separator) = ScanOf(Scan(t, from, to, separator), t, from, to, separator)
<1> DEFINE S == {n \in from..to : \E f : f = ScanOf(f, t, from, n, separator)}
<1>1. from \in S
  <2> DEFINE f == [at \in from..from |-> <<>>]
  <2>1. f = ScanOf(f, t, from, from, separator)
    BY DEF ScanOf
  <2> QED
    BY <2>1
<1>2. ASSUME NEW n \in from..(to - 1), n \in S
      PROVE  n + 1 \in S
  <2>1. PICK f : f = ScanOf(f, t, from, n, separator)
    BY <1>2
  <2> DEFINE g == [at \in from..(n + 1) |->
                      IF at <= n THEN f[at] ELSE ScanStep(f[n], t, from, separator, n + 1)]
  <2>2. ASSUME NEW at \in from..(n + 1)
        PROVE  g[at] = IF at = from THEN <<>> ELSE ScanStep(g[at - 1], t, from, separator, at)
    <3>1. CASE at <= n
      <4>1. f[at] = IF at = from THEN <<>> ELSE ScanStep(f[at - 1], t, from, separator, at)
        BY <2>1, <3>1 DEF ScanOf
      <4>2. at # from => g[at - 1] = f[at - 1]
        BY <3>1
      <4> QED
        BY <3>1, <4>1, <4>2
    <3>2. CASE at = n + 1
      <4>1. g[n] = f[n] /\ at - 1 = n /\ at # from /\ ~(at <= n)
        BY <3>2
      <4> QED
        BY <3>2, <4>1
    <3> QED
      BY <3>1, <3>2
  <2>3. g = ScanOf(g, t, from, n + 1, separator)
    <3>1. g = [at \in from..(n + 1) |-> g[at]]
      OBVIOUS
    <3> HIDE DEF g
    <3> QED
      BY <2>2, <3>1 DEF ScanOf
  <2>4. n + 1 \in from..to
    OBVIOUS
  <2> QED
    BY <2>3, <2>4
<1> HIDE DEF S
<1>3. to \in S
  BY <1>1, <1>2, CountUp
<1>4. \E f : f = ScanOf(f, t, from, to, separator)
  BY <1>3 DEF S
<1> QED
  BY <1>4, Zenon DEF Scan

\* What holds of the spans of [from, at).
Spanned(list, t, from, at, separator) ==
    /\ Laid(list, from, at)
    /\ \A x \in from..(at - 1) : CharAt(t, x) # separator => Holds(list, x, x + 1)
    /\ \A i \in 1..Len(list) :
          list[i][1] = from \/ CharAt(t, list[i][1] - 1) = separator
    /\ at > from /\ CharAt(t, at - 1) # separator =>
          Len(list) > 0 /\ list[Len(list)][2] = at

\* The last of a list replaced.
LEMMA LastIs ==
    ASSUME NEW S, NEW list \in Seq(S), Len(list) > 0, NEW x \in S
    PROVE  LET next == [list EXCEPT ![Len(list)] = x] IN
           /\ next \in Seq(S) /\ Len(next) = Len(list) /\ Len(list) \in Nat
           /\ next[Len(list)] = x
           /\ \A i \in 1..Len(list) : i # Len(list) => next[i] = list[i]
<1> DEFINE n == Len(list)
           next == [list EXCEPT ![n] = x]
<1>1. n \in Nat /\ list \in [1..n -> S] /\ n \in 1..n
  OBVIOUS
<1> HIDE DEF n
<1>2. next \in [1..n -> S]
  BY <1>1
<1>3. next[n] = x /\ \A i \in 1..n : i # n => next[i] = list[i]
  BY <1>1
<1> HIDE DEF next
<1>4. next \in Seq(S) /\ Len(next) = n
  BY <1>1, <1>2
<1> QED
  BY <1>1, <1>3, <1>4 DEF n, next

\* One character more.
LEMMA ScanStepSpans ==
    ASSUME NEW t, NEW from \in Nat, NEW at \in Nat, from <= at, NEW separator,
           NEW list, Spanned(list, t, from, at, separator)
    PROVE  Spanned(ScanStep(list, t, from, separator, at + 1), t, from, at + 1, separator)
<1> DEFINE next == ScanStep(list, t, from, separator, at + 1)
           n == Len(list)
           one == <<<<at, at + 1>>>>
<1>1. Laid(list, from, at) /\ list \in Seq(Pair)
  BY DEF Spanned, Laid
<1>2. /\ n \in Nat
      /\ \A i \in 1..n : list[i][1] \in Nat /\ list[i][2] \in Nat
      /\ \A i \in 1..n : from <= list[i][1] /\ list[i][1] < list[i][2] /\ list[i][2] <= at
      /\ \A i, j \in 1..n : i < j => list[i][2] <= list[j][1]
  BY <1>1, PairsAt DEF Laid
<1>3. /\ \A x \in from..((at + 1) - 1) : x \in Nat /\ (x \in from..(at - 1) \/ x = at)
      /\ at + 1 \in Nat /\ (at + 1) - 1 = at /\ (at + 1) - 2 = at - 1
  OBVIOUS
<1>4. /\ \A x \in from..(at - 1) : CharAt(t, x) # separator => Holds(list, x, x + 1)
      /\ \A i \in 1..n : list[i][1] = from \/ CharAt(t, list[i][1] - 1) = separator
      /\ at > from /\ CharAt(t, at - 1) # separator => n > 0 /\ list[n][2] = at
  BY DEF Spanned
<1> SUFFICES /\ Laid(next, from, at + 1)
             /\ \A x \in from..(at - 1) : Holds(list, x, x + 1) => Holds(next, x, x + 1)
             /\ \A i \in 1..Len(next) :
                   next[i][1] = from \/ CharAt(t, next[i][1] - 1) = separator
             /\ CharAt(t, at) # separator =>
                   Len(next) > 0 /\ next[Len(next)][2] = at + 1 /\ Holds(next, at, at + 1)
  <2> HIDE DEF next
  <2>1. \A x \in from..((at + 1) - 1) : CharAt(t, x) # separator => Holds(next, x, x + 1)
    <3> SUFFICES ASSUME NEW x \in from..((at + 1) - 1), CharAt(t, x) # separator
                 PROVE  Holds(next, x, x + 1)
      OBVIOUS
    <3>1. CASE x \in from..(at - 1)
      BY <1>4, <3>1
    <3>2. CASE x = at
      BY <3>2
    <3> QED
      BY <1>3, <3>1, <3>2
  <2>2. CharAt(t, (at + 1) - 1) = CharAt(t, at)
    BY <1>3
  <2> QED
    BY <2>1, <2>2 DEF Spanned, next
<1>5. CASE CharAt(t, at) = separator
  <2>1. next = list
    BY <1>3, <1>5 DEF ScanStep
  <2>2. Laid(list, from, at + 1)
    BY <1>1, <1>3, LaidWider
  <2> HIDE DEF next
  <2> QED
    BY <1>4, <1>5, <2>1, <2>2
<1>6. CASE CharAt(t, at) # separator /\ (at = from \/ CharAt(t, at - 1) = separator)
  <2>1. next = list \o one
    BY <1>3, <1>6 DEF ScanStep
  <2>2. Laid(one, at, at + 1) /\ Holds(one, at, at + 1)
    BY <1>3, LaidOne
  <2>3. one \in Seq(Pair) /\ Len(one) = 1 /\ one[1][1] = at /\ one[1][2] = at + 1
    <3>1. one[1] = <<at, at + 1>>
      OBVIOUS
    <3> QED
      BY <2>2, <3>1 DEF Laid
  <2> HIDE DEF one, next
  <2>4. Laid(next, from, at + 1) /\ Holds(next, at, at + 1)
        /\ \A x \in Nat : Holds(list, x, x + 1) => Holds(next, x, x + 1)
    <3>1. at <= at + 1
      OBVIOUS
    <3> QED
      BY <1>1, <1>3, <2>1, <2>2, <3>1, LaidJoin
  <2>5. /\ Len(next) = n + 1 /\ next[n + 1] = one[1]
        /\ \A i \in 1..n : next[i] = list[i]
    <3>1. /\ Len(next) = n + Len(one) /\ \A i \in 1..n : next[i] = list[i]
          /\ \A i \in 1..Len(one) : next[n + i] = one[i]
      <4>1. /\ list \o one \in Seq(Pair)
            /\ Len(list \o one) = Len(list) + Len(one)
            /\ \A i \in 1..Len(list) : (list \o one)[i] = list[i]
            /\ \A i \in 1..Len(one) : (list \o one)[Len(list) + i] = one[i]
        <5>1. list \in Seq(Pair) /\ one \in Seq(Pair)
          BY <1>1, <2>3
        <5> HIDE DEF n
        <5> QED
          BY <5>1, JoinIs
      <4> QED
        BY <2>1, <4>1
    <3>2. 1 \in 1..Len(one)
      BY <2>3
    <3> HIDE DEF n
    <3> QED
      BY <2>3, <3>1, <3>2
  <2> HIDE DEF n
  <2>6. \A i \in 1..(n + 1) : i \in 1..n \/ i = n + 1
    BY <1>2
  <2>7. next[n + 1][1] = from \/ CharAt(t, next[n + 1][1] - 1) = separator
    BY <1>6, <2>3, <2>5
  <2>8. \A i \in 1..Len(next) : next[i][1] = from \/ CharAt(t, next[i][1] - 1) = separator
    BY <1>4, <2>5, <2>6, <2>7
  <2>9. Len(next) > 0 /\ next[Len(next)][2] = at + 1
    BY <1>2, <2>3, <2>5
  <2> QED
    BY <1>3, <2>4, <2>8, <2>9
<1>7. CASE CharAt(t, at) # separator /\ at # from /\ CharAt(t, at - 1) # separator
  <2>1. at > from /\ n > 0 /\ n \in 1..n /\ list[n][2] = at
    BY <1>2, <1>4, <1>7
  <2>2. next = [list EXCEPT ![n] = <<list[n][1], at + 1>>]
    BY <1>3, <1>7 DEF ScanStep
  <2>3. <<list[n][1], at + 1>> \in Pair
    BY <1>2, <1>3, <2>1 DEF Pair
  <2>4. /\ next \in Seq(Pair) /\ Len(next) = n /\ next[n] = <<list[n][1], at + 1>>
        /\ \A i \in 1..n : i # n => next[i] = list[i]
    <3>1. Len(list) > 0
      BY <2>1
    <3> HIDE DEF next
    <3>2. next = [list EXCEPT ![Len(list)] = <<list[n][1], at + 1>>]
      BY <2>2
    <3> QED
      BY <1>1, <2>3, <3>1, <3>2, LastIs
  <2> HIDE DEF next, n
  <2>5. next[n][1] = list[n][1] /\ next[n][2] = at + 1
    BY <2>4
  <2>6. \A i \in 1..n : next[i][1] = list[i][1] /\ list[i][2] <= next[i][2] /\ next[i][2] <= at + 1
    <3> SUFFICES ASSUME NEW i \in 1..n
                 PROVE  next[i][1] = list[i][1] /\ list[i][2] <= next[i][2] /\ next[i][2] <= at + 1
      OBVIOUS
    <3>1. CASE i = n
      BY <2>1, <2>5, <3>1
    <3>2. CASE i # n
      BY <1>2, <2>4, <3>2
    <3> QED
      BY <3>1, <3>2
  <2>7. Laid(next, from, at + 1)
    <3>1. ASSUME NEW i \in 1..n
          PROVE  from <= next[i][1] /\ next[i][1] < next[i][2] /\ next[i][2] <= at + 1
      <4>1. next[i][2] = list[i][2] \/ next[i][2] = at + 1
        BY <2>4, <2>5
      <4> QED
        BY <1>2, <2>6, <4>1
    <3>2. ASSUME NEW i \in 1..n, NEW j \in 1..n, i < j
          PROVE  next[i][2] <= next[j][1]
      <4>1. i # n
        BY <1>2, <3>2
      <4>2. next[i][2] = list[i][2] /\ next[j][1] = list[j][1]
        BY <2>4, <2>6, <4>1
      <4> QED
        BY <1>2, <3>2, <4>2
    <3> QED
      BY <2>4, <3>1, <3>2 DEF Laid
  <2>8. ASSUME NEW x \in Nat, Holds(list, x, x + 1)
        PROVE  Holds(next, x, x + 1)
    <3>1. PICK i \in 1..n : list[i][1] <= x /\ x + 1 <= list[i][2]
      BY <2>8 DEF Holds, n
    <3>2. next[i][1] <= x /\ x + 1 <= next[i][2]
      <4>1. next[i][2] = list[i][2] \/ next[i][2] = at + 1
        BY <2>4, <2>5
      <4> QED
        BY <1>2, <2>6, <3>1, <4>1
    <3> QED
      BY <2>4, <3>2 DEF Holds
  <2>9. Holds(next, at, at + 1)
    <3>1. next[n][1] <= at /\ at + 1 <= next[n][2]
      BY <1>2, <2>1, <2>5
    <3> QED
      BY <2>1, <2>4, <3>1 DEF Holds
  <2>10. \A i \in 1..n : next[i][1] = from \/ CharAt(t, next[i][1] - 1) = separator
    BY <1>4, <2>6
  <2> QED
    BY <1>3, <2>1, <2>4, <2>5, <2>7, <2>8, <2>9, <2>10
<1> QED
  BY <1>5, <1>6, <1>7

\* The spans are in order and apart, each begins at the start or behind a separator,
\* and every other character is in one.
LEMMA SpansAre ==
    ASSUME NEW t, NEW from \in Nat, NEW to \in Nat, from <= to, NEW separator
    PROVE  Spanned(Spans(t, from, to, separator), t, from, to, separator)
<1> DEFINE scan == Scan(t, from, to, separator)
           S == {n \in from..to : Spanned(scan[n], t, from, n, separator)}
<1>1. scan = ScanOf(scan, t, from, to, separator)
  BY ScanIs
<1> HIDE DEF scan
<1>2. from \in S
  <2>1. scan[from] = <<>>
    BY <1>1 DEF ScanOf
  <2>2. Spanned(<<>>, t, from, from, separator)
    <3>1. from <= from /\ ~(from > from) /\ Len(<<>>) = 0 /\ \A x \in from..(from - 1) : FALSE
      OBVIOUS
    <3>2. Laid(<<>>, from, from)
      BY <3>1, LaidOne
    <3>3. \A i \in 1..Len(<<>>) : FALSE
      BY <3>1
    <3> QED
      BY <3>1, <3>2, <3>3 DEF Spanned
  <2> QED
    BY <2>1, <2>2
<1>3. ASSUME NEW n \in from..(to - 1), n \in S
      PROVE  n + 1 \in S
  <2>1. n + 1 \in from..to /\ n + 1 # from /\ (n + 1) - 1 = n
    OBVIOUS
  <2>2. scan[n + 1] = ScanStep(scan[n], t, from, separator, n + 1)
    BY <1>1, <2>1 DEF ScanOf
  <2>3. Spanned(scan[n + 1], t, from, n + 1, separator)
    BY <1>3, <2>2, ScanStepSpans
  <2> QED
    BY <2>1, <2>3
<1> HIDE DEF S
<1>4. to \in S
  BY <1>2, <1>3, CountUp
<1>5. Spanned(scan[to], t, from, to, separator)
  BY <1>4 DEF S
<1> QED
  BY <1>5, SpansAreScanned DEF scan

-----------------------------------------------------------------------------
(* A paragraph that is too long.                                           *)

\* How often b goes into a.
LEMMA DivIs ==
    ASSUME NEW a \in Nat, NEW b \in Nat \ {0}
    PROVE  /\ a \div b \in Nat /\ (a \div b) * b <= a /\ a < (a \div b) * b + b
           /\ a < b => a \div b = 0
OBVIOUS

\* Multiples of b, in order.
LEMMA Multiples ==
    ASSUME NEW i \in Nat, NEW j \in Nat, NEW b \in Nat \ {0}
    PROVE  /\ i * b \in Nat /\ (i + 1) * b = i * b + b
           /\ i <= j => i * b <= j * b
           /\ i * b < j * b => i < j
<1>1. i * b \in Nat /\ (i + 1) * b = i * b + b
  OBVIOUS
<1>2. i <= j => i * b <= j * b
  OBVIOUS
<1>3. j <= i => j * b <= i * b
  OBVIOUS
<1>4. j * b \in Nat
  OBVIOUS
<1> QED
  BY <1>1, <1>2, <1>3, <1>4

\* What is cut off is all but a rest that fits, in pieces of the budget's size.
LEMMA CutIs ==
    ASSUME NEW from \in Nat, NEW to \in Nat, from < to, NEW b \in Nat \ {0}
    PROVE  LET mid == from + Cuts(from, to, b) * b
               cut == Cut(from, to, b)
           IN /\ mid \in Nat /\ from <= mid /\ mid < to /\ to - mid <= b
              /\ to - from <= b => mid = from
              /\ Laid(cut, from, mid) /\ Small(cut, b)
              /\ \A x \in from..(mid - 1) : Holds(cut, x, x + 1)
<1> DEFINE a == to - from - 1
           q == Cuts(from, to, b)
           mid == from + q * b
           cut == Cut(from, to, b)
<1>1. a \in Nat /\ from + a + 1 = to
  OBVIOUS
<1>2. q = a \div b
  BY DEF Cuts
<1>3. cut = [i \in 1..q |-> <<from + (i - 1) * b, from + i * b>>]
  BY DEF Cut
<1> HIDE DEF a, q, cut
<1>4. q \in Nat /\ q * b \in Nat /\ q * b <= a /\ a < q * b + b
  BY <1>1, <1>2, DivIs, Multiples
<1>5. mid \in Nat /\ from <= mid /\ mid < to /\ to - mid <= b
  BY <1>1, <1>4
<1>6. to - from <= b => mid = from
  <2> SUFFICES ASSUME to - from <= b PROVE mid = from
    OBVIOUS
  <2>1. a < b
    BY <1>1
  <2>2. q = 0
    BY <1>1, <1>2, <2>1, DivIs
  <2> QED
    BY <2>2
<1>7. ASSUME NEW i \in 1..q
      PROVE  /\ (i - 1) * b \in Nat /\ i * b = (i - 1) * b + b /\ i * b <= q * b
             /\ cut[i] = <<from + (i - 1) * b, from + i * b>>
             /\ cut[i][1] = from + (i - 1) * b /\ cut[i][2] = from + i * b
             /\ cut[i] \in Pair
  <2>1. i \in Nat /\ i - 1 \in Nat /\ (i - 1) + 1 = i /\ i <= q
    BY <1>4
  <2>2. (i - 1) * b \in Nat /\ i * b = (i - 1) * b + b /\ i * b <= q * b /\ i * b \in Nat
    BY <1>4, <2>1, Multiples
  <2>3. cut[i] = <<from + (i - 1) * b, from + i * b>>
    BY <1>3
  <2> QED
    BY <2>2, <2>3 DEF Pair
<1>8. cut \in Seq(Pair) /\ Len(cut) = q
  <2>1. cut \in [1..q -> Pair]
    BY <1>3, <1>7
  <2> QED
    BY <1>4, <2>1
<1>9. Laid(cut, from, mid)
  <2>1. \A i \in 1..q : from <= cut[i][1] /\ cut[i][1] < cut[i][2] /\ cut[i][2] <= mid
    BY <1>4, <1>7
  <2>2. ASSUME NEW i \in 1..q, NEW j \in 1..q, i < j
        PROVE  cut[i][2] <= cut[j][1]
    <3>1. i \in Nat /\ j - 1 \in Nat /\ i <= j - 1
      BY <1>4, <2>2
    <3>2. i * b <= (j - 1) * b /\ i * b \in Nat /\ (j - 1) * b \in Nat
      BY <3>1, Multiples
    <3> QED
      BY <1>7, <3>2
  <2> HIDE DEF mid
  <2> QED
    BY <1>8, <2>1, <2>2 DEF Laid
<1>10. Small(cut, b)
  <2>1. \A i \in 1..q : cut[i][2] - cut[i][1] <= b
    BY <1>4, <1>7
  <2> QED
    BY <1>8, <2>1 DEF Small
<1>11. ASSUME NEW x \in from..(mid - 1)
       PROVE  Holds(cut, x, x + 1)
  <2> DEFINE c == x - from
             k == c \div b
  <2>1. c \in Nat /\ x = from + c /\ c < q * b
    BY <1>4
  <2> HIDE DEF c
  <2>2. k \in Nat /\ k * b <= c /\ c < k * b + b
    BY <2>1, DivIs
  <2> HIDE DEF k, mid
  <2>3. k * b \in Nat /\ k * b < q * b
    BY <1>4, <2>1, <2>2, Multiples
  <2>4. k < q
    BY <1>4, <2>2, <2>3, Multiples
  <2>5. k + 1 \in 1..q /\ (k + 1) - 1 = k
    BY <1>4, <2>2, <2>4
  <2>6. cut[k + 1][1] = from + k * b /\ cut[k + 1][2] = from + (k * b + b)
    BY <1>7, <2>5
  <2>7. cut[k + 1][1] <= x /\ x + 1 <= cut[k + 1][2]
    BY <2>1, <2>2, <2>3, <2>6
  <2> QED
    BY <1>8, <2>5, <2>7 DEF Holds
<1> QED
  BY <1>5, <1>6, <1>9, <1>10, <1>11 DEF q, cut

\* Where the n-th of the spans ends, and the interval when there is none before.
Ended(list, n, from) == IF n = 0 THEN from ELSE list[n][2]

\* From the end of the n-th span to the next one, or to the end, all are separators.
Gap(list, t, from, to, separator, n) ==
    /\ Ended(list, n, from) \in Nat
    /\ from <= Ended(list, n, from) /\ Ended(list, n, from) <= to
    /\ n < Len(list) => Ended(list, n, from) <= list[n + 1][1]
    /\ \A x \in from..(to - 1) :
          Ended(list, n, from) <= x /\ (n < Len(list) => x < list[n + 1][1])
             => CharAt(t, x) = separator

\* There is nothing but separators between the spans, before the first and after
\* the last.
LEMMA Between ==
    ASSUME NEW t, NEW from \in Nat, NEW to \in Nat, from <= to, NEW separator,
           NEW list, Spanned(list, t, from, to, separator),
           NEW n \in 0..Len(list)
    PROVE  Gap(list, t, from, to, separator, n)
<1> DEFINE size == Len(list)
<1>1. Laid(list, from, to) /\ list \in Seq(Pair)
  BY DEF Spanned, Laid
<1>2. /\ size \in Nat
      /\ \A i \in 1..size : list[i][1] \in Nat /\ list[i][2] \in Nat
      /\ \A i \in 1..size : from <= list[i][1] /\ list[i][1] < list[i][2] /\ list[i][2] <= to
      /\ \A i, j \in 1..size : i < j => list[i][2] <= list[j][1]
  BY <1>1, PairsAt DEF Laid
<1>3. \A x \in from..(to - 1) : CharAt(t, x) # separator =>
          \E k \in 1..size : list[k][1] <= x /\ x + 1 <= list[k][2]
  BY DEF Spanned, Holds
<1>4. n \in 0..size
  OBVIOUS
<1> HIDE DEF size
<1>5. n # 0 => n \in 1..size
  BY <1>2, <1>4
<1>6. n < size => n + 1 \in 1..size
  BY <1>2, <1>4
<1>7. /\ Ended(list, n, from) \in Nat
      /\ from <= Ended(list, n, from) /\ Ended(list, n, from) <= to
  <2>1. n # 0 => /\ list[n][2] \in Nat /\ from <= list[n][2] /\ list[n][2] <= to
    BY <1>2, <1>5
  <2> QED
    BY <2>1 DEF Ended
<1>8. n < size => Ended(list, n, from) <= list[n + 1][1]
  <2> SUFFICES ASSUME n < size PROVE Ended(list, n, from) <= list[n + 1][1]
    OBVIOUS
  <2>1. CASE n = 0
    BY <1>2, <1>6, <2>1 DEF Ended
  <2>2. CASE n # 0
    <3>1. n < n + 1
      BY <1>4
    <3> QED
      BY <1>2, <1>5, <1>6, <2>2, <3>1 DEF Ended
  <2> QED
    BY <2>1, <2>2
<1>9. ASSUME NEW x \in from..(to - 1), Ended(list, n, from) <= x,
             n < size => x < list[n + 1][1], CharAt(t, x) # separator
      PROVE  FALSE
  <2>1. PICK k \in 1..size : list[k][1] <= x /\ x + 1 <= list[k][2]
    BY <1>3, <1>9
  <2>2. CASE k <= n
    <3>1. n # 0 /\ n \in 1..size /\ Ended(list, n, from) = list[n][2]
      BY <1>2, <1>5, <2>2 DEF Ended
    <3>2. list[k][2] <= list[n][2]
      <4>1. CASE k = n
        BY <1>2, <3>1, <4>1
      <4>2. CASE k < n
        <5>1. list[k][2] <= list[n][1] /\ list[n][1] < list[n][2]
          BY <1>2, <3>1, <4>2
        <5> QED
          BY <1>2, <3>1, <5>1
      <4> QED
        BY <1>2, <1>4, <2>2, <4>1, <4>2
    <3> QED
      BY <1>2, <1>9, <2>1, <3>1, <3>2
  <2>3. CASE n < k
    <3>1. n < size /\ n + 1 \in 1..size
      BY <1>2, <1>4, <1>6, <2>3
    <3>2. list[n + 1][1] <= list[k][1]
      <4>1. CASE k = n + 1
        BY <1>2, <3>1, <4>1
      <4>2. CASE n + 1 < k
        <5>1. list[n + 1][2] <= list[k][1] /\ list[n + 1][1] < list[n + 1][2]
          BY <1>2, <3>1, <4>2
        <5> QED
          BY <1>2, <3>1, <5>1
      <4> QED
        BY <1>2, <1>4, <2>3, <4>1, <4>2
    <3> QED
      BY <1>2, <1>9, <2>1, <3>1, <3>2
  <2> QED
    BY <1>2, <1>4, <2>2, <2>3
<1> QED
  BY <1>7, <1>8, <1>9 DEF size, Gap

\* What holds after the first n sentences of a paragraph: what is put out covers what
\* is no longer accumulated, and a sentence that fits is whole in one of them.
Gathered(acc, t, from, list, n, b) ==
    /\ acc.from \in Nat /\ acc.to \in Nat
    /\ Laid(acc.out, from, acc.from) /\ Small(acc.out, b)
    /\ from <= acc.from /\ acc.from <= acc.to /\ acc.to - acc.from <= b
    /\ acc.to = Ended(list, n, from)
    /\ n > 0 => acc.from < acc.to
    /\ \A x \in from..(acc.to - 1) :
          CharAt(t, x) # "s" => Holds(acc.out, x, x + 1) \/ acc.from <= x
    /\ \A k \in 1..n : list[k][2] - list[k][1] <= b =>
          Holds(acc.out, list[k][1], list[k][2]) \/ acc.from <= list[k][1]

\* One sentence more.
LEMMA SentenceStep ==
    ASSUME NEW t, NEW from \in Nat, NEW to \in Nat, from < to, NEW b \in Nat \ {0},
           CharAt(t, from) # "s",
           NEW list, Spanned(list, t, from, to, "s"), NEW n \in 0..(Len(list) - 1),
           NEW acc, Gathered(acc, t, from, list, n, b)
    PROVE  Gathered(AddSentence(acc, list[n + 1], b), t, from, list, n + 1, b)
<1> DEFINE s == list[n + 1][1]
           e == list[n + 1][2]
           flush == Overflows(acc, list[n + 1], b)
           start == IF flush THEN s ELSE acc.from
           put == IF flush THEN <<<<acc.from, acc.to>>>> ELSE <<>>
           mid == start + Cuts(start, e, b) * b
           cut == Cut(start, e, b)
           out == acc.out \o put
           next == AddSentence(acc, list[n + 1], b)
<1>1. /\ Len(list) \in Nat /\ n \in Nat /\ n < Len(list) /\ n + 1 \in 1..Len(list)
      /\ n \in 0..Len(list)
      /\ \A i \in 1..Len(list) : list[i][1] \in Nat /\ list[i][2] \in Nat
                                 /\ from <= list[i][1] /\ list[i][1] < list[i][2]
                                 /\ list[i][2] <= to
      /\ \A i, j \in 1..Len(list) : i < j => list[i][2] <= list[j][1]
  <2>1. Laid(list, from, to) /\ list \in Seq(Pair)
    BY DEF Spanned, Laid
  <2>2. \A i \in 1..Len(list) : list[i][1] \in Nat /\ list[i][2] \in Nat
    BY <2>1, PairsAt
  <2>3. Len(list) \in Nat
    BY <2>1
  <2>4. /\ \A i \in 1..Len(list) : from <= list[i][1] /\ list[i][1] < list[i][2]
                                   /\ list[i][2] <= to
        /\ \A i, j \in 1..Len(list) : i < j => list[i][2] <= list[j][1]
    BY <2>1 DEF Laid
  <2>5. n \in Nat /\ n < Len(list) /\ n + 1 \in 1..Len(list) /\ n \in 0..Len(list)
    BY <2>3
  <2> QED
    BY <2>2, <2>3, <2>4, <2>5
<1>2. s \in Nat /\ e \in Nat /\ from <= s /\ s < e /\ e <= to
  <2> HIDE DEF flush, start, put, mid, cut, out, next
  <2>1. n + 1 \in 1..Len(list)
    BY <1>1
  <2> QED
    BY <1>1, <2>1
<1>3. /\ acc.from \in Nat /\ acc.to \in Nat
      /\ Laid(acc.out, from, acc.from) /\ Small(acc.out, b)
      /\ from <= acc.from /\ acc.from <= acc.to /\ acc.to - acc.from <= b
      /\ acc.to = Ended(list, n, from) /\ (n > 0 => acc.from < acc.to)
  BY DEF Gathered
<1>4. /\ \A x \in from..(acc.to - 1) :
            CharAt(t, x) # "s" => Holds(acc.out, x, x + 1) \/ acc.from <= x
      /\ \A k \in 1..n : list[k][2] - list[k][1] <= b =>
            Holds(acc.out, list[k][1], list[k][2]) \/ acc.from <= list[k][1]
  BY DEF Gathered
<1>5. acc.to <= s /\ \A x \in from..(to - 1) : acc.to <= x /\ x < s => CharAt(t, x) = "s"
  <2>1. from <= to
    OBVIOUS
  <2>2. /\ Ended(list, n, from) <= s
        /\ \A x \in from..(to - 1) : Ended(list, n, from) <= x /\ x < s => CharAt(t, x) = "s"
    <3>1. /\ n < Len(list) => Ended(list, n, from) <= list[n + 1][1]
          /\ \A x \in from..(to - 1) :
                Ended(list, n, from) <= x /\ (n < Len(list) => x < list[n + 1][1])
                   => CharAt(t, x) = "s"
      <4>1. Gap(list, t, from, to, "s", n)
        BY <1>1, <2>1, Between
      <4> QED
        BY <4>1 DEF Gap
    <3> QED
      BY <1>1, <3>1
  <2> QED
    BY <1>3, <2>2
<1>6. n = 0 => acc.from = from /\ acc.to = from /\ s = from
  <2> SUFFICES ASSUME n = 0 PROVE acc.from = from /\ acc.to = from /\ s = from
    OBVIOUS
  <2>1. acc.to = from
    BY <1>3 DEF Ended
  <2>2. from \in from..(to - 1)
    OBVIOUS
  <2>3. ~(from < s)
    BY <1>5, <2>1, <2>2
  <2> QED
    BY <1>2, <1>3, <2>1, <2>3
<1>7. flush <=> e - acc.from > b /\ acc.to > acc.from
  BY DEF Overflows
<1>8. next = [out |-> out \o cut, from |-> mid, to |-> e]
  BY DEF AddSentence
<1> HIDE DEF s, e, flush, next
<1>9. start \in Nat /\ from <= start /\ start <= s /\ start < e /\ acc.from <= start
  BY <1>2, <1>3, <1>5
<1>10. e - s <= b => e - start <= b
  <2>1. CASE flush
    BY <2>1
  <2>2. CASE ~flush /\ n = 0
    BY <1>6, <2>2
  <2>3. CASE ~flush /\ n > 0
    BY <1>2, <1>3, <1>7, <2>3
  <2> QED
    BY <1>1, <2>1, <2>2, <2>3
<1>11. flush \/ n = 0 \/ e - start <= b
  BY <1>1, <1>2, <1>3, <1>7
<1>12. /\ Laid(out, from, start) /\ Small(out, b)
       /\ \A lo, hi \in Nat : Holds(acc.out, lo, hi) => Holds(out, lo, hi)
       /\ \A lo, hi \in Nat : flush /\ acc.from <= lo /\ hi <= acc.to => Holds(out, lo, hi)
  <2>1. Laid(put, acc.from, start) /\ Small(put, b)
    <3>1. CASE flush
      <4>1. put = <<<<acc.from, acc.to>>>> /\ acc.from < acc.to /\ acc.to <= start
        BY <1>3, <1>5, <1>7, <3>1
      <4>2. Laid(put, acc.from, acc.to) /\ Small(put, b)
        BY <1>3, <4>1, LaidOne
      <4> HIDE DEF put, start
      <4> QED
        BY <1>3, <1>9, <4>1, <4>2, LaidWider
    <3>2. CASE ~flush
      <4>1. put = <<>> /\ start = acc.from /\ acc.from <= acc.from
        BY <1>3, <3>2
      <4> HIDE DEF put, start
      <4> QED
        BY <1>3, <4>1, LaidOne
    <3> QED
      BY <3>1, <3>2
  <2>2. \A lo, hi \in Nat : flush /\ acc.from <= lo /\ hi <= acc.to => Holds(put, lo, hi)
    <3> SUFFICES ASSUME NEW lo \in Nat, NEW hi \in Nat, flush, acc.from <= lo, hi <= acc.to
                 PROVE  Holds(put, lo, hi)
      OBVIOUS
    <3>1. put = <<<<acc.from, acc.to>>>>
      OBVIOUS
    <3> HIDE DEF put
    <3> QED
      BY <1>3, <3>1, LaidOne
  <2> HIDE DEF put, start
  <2>3. /\ Laid(out, from, start)
        /\ Small(acc.out, b) /\ Small(put, b) => Small(out, b)
        /\ \A lo, hi \in Nat :
              Holds(acc.out, lo, hi) \/ Holds(put, lo, hi) => Holds(out, lo, hi)
    BY <1>3, <1>9, <2>1, LaidJoin
  <2> HIDE DEF out
  <2> QED
    BY <1>3, <2>1, <2>2, <2>3
<1> HIDE DEF put, out
<1>13. /\ mid \in Nat /\ start <= mid /\ mid < e /\ e - mid <= b
       /\ e - start <= b => mid = start
       /\ Laid(cut, start, mid) /\ Small(cut, b)
       /\ \A x \in start..(mid - 1) : Holds(cut, x, x + 1)
  <2> HIDE DEF start
  <2> QED
    BY <1>2, <1>9, CutIs
<1> HIDE DEF mid, cut
<1>14. /\ Laid(out \o cut, from, mid) /\ Small(out \o cut, b)
       /\ \A lo, hi \in Nat :
             Holds(out, lo, hi) \/ Holds(cut, lo, hi) => Holds(out \o cut, lo, hi)
  <2> HIDE DEF start
  <2>1. /\ Laid(out \o cut, from, mid)
        /\ Small(out, b) /\ Small(cut, b) => Small(out \o cut, b)
        /\ \A lo, hi \in Nat :
              Holds(out, lo, hi) \/ Holds(cut, lo, hi) => Holds(out \o cut, lo, hi)
    BY <1>9, <1>12, <1>13, LaidJoin
  <2> QED
    BY <1>12, <1>13, <2>1
<1> DEFINE all == out \o cut
<1> HIDE DEF all
<1>15. /\ next.out = all /\ next.from = mid /\ next.to = e
       /\ Laid(all, from, mid) /\ Small(all, b)
       /\ \A lo, hi \in Nat :
             Holds(out, lo, hi) \/ Holds(cut, lo, hi) => Holds(all, lo, hi)
  BY <1>8, <1>14 DEF all
<1>16. ASSUME NEW x \in from..(e - 1), CharAt(t, x) # "s"
       PROVE  Holds(all, x, x + 1) \/ mid <= x
  <2>1. x \in Nat /\ x + 1 \in Nat /\ x \in from..(to - 1)
    BY <1>2
  <2>2. CASE start <= x
    <3>1. mid <= x \/ x \in start..(mid - 1)
      BY <1>9, <1>13, <2>1, <2>2
    <3> QED
      BY <1>13, <1>15, <2>1, <3>1
  <2>3. CASE x < start
    <3>1. x < acc.to
      <4>1. ~(acc.to <= x /\ x < s)
        BY <1>5, <1>16, <2>1
      <4> QED
        BY <1>2, <1>3, <1>9, <2>1, <2>3, <4>1
    <3>2. x \in from..(acc.to - 1) /\ x + 1 <= acc.to
      BY <1>3, <2>1, <3>1
    <3>3. Holds(acc.out, x, x + 1) \/ acc.from <= x
      BY <1>4, <1>16, <3>2
    <3>4. ~flush => ~(acc.from <= x)
      BY <1>3, <2>1, <2>3
    <3>5. Holds(out, x, x + 1)
      BY <1>12, <2>1, <3>2, <3>3, <3>4
    <3> QED
      BY <1>15, <2>1, <3>5
  <2> QED
    BY <1>9, <2>1, <2>2, <2>3
<1>17. ASSUME NEW k \in 1..(n + 1), list[k][2] - list[k][1] <= b
       PROVE  Holds(all, list[k][1], list[k][2]) \/ mid <= list[k][1]
  <2>1. k \in 1..Len(list) /\ list[k][1] \in Nat /\ list[k][2] \in Nat
    BY <1>1
  <2>2. CASE k = n + 1
    <3>1. list[k][1] = s /\ list[k][2] = e
      BY <2>2 DEF s, e
    <3>2. mid = start
      BY <1>10, <1>13, <1>17, <3>1
    <3> QED
      BY <1>9, <3>1, <3>2
  <2>3. CASE k \in 1..n
    <3>1. n # 0 /\ n \in 1..Len(list) /\ acc.to = list[n][2]
      BY <1>1, <1>3, <2>3 DEF Ended
    <3>2. list[k][2] <= acc.to
      <4>1. CASE k = n
        BY <1>1, <3>1, <4>1
      <4>2. CASE k < n
        <5>1. list[k][2] <= list[n][1] /\ list[n][1] < list[n][2]
          BY <1>1, <2>1, <3>1, <4>2
        <5> QED
          BY <1>1, <2>1, <3>1, <5>1
      <4> QED
        BY <1>1, <2>3, <4>1, <4>2
    <3>3. Holds(acc.out, list[k][1], list[k][2]) \/ acc.from <= list[k][1]
      BY <1>4, <1>17, <2>3
    <3>4. CASE flush
      <4>1. Holds(out, list[k][1], list[k][2])
        BY <1>12, <2>1, <3>2, <3>3, <3>4
      <4> QED
        BY <1>15, <2>1, <4>1
    <3>5. CASE ~flush
      <4>1. start = acc.from /\ mid = start
        BY <1>11, <1>13, <3>1, <3>5
      <4>2. CASE Holds(acc.out, list[k][1], list[k][2])
        <5>1. Holds(out, list[k][1], list[k][2])
          BY <1>12, <2>1, <4>2
        <5> QED
          BY <1>15, <2>1, <5>1
      <4> QED
        BY <3>3, <4>1, <4>2
    <3> QED
      BY <3>4, <3>5
  <2> QED
    BY <1>1, <2>2, <2>3
<1>18. e = Ended(list, n + 1, from)
  <2>1. n + 1 # 0
    BY <1>1
  <2> QED
    BY <2>1 DEF Ended, e
<1>19. from <= mid /\ mid <= e
  <2> HIDE DEF start
  <2> QED
    BY <1>2, <1>9, <1>13
<1> HIDE DEF start
<1> QED
  <2>1. /\ next.from \in Nat /\ next.to \in Nat
        /\ Laid(next.out, from, next.from) /\ Small(next.out, b)
        /\ from <= next.from /\ next.from <= next.to /\ next.to - next.from <= b
        /\ next.to = Ended(list, n + 1, from)
        /\ n + 1 > 0 => next.from < next.to
    BY <1>2, <1>13, <1>15, <1>18, <1>19
  <2>2. /\ \A x \in from..(next.to - 1) :
              CharAt(t, x) # "s" => Holds(next.out, x, x + 1) \/ next.from <= x
        /\ \A k \in 1..(n + 1) : list[k][2] - list[k][1] <= b =>
              Holds(next.out, list[k][1], list[k][2]) \/ next.from <= list[k][1]
    BY <1>15, <1>16, <1>17
  <2>3. Gathered(next, t, from, list, n + 1, b)
    BY <2>1, <2>2 DEF Gathered
  <2> QED
    BY <2>3 DEF next

\* What ParagraphChunks accumulates, sentence by sentence.
AccStep(acc, para, list, b, n) ==
    IF n = 0 THEN [out |-> <<>>, from |-> para[1], to |-> para[1]]
    ELSE AddSentence(acc[n - 1], list[n], b)
AccOf(acc, para, list, b, size) == [n \in 0..size |-> AccStep(acc, para, list, b, n)]
Acc(para, list, b) == CHOOSE acc : acc = AccOf(acc, para, list, b, Len(list))

\* ParagraphChunks, with its recursive function taken out.
LEMMA ChunksAreAccumulated ==
    ASSUME NEW para, NEW t, NEW b
    PROVE  LET list == Spans(t, para[1], para[2], "s")
               all == Acc(para, list, b)[Len(list)]
           IN ParagraphChunks(para, t, b) =
                 IF para[2] - para[1] <= b THEN <<para>>
                 ELSE IF all.to > all.from THEN all.out \o <<<<all.from, all.to>>>> ELSE all.out
BY DEF ParagraphChunks, Acc, AccOf, AccStep

\* There is such an accumulation, for each number of sentences.
LEMMA AccIs ==
    ASSUME NEW para, NEW list, Len(list) \in Nat, NEW b
    PROVE  Acc(para, list, b) = AccOf(Acc(para, list, b), para, list, b, Len(list))
<1> DEFINE size == Len(list)
           S == {n \in 0..size : \E acc : acc = AccOf(acc, para, list, b, n)}
<1>1. 0 \in S
  <2> DEFINE acc == [n \in 0..0 |-> [out |-> <<>>, from |-> para[1], to |-> para[1]]]
  <2>1. acc = AccOf(acc, para, list, b, 0)
    BY DEF AccOf, AccStep
  <2> QED
    BY <2>1
<1>2. ASSUME NEW n \in 0..(size - 1), n \in S
      PROVE  n + 1 \in S
  <2>1. PICK f : f = AccOf(f, para, list, b, n)
    BY <1>2
  <2> DEFINE g == [m \in 0..(n + 1) |->
                      IF m <= n THEN f[m] ELSE AddSentence(f[n], list[n + 1], b)]
  <2>2. ASSUME NEW m \in 0..(n + 1)
        PROVE  g[m] = AccStep(g, para, list, b, m)
    <3>1. CASE m <= n
      <4>1. f[m] = AccStep(f, para, list, b, m)
        BY <2>1, <3>1 DEF AccOf
      <4>2. m # 0 => g[m - 1] = f[m - 1]
        BY <3>1
      <4> QED
        BY <3>1, <4>1, <4>2 DEF AccStep
    <3>2. CASE m = n + 1
      <4>1. g[n] = f[n] /\ m - 1 = n /\ m # 0 /\ ~(m <= n)
        BY <3>2
      <4> QED
        BY <3>2, <4>1 DEF AccStep
    <3> QED
      BY <3>1, <3>2
  <2>3. g = AccOf(g, para, list, b, n + 1)
    <3>1. g = [m \in 0..(n + 1) |-> g[m]]
      OBVIOUS
    <3> HIDE DEF g
    <3> QED
      BY <2>2, <3>1 DEF AccOf
  <2>4. n + 1 \in 0..size
    OBVIOUS
  <2> QED
    BY <2>3, <2>4
<1> HIDE DEF S
<1>3. size \in S
  <2>1. size \in Nat /\ 0 \in Nat /\ size \in 0..size
    OBVIOUS
  <2> HIDE DEF size
  <2> QED
    BY <1>1, <1>2, <2>1, CountUp
<1>4. \E acc : acc = AccOf(acc, para, list, b, Len(list))
  BY <1>3 DEF S
<1> QED
  BY <1>4, Zenon DEF Acc

\* The chunks of the paragraph [from, to).
ParagraphIs(chunks, t, from, to, b) ==
    /\ Laid(chunks, from, to) /\ Small(chunks, b)
    /\ \A x \in from..(to - 1) : CharAt(t, x) # "s" => Holds(chunks, x, x + 1)
    /\ LET list == Spans(t, from, to, "s") IN
       \A k \in 1..Len(list) : list[k][2] - list[k][1] <= b =>
          Holds(chunks, list[k][1], list[k][2])

LEMMA ParagraphCovered ==
    ASSUME NEW t, NEW from \in Nat, NEW to \in Nat, from < to, NEW b \in Nat \ {0},
           CharAt(t, from) # "s"
    PROVE  ParagraphIs(ParagraphChunks(<<from, to>>, t, b), t, from, to, b)
<1> DEFINE para == <<from, to>>
           list == Spans(t, from, to, "s")
           acc == Acc(para, list, b)
           size == Len(list)
           all == acc[size]
           chunks == ParagraphChunks(para, t, b)
<1>1. para[1] = from /\ para[2] = to
  OBVIOUS
<1>2. chunks = IF to - from <= b THEN <<para>>
               ELSE IF all.to > all.from THEN all.out \o <<<<all.from, all.to>>>> ELSE all.out
  <2>1. LET l == Spans(t, para[1], para[2], "s")
            a == Acc(para, l, b)[Len(l)]
        IN chunks = IF para[2] - para[1] <= b THEN <<para>>
                    ELSE IF a.to > a.from THEN a.out \o <<<<a.from, a.to>>>> ELSE a.out
    BY ChunksAreAccumulated
  <2> QED
    BY <1>1, <2>1
<1>3. Spanned(list, t, from, to, "s")
  BY SpansAre
<1> HIDE DEF list
<1>4. /\ size \in Nat
      /\ \A i \in 1..size : list[i][1] \in Nat /\ list[i][2] \in Nat
      /\ \A i \in 1..size : from <= list[i][1] /\ list[i][2] <= to
      /\ \A i, j \in 1..size : i < j => list[i][2] <= list[j][1]
      /\ \A i \in 1..size : list[i][1] < list[i][2]
  <2>1. Laid(list, from, to) /\ list \in Seq(Pair)
    BY <1>3 DEF Spanned, Laid
  <2> QED
    BY <2>1, PairsAt DEF Laid
<1> HIDE DEF chunks
<1>5. CASE to - from <= b
  <2>1. chunks = <<<<from, to>>>>
    BY <1>2, <1>5
  <2>2. /\ Laid(chunks, from, to) /\ Small(chunks, b)
        /\ \A lo, hi \in Nat : from <= lo /\ hi <= to => Holds(chunks, lo, hi)
    BY <1>5, <2>1, LaidOne
  <2>3. \A x \in from..(to - 1) : Holds(chunks, x, x + 1)
    BY <2>2
  <2>4. \A k \in 1..size : Holds(chunks, list[k][1], list[k][2])
    BY <1>4, <2>2
  <2>5. ParagraphIs(chunks, t, from, to, b)
    BY <2>2, <2>3, <2>4 DEF ParagraphIs, list
  <2> QED
    BY <2>5 DEF chunks
<1>6. CASE ~(to - from <= b)
  <2>1. acc = AccOf(acc, para, list, b, size)
    BY <1>4, AccIs
  <2> HIDE DEF acc
  <2> DEFINE S == {n \in 0..size : Gathered(acc[n], t, from, list, n, b)}
  <2>2. 0 \in S
    <3>1. acc[0] = [out |-> <<>>, from |-> from, to |-> from]
      BY <1>1, <1>4, <2>1 DEF AccOf, AccStep
    <3>2. /\ Laid(<<>>, from, from) /\ Small(<<>>, b)
          /\ Ended(list, 0, from) = from
      <4>1. from <= from
        OBVIOUS
      <4> QED
        BY <4>1, LaidOne DEF Ended
    <3>3. /\ acc[0].out = <<>> /\ acc[0].from = from /\ acc[0].to = from
      BY <3>1
    <3>4. Gathered(acc[0], t, from, list, 0, b)
      BY <3>2, <3>3 DEF Gathered
    <3> QED
      BY <1>4, <3>4
  <2>3. ASSUME NEW n \in 0..(size - 1), n \in S
        PROVE  n + 1 \in S
    <3>1. n + 1 \in 0..size /\ n + 1 # 0 /\ (n + 1) - 1 = n
      BY <1>4
    <3>2. acc[n + 1] = AddSentence(acc[n], list[n + 1], b)
      BY <2>1, <3>1 DEF AccOf, AccStep
    <3>3. Gathered(acc[n + 1], t, from, list, n + 1, b)
      BY <1>3, <2>3, <3>2, SentenceStep
    <3> QED
      BY <3>1, <3>3
  <2> HIDE DEF S
  <2>4. size \in S
    <3>1. size \in Nat /\ 0 \in Nat /\ size \in 0..size
      BY <1>4
    <3> HIDE DEF size, acc, all
    <3> QED
      BY <2>2, <2>3, <3>1, CountUp
  <2>5. Gathered(all, t, from, list, size, b)
    BY <2>4 DEF S
  <2> HIDE DEF all
  <2>6. /\ all.from \in Nat /\ all.to \in Nat
        /\ Laid(all.out, from, all.from) /\ Small(all.out, b)
        /\ from <= all.from /\ all.from <= all.to /\ all.to - all.from <= b
        /\ all.to = Ended(list, size, from)
        /\ size > 0 => all.from < all.to
    BY <2>5 DEF Gathered
  <2>7. /\ \A x \in from..(all.to - 1) :
              CharAt(t, x) # "s" => Holds(all.out, x, x + 1) \/ all.from <= x
        /\ \A k \in 1..size : list[k][2] - list[k][1] <= b =>
              Holds(all.out, list[k][1], list[k][2]) \/ all.from <= list[k][1]
    BY <2>5 DEF Gathered
  <2>8. all.to <= to /\ \A x \in from..(to - 1) : CharAt(t, x) # "s" => x < all.to
    <3>1. Gap(list, t, from, to, "s", size)
      <4>1. from <= to /\ size \in 0..Len(list)
        BY <1>4
      <4> QED
        BY <1>3, <4>1, Between
    <3>2. ~(size < Len(list))
      BY <1>4
    <3>3. /\ Ended(list, size, from) <= to
          /\ \A x \in from..(to - 1) : Ended(list, size, from) <= x => CharAt(t, x) = "s"
      BY <3>1, <3>2 DEF Gap
    <3> QED
      BY <2>6, <3>3
  <2>9. size > 0
    <3> SUFFICES ASSUME ~(size > 0) PROVE FALSE
      OBVIOUS
    <3>1. all.to = from
      BY <1>4, <2>6 DEF Ended
    <3>2. from \in from..(to - 1)
      OBVIOUS
    <3> QED
      BY <2>8, <3>1, <3>2
  <2> DEFINE one == <<<<all.from, all.to>>>>
  <2>10. chunks = all.out \o one
    BY <1>2, <1>6, <2>6, <2>9 DEF all
  <2>11. /\ Laid(one, all.from, all.to) /\ Small(one, b)
         /\ \A lo, hi \in Nat : all.from <= lo /\ hi <= all.to => Holds(one, lo, hi)
    BY <2>6, <2>9, LaidOne
  <2> HIDE DEF one
  <2>12. /\ Laid(chunks, from, all.to) /\ Small(chunks, b)
         /\ \A lo, hi \in Nat :
               Holds(all.out, lo, hi) \/ Holds(one, lo, hi) => Holds(chunks, lo, hi)
    <3>1. /\ Laid(chunks, from, all.to)
          /\ Small(all.out, b) /\ Small(one, b) => Small(chunks, b)
          /\ \A lo, hi \in Nat :
                Holds(all.out, lo, hi) \/ Holds(one, lo, hi) => Holds(chunks, lo, hi)
      BY <2>6, <2>10, <2>11, LaidJoin
    <3> QED
      BY <2>6, <2>11, <3>1
  <2>13. Laid(chunks, from, to)
    BY <2>6, <2>8, <2>12, LaidWider
  <2>14. ASSUME NEW x \in from..(to - 1), CharAt(t, x) # "s"
         PROVE  Holds(chunks, x, x + 1)
    <3>1. x \in Nat /\ x + 1 \in Nat /\ x < all.to /\ x \in from..(all.to - 1) /\ x + 1 <= all.to
      BY <2>6, <2>8, <2>14
    <3>2. Holds(all.out, x, x + 1) \/ all.from <= x
      BY <2>7, <2>14, <3>1
    <3> QED
      BY <2>11, <2>12, <3>1, <3>2
  <2>15. ASSUME NEW k \in 1..size, list[k][2] - list[k][1] <= b
         PROVE  Holds(chunks, list[k][1], list[k][2])
    <3>1. list[k][2] <= all.to
      <4>1. all.to = list[size][2] /\ size \in 1..size
        BY <1>4, <2>6, <2>9 DEF Ended
      <4>2. CASE k = size
        BY <1>4, <4>1, <4>2
      <4>3. CASE k < size
        <5>1. list[k][2] <= list[size][1] /\ list[size][1] < list[size][2]
          BY <1>4, <4>1, <4>3
        <5> QED
          BY <1>4, <4>1, <5>1
      <4> QED
        BY <1>4, <4>2, <4>3
    <3>2. Holds(all.out, list[k][1], list[k][2]) \/ all.from <= list[k][1]
      BY <2>7, <2>15
    <3> QED
      BY <1>4, <2>11, <2>12, <3>1, <3>2
  <2>16. ParagraphIs(chunks, t, from, to, b)
    BY <2>12, <2>13, <2>14, <2>15 DEF ParagraphIs, list
  <2> QED
    BY <2>16 DEF chunks
<1> QED
  BY <1>5, <1>6 DEF chunks

-----------------------------------------------------------------------------
(* All the chunks.                                                         *)

\* What PlanChunks has planned, paragraph by paragraph.
PlanStep(plan, t, paras, b, n) ==
    IF n = 0 THEN <<>> ELSE plan[n - 1] \o ParagraphChunks(paras[n], t, b)
PlanOf(plan, t, paras, b, size) == [n \in 0..size |-> PlanStep(plan, t, paras, b, n)]
Plan(t, paras, b) == CHOOSE plan : plan = PlanOf(plan, t, paras, b, Len(paras))

\* PlanChunks, with its recursive function taken out.
LEMMA ChunksArePlanned ==
    ASSUME NEW t, NEW b
    PROVE  LET paras == Spans(t, 0, Len(t), "p") IN
           PlanChunks(t, b) = Plan(t, paras, b)[Len(paras)]
BY DEF PlanChunks, Plan, PlanOf, PlanStep

\* There is such a plan, for each number of paragraphs.
LEMMA PlanIs ==
    ASSUME NEW t, NEW paras, Len(paras) \in Nat, NEW b
    PROVE  Plan(t, paras, b) = PlanOf(Plan(t, paras, b), t, paras, b, Len(paras))
<1> DEFINE size == Len(paras)
           S == {n \in 0..size : \E plan : plan = PlanOf(plan, t, paras, b, n)}
<1>1. 0 \in S
  <2> DEFINE plan == [n \in 0..0 |-> <<>>]
  <2>1. plan = PlanOf(plan, t, paras, b, 0)
    BY DEF PlanOf, PlanStep
  <2> QED
    BY <2>1
<1>2. ASSUME NEW n \in 0..(size - 1), n \in S
      PROVE  n + 1 \in S
  <2>1. PICK f : f = PlanOf(f, t, paras, b, n)
    BY <1>2
  <2> DEFINE g == [m \in 0..(n + 1) |->
                      IF m <= n THEN f[m] ELSE f[n] \o ParagraphChunks(paras[n + 1], t, b)]
  <2>2. ASSUME NEW m \in 0..(n + 1)
        PROVE  g[m] = PlanStep(g, t, paras, b, m)
    <3>1. CASE m <= n
      <4>1. f[m] = PlanStep(f, t, paras, b, m)
        BY <2>1, <3>1 DEF PlanOf
      <4>2. m # 0 => g[m - 1] = f[m - 1]
        BY <3>1
      <4> QED
        BY <3>1, <4>1, <4>2 DEF PlanStep
    <3>2. CASE m = n + 1
      <4>1. g[n] = f[n] /\ m - 1 = n /\ m # 0 /\ ~(m <= n)
        BY <3>2
      <4> QED
        BY <3>2, <4>1 DEF PlanStep
    <3>3. m <= n \/ m = n + 1
      OBVIOUS
    <3> HIDE DEF g
    <3> QED
      BY <3>1, <3>2, <3>3
  <2>3. g = PlanOf(g, t, paras, b, n + 1)
    <3>1. g = [m \in 0..(n + 1) |-> g[m]]
      OBVIOUS
    <3> HIDE DEF g
    <3> QED
      BY <2>2, <3>1 DEF PlanOf
  <2>4. n + 1 \in 0..size
    OBVIOUS
  <2> QED
    BY <2>3, <2>4
<1> HIDE DEF S
<1>3. size \in S
  <2>1. size \in Nat /\ 0 \in Nat /\ size \in 0..size
    OBVIOUS
  <2> HIDE DEF size
  <2> QED
    BY <1>1, <1>2, <2>1, CountUp
<1>4. \E plan : plan = PlanOf(plan, t, paras, b, Len(paras))
  BY <1>3 DEF S
<1> QED
  BY <1>4, Zenon DEF Plan

\* A piece of a paragraph that the chunks have to keep: an ordinary character, or a
\* sentence that fits.
Kept(t, para, b, lo, hi) ==
    \/ lo \in para[1]..(para[2] - 1) /\ hi = lo + 1 /\ CharAt(t, lo) # "s"
    \/ LET list == Spans(t, para[1], para[2], "s") IN
       \E i \in 1..Len(list) :
          lo = list[i][1] /\ hi = list[i][2] /\ hi - lo <= b

\* What holds of the chunks of the first n paragraphs.
Covering(chunks, t, paras, n, b) ==
    /\ Laid(chunks, 0, Ended(paras, n, 0)) /\ Small(chunks, b)
    /\ \A k \in 1..n : \A lo, hi \in Nat :
          Kept(t, paras[k], b, lo, hi) => Holds(chunks, lo, hi)

\* One paragraph more.
LEMMA PlanStepCovers ==
    ASSUME NEW t, NEW from \in Nat, NEW to \in Nat, NEW mid \in Nat, mid <= from, from < to,
           NEW b \in Nat \ {0}, CharAt(t, from) # "s",
           NEW chunks, Laid(chunks, 0, mid), Small(chunks, b)
    PROVE  LET more == chunks \o ParagraphChunks(<<from, to>>, t, b) IN
           /\ Laid(more, 0, to) /\ Small(more, b)
           /\ \A lo, hi \in Nat : Holds(chunks, lo, hi) => Holds(more, lo, hi)
           /\ \A lo, hi \in Nat : Kept(t, <<from, to>>, b, lo, hi) => Holds(more, lo, hi)
<1> DEFINE own == ParagraphChunks(<<from, to>>, t, b)
           more == chunks \o own
<1>1. ParagraphIs(own, t, from, to, b)
  BY ParagraphCovered
<1> HIDE DEF own
<1>2. Laid(own, from, to) /\ Small(own, b)
  BY <1>1 DEF ParagraphIs
<1>3. Laid(chunks, 0, from)
  BY LaidWider
<1>4. /\ Laid(more, 0, to)
      /\ Small(chunks, b) /\ Small(own, b) => Small(more, b)
      /\ \A lo, hi \in Nat : Holds(chunks, lo, hi) \/ Holds(own, lo, hi) => Holds(more, lo, hi)
  <2>1. 0 \in Nat /\ 0 <= from /\ from <= to
    OBVIOUS
  <2> QED
    BY <1>2, <1>3, <2>1, LaidJoin
<1> HIDE DEF more
<1>5. ASSUME NEW lo \in Nat, NEW hi \in Nat, Kept(t, <<from, to>>, b, lo, hi)
      PROVE  Holds(own, lo, hi)
  <2> DEFINE list == Spans(t, from, to, "s")
  <2>1. <<from, to>>[1] = from /\ <<from, to>>[2] = to
    OBVIOUS
  <2>2. \/ lo \in from..(to - 1) /\ hi = lo + 1 /\ CharAt(t, lo) # "s"
        \/ \E i \in 1..Len(list) : lo = list[i][1] /\ hi = list[i][2] /\ hi - lo <= b
    BY <1>5, <2>1 DEF Kept
  <2>3. /\ \A x \in from..(to - 1) : CharAt(t, x) # "s" => Holds(own, x, x + 1)
        /\ \A k \in 1..Len(list) : list[k][2] - list[k][1] <= b =>
              Holds(own, list[k][1], list[k][2])
    BY <1>1 DEF ParagraphIs
  <2> HIDE DEF list
  <2> QED
    BY <2>2, <2>3
<1>6. /\ \A lo, hi \in Nat : Holds(chunks, lo, hi) => Holds(more, lo, hi)
      /\ \A lo, hi \in Nat : Kept(t, <<from, to>>, b, lo, hi) => Holds(more, lo, hi)
  BY <1>4, <1>5
<1> QED
  BY <1>2, <1>4, <1>6 DEF more, own

\* A paragraph does not begin with the white space behind a sentence.
LEMMA ParagraphBegins ==
    ASSUME NEW t, IsText(t), NEW paras, Spanned(paras, t, 0, Len(t), "p"),
           NEW k \in 1..Len(paras)
    PROVE  CharAt(t, paras[k][1]) # "s"
<1> DEFINE at == paras[k][1]
<1>1. /\ at \in Nat /\ at < Len(t) /\ Len(t) \in Nat
  <2>1. Laid(paras, 0, Len(t)) /\ paras \in Seq(Pair) /\ t \in Seq({"w", "s", "p"})
    BY DEF Spanned, Laid, IsText
  <2>2. paras[k][1] \in Nat /\ paras[k][2] \in Nat
    BY <2>1, PairsAt
  <2> QED
    BY <2>1, <2>2 DEF Laid
<1>2. at = 0 \/ CharAt(t, at - 1) = "p"
  BY DEF Spanned
<1> HIDE DEF at
<1>3. DOMAIN t = 1..Len(t)
  BY DEF IsText
<1>4. at + 1 \in DOMAIN t /\ (at + 1) - 1 = at /\ (at - 1) + 1 = at
  BY <1>1, <1>3
<1>5. t[at + 1] = "s" => at + 1 > 1 /\ t[at] # "p"
  BY <1>4 DEF IsText
<1>6. at # 0 => t[at] = "p"
  BY <1>2, <1>4 DEF CharAt
<1>7. t[at + 1] # "s"
  BY <1>1, <1>5, <1>6
<1> QED
  BY <1>7 DEF CharAt, at

\* The chunks of a text, whatever it is and whatever the budget.
LEMMA PlanCovers ==
    ASSUME NEW t, IsText(t), NEW b \in Nat \ {0}
    PROVE  LET paras == Spans(t, 0, Len(t), "p") IN
           /\ Covering(PlanChunks(t, b), t, paras, Len(paras), b)
           /\ Spanned(paras, t, 0, Len(t), "p")
           /\ Ended(paras, Len(paras), 0) \in Nat
<1> DEFINE paras == Spans(t, 0, Len(t), "p")
           plan == Plan(t, paras, b)
           size == Len(paras)
<1>1. Len(t) \in Nat /\ 0 \in Nat /\ 0 <= Len(t)
  BY DEF IsText
<1>2. Spanned(paras, t, 0, Len(t), "p")
  BY <1>1, SpansAre
<1>3. PlanChunks(t, b) = plan[size]
  BY ChunksArePlanned
<1> HIDE DEF paras
<1>4. /\ paras \in Seq(Pair) /\ size \in Nat
      /\ \A k \in 1..size : /\ paras[k][1] \in Nat /\ paras[k][2] \in Nat
                            /\ paras[k] = <<paras[k][1], paras[k][2]>>
                            /\ paras[k][1] < paras[k][2]
  <2>1. Laid(paras, 0, Len(t)) /\ paras \in Seq(Pair)
    BY <1>2 DEF Spanned, Laid
  <2>2. size \in Nat
    BY <2>1
  <2> QED
    BY <2>1, <2>2, PairsAt DEF Laid
<1>5. plan = PlanOf(plan, t, paras, b, size)
  BY <1>4, PlanIs
<1>6. \A n \in 0..size : /\ Ended(paras, n, 0) \in Nat
                         /\ n < size => Ended(paras, n, 0) <= paras[n + 1][1]
  <2> SUFFICES ASSUME NEW n \in 0..size
               PROVE  /\ Ended(paras, n, 0) \in Nat
                      /\ n < size => Ended(paras, n, 0) <= paras[n + 1][1]
    OBVIOUS
  <2>1. Gap(paras, t, 0, Len(t), "p", n)
    BY <1>1, <1>2, Between
  <2> QED
    BY <2>1 DEF Gap
<1> HIDE DEF plan, size
<1> DEFINE S == {n \in 0..size : Covering(plan[n], t, paras, n, b)}
<1>7. 0 \in S
  <2>1. plan[0] = <<>>
    BY <1>4, <1>5 DEF PlanOf, PlanStep
  <2>2. Laid(<<>>, 0, 0) /\ Small(<<>>, b) /\ Ended(paras, 0, 0) = 0
    <3>1. 0 \in Nat /\ 0 <= 0
      OBVIOUS
    <3> QED
      BY <3>1, LaidOne DEF Ended
  <2>3. Covering(plan[0], t, paras, 0, b)
    BY <2>1, <2>2 DEF Covering
  <2> QED
    BY <1>4, <2>3
<1>8. ASSUME NEW n \in 0..(size - 1), n \in S
      PROVE  n + 1 \in S
  <2>1. n + 1 \in 0..size /\ n + 1 # 0 /\ (n + 1) - 1 = n /\ n + 1 \in 1..size /\ n < size
        /\ n \in 0..size
    BY <1>4
  <2> DEFINE para == paras[n + 1]
             from == para[1]
             to == para[2]
             mid == Ended(paras, n, 0)
             more == plan[n] \o ParagraphChunks(para, t, b)
  <2>2. from \in Nat /\ to \in Nat /\ from < to /\ para = <<from, to>>
    BY <1>4, <2>1
  <2>3. mid \in Nat /\ mid <= from
    BY <1>6, <2>1
  <2>4. CharAt(t, from) # "s"
    BY <1>2, <2>1, ParagraphBegins DEF size
  <2>5. plan[n + 1] = more
    BY <1>5, <2>1 DEF PlanOf, PlanStep
  <2>6. /\ Laid(plan[n], 0, mid) /\ Small(plan[n], b)
        /\ \A k \in 1..n : \A lo, hi \in Nat :
              Kept(t, paras[k], b, lo, hi) => Holds(plan[n], lo, hi)
    BY <1>8 DEF Covering
  <2>7. Ended(paras, n + 1, 0) = to
    BY <2>1 DEF Ended
  <2> HIDE DEF mid, from, to, para
  <2>8. more = plan[n] \o ParagraphChunks(<<from, to>>, t, b)
    BY <2>2
  <2> HIDE DEF more
  <2>9. /\ Laid(more, 0, to) /\ Small(more, b)
        /\ \A lo, hi \in Nat : Holds(plan[n], lo, hi) => Holds(more, lo, hi)
        /\ \A lo, hi \in Nat : Kept(t, <<from, to>>, b, lo, hi) => Holds(more, lo, hi)
    BY <2>2, <2>3, <2>4, <2>6, <2>8, PlanStepCovers
  <2>10. ASSUME NEW k \in 1..(n + 1), NEW lo \in Nat, NEW hi \in Nat,
                Kept(t, paras[k], b, lo, hi)
         PROVE  Holds(more, lo, hi)
    <3>1. CASE k = n + 1
      <4>1. paras[k] = <<from, to>>
        BY <2>2, <3>1 DEF para
      <4> QED
        BY <2>9, <2>10, <4>1
    <3>2. CASE k \in 1..n
      BY <2>6, <2>9, <2>10, <3>2
    <3> QED
      BY <2>1, <3>1, <3>2
  <2>11. Covering(plan[n + 1], t, paras, n + 1, b)
    BY <2>5, <2>7, <2>9, <2>10 DEF Covering
  <2> QED
    BY <2>1, <2>11
<1> HIDE DEF S
<1>9. size \in S
  <2>1. size \in 0..size
    BY <1>4
  <2> QED
    BY <1>1, <1>4, <1>7, <1>8, <2>1, CountUp
<1>10. Covering(plan[size], t, paras, size, b) /\ Ended(paras, size, 0) \in Nat
  <2>1. size \in 0..size
    BY <1>4
  <2> QED
    BY <1>6, <1>9, <2>1 DEF S
<1> QED
  BY <1>2, <1>3, <1>10 DEF size, paras

\* The text is one that may be uploaded, and stays.
Uploaded == text \in Texts

\* Nothing of the document is lost between its chunks, whatever it says and whatever
\* the budget of the embedder (ingest.py: "each within budget where the text allows").
THEOREM TextIsCovered == Spec => []ChunksCover
<1>1. Init => Uploaded
  BY DEF Init, Uploaded
<1>2. Uploaded /\ [Next]_vars => Uploaded'
  BY DEF Uploaded, Next, Insert, Draft, Skip, Ground, Judge, AttachDissents, Answered, Discarded, vars
<1>3. Uploaded => ChunksCover
  <2> SUFFICES ASSUME text \in Texts PROVE ChunksCover
    BY DEF Uploaded
  <2> DEFINE chunks == PlanChunks(text, Budget)
             paras == Spans(text, 0, Len(text), "p")
             size == Len(paras)
  <2>1. IsText(text) /\ Budget \in Nat \ {0}
    BY TextsAssumption, BudgetAssumption
  <2>2. /\ Covering(chunks, text, paras, size, Budget)
        /\ Spanned(paras, text, 0, Len(text), "p")
        /\ Ended(paras, size, 0) \in Nat
    BY <2>1, PlanCovers
  <2> HIDE DEF chunks, paras
  <2>3. /\ Laid(chunks, 0, Ended(paras, size, 0)) /\ Small(chunks, Budget)
        /\ \A k \in 1..size : \A lo, hi \in Nat :
              Kept(text, paras[k], Budget, lo, hi) => Holds(chunks, lo, hi)
    BY <2>2 DEF Covering
  <2>4. /\ chunks \in Seq(Pair) /\ Len(chunks) \in Nat /\ DOMAIN chunks = 1..Len(chunks)
        /\ paras \in Seq(Pair) /\ size \in Nat /\ DOMAIN paras = 1..size
    BY <2>2, <2>3 DEF Laid, Spanned
  <2>5. ASSUME NEW i \in DOMAIN chunks
        PROVE  /\ chunks[i][1] < chunks[i][2] /\ chunks[i][2] - chunks[i][1] <= Budget
               /\ i > 1 => chunks[i - 1][2] <= chunks[i][1]
    <3>1. i \in 1..Len(chunks) /\ (i > 1 => i - 1 \in 1..Len(chunks) /\ i - 1 < i)
      BY <2>4
    <3> QED
      BY <2>3, <3>1 DEF Laid, Small
  <2>6. \A lo, hi : Holds(chunks, lo, hi) =>
            \E c \in Range(chunks) : c[1] <= lo /\ hi <= c[2]
    BY <2>4 DEF Holds, Range
  <2>7. ASSUME NEW at \in 0..(Len(text) - 1), CharAt(text, at) = "w"
        PROVE  \E c \in Range(chunks) : c[1] <= at /\ at < c[2]
    <3>1. at \in Nat /\ at + 1 \in Nat
      BY <2>1 DEF IsText
    <3>2. PICK k \in 1..size : paras[k][1] <= at /\ at + 1 <= paras[k][2]
      <4>1. Holds(paras, at, at + 1)
        BY <2>2, <2>7 DEF Spanned
      <4> QED
        BY <4>1 DEF Holds
    <3>3. paras[k][1] \in Nat /\ paras[k][2] \in Nat
      BY <2>4, PairsAt
    <3>4. Kept(text, paras[k], Budget, at, at + 1)
      <4>1. at \in paras[k][1]..(paras[k][2] - 1) /\ CharAt(text, at) # "s"
        BY <2>7, <3>1, <3>2, <3>3
      <4> QED
        BY <4>1 DEF Kept
    <3>5. Holds(chunks, at, at + 1)
      BY <2>3, <3>1, <3>4
    <3>6. PICK i \in 1..Len(chunks) : chunks[i][1] <= at /\ at + 1 <= chunks[i][2]
      BY <3>5 DEF Holds
    <3>7. chunks[i][2] \in Nat
      BY <2>4, PairsAt
    <3>8. chunks[i][1] <= at /\ at < chunks[i][2] /\ chunks[i] \in Range(chunks)
      BY <2>4, <3>1, <3>6, <3>7 DEF Range
    <3> QED
      BY <3>8
  <2>8. ASSUME NEW p \in Range(paras), NEW s \in Range(Spans(text, p[1], p[2], "s")),
               s[2] - s[1] <= Budget
        PROVE  \E c \in Range(chunks) : c[1] <= s[1] /\ s[2] <= c[2]
    <3> DEFINE list == Spans(text, p[1], p[2], "s")
    <3>1. PICK k \in 1..size : p = paras[k]
      BY <2>4 DEF Range
    <3>2. p[1] \in Nat /\ p[2] \in Nat /\ p[1] <= p[2]
      <4>1. Laid(paras, 0, Len(text))
        BY <2>2 DEF Spanned
      <4>2. paras[k][1] \in Nat /\ paras[k][2] \in Nat
        BY <2>4, PairsAt
      <4> QED
        BY <3>1, <4>1, <4>2 DEF Laid
    <3>3. list \in Seq(Pair)
      <4>1. Spanned(list, text, p[1], p[2], "s")
        BY <3>2, SpansAre
      <4> HIDE DEF list
      <4> QED
        BY <4>1 DEF Spanned, Laid
    <3> HIDE DEF list
    <3>4. PICK i \in 1..Len(list) : s = list[i]
      BY <2>8, <3>3 DEF Range, list
    <3>5. s[1] \in Nat /\ s[2] \in Nat
      BY <3>3, <3>4, PairsAt
    <3>6. Kept(text, p, Budget, s[1], s[2])
      BY <2>8, <3>4 DEF Kept, list
    <3>7. Holds(chunks, s[1], s[2])
      BY <2>3, <3>1, <3>5, <3>6
    <3> QED
      BY <2>6, <3>7
  <2> QED
    BY <2>5, <2>7, <2>8 DEF ChunksCover, chunks, paras
<1> QED
  BY <1>1, <1>2, <1>3, PTL DEF Spec

=============================================================================
