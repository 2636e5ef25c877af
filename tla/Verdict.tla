------------------------------- MODULE Verdict -------------------------------
(***************************************************************************)
(* What the room's scores add up to: crew/stages.py aggregates and ranks   *)
(* them, crew/counterfactual.py asks which single piece of evidence would  *)
(* flip the result.  Both are arithmetic over two stored tables, which     *)
(* /scores and /evidence fill in any order (routers/decisions.py).         *)
(***************************************************************************)
EXTENDS Integers, Sequences, FiniteSets, Functions

CONSTANTS
    Seating,        \* the seats, in the order in which the stored JSON has them
    Options,        \* the options, numbered in alphabetical order
    EvidenceIds,    \* evidence ids that a seat may cite, recorded or not
    Totals,         \* sums of the three axes, each from 1 to 5
    Confidences,    \* confidences, in ten-thousandths
    HalvesUp,       \* the <<sum, n>> whose quotient, a float, lies above the half it stands for
    None            \* no option leads

ASSUME SeatingAssumption == Seating \in Seq(STRING) /\ Len(Seating) > 0
ASSUME OptionsAssumption == Options \subseteq Nat /\ IsFiniteSet(Options)
ASSUME EvidenceAssumption == EvidenceIds \subseteq Nat /\ IsFiniteSet(EvidenceIds)
ASSUME TotalsAssumption == Totals \subseteq 3..15
ASSUME ConfidencesAssumption == Confidences \subseteq 0..10000
ASSUME HalvesUpAssumption == HalvesUp \subseteq Nat \X Nat
ASSUME NoneAssumption == None \notin Nat

VARIABLES
    todo,       \* the options that this scoring has still to put to the seats
    scores,     \* the scores collected, and stored once todo is empty: seat -> list
    evidence    \* table evidence: the ids that are recorded

vars == <<todo, scores, evidence>>

Seats == {Seating[i] : i \in DOMAIN Seating}

\* A Score cites something: depends_on has at least one id, and nothing checks
\* that it is one the room was given.
Score == [option : Options, total : Totals, confidence : Confidences,
          depends_on : (SUBSET EvidenceIds) \ {{}}]

Stored == todo = <<>>

\* The elements of S in the order in which ahead[x] are those before x.
Arranged(S, ahead) ==
    [n \in 1..Cardinality(S) |-> CHOOSE x \in S : Cardinality(ahead[x]) = n - 1]

-----------------------------------------------------------------------------
(* stages.aggregate.                                                       *)

\* Where the scores of an option stand: seat and place in the seat's list.
Entries(table, option) ==
    UNION {{s} \X {i \in DOMAIN table[s] : table[s][i].option = option} : s \in DOMAIN table}

\* The mean of n confidences that add up to sum, rounded to four decimals.  sum() of
\* Python 3.13 carries along what each addition loses, so that its result is the exact sum
\* rounded once, in whatever order they came; when the exact mean is halfway between two
\* decimals, the float nearest to it is on one side, the same for the same sum and n.
Mean(sum, n) ==
    LET down == sum \div n
        rest == sum % n
    IN IF 2 * rest > n \/ (2 * rest = n /\ <<sum, n>> \in HalvesUp) THEN down + 1 ELSE down

Result(table, option) ==
    LET entries == Entries(table, option)
        Of(e) == table[e[1]][e[2]]
    IN [option |-> option,
        total |-> SumFunction([e \in entries |-> Of(e).total]),
        mean_confidence |-> Mean(SumFunction([e \in entries |-> Of(e).confidence]),
                                 Cardinality(entries)),
        supporters |-> {e[1] : e \in entries}]

\* The options in the order in which a dict of the scores first meets them, the
\* seats being visited as `order` says.
Met(table, order) ==
    LET places == {p \in (DOMAIN order) \X (1..Cardinality(Options)) :
                       p[2] \in DOMAIN table[order[p[1]]]}
        At(p) == table[order[p[1]]][p[2]].option
        Sooner(p, q) == p[1] < q[1] \/ (p[1] = q[1] /\ p[2] < q[2])
        first == {p \in places : \A q \in places : At(q) = At(p) => ~Sooner(q, p)}
        inOrder == Arranged(first, [p \in first |-> {q \in first : Sooner(q, p)}])
    IN [n \in DOMAIN inOrder |-> At(inOrder[n])]

\* Mutant of KeyLess: the sort key is the total and the confidence, without the name.
KeyLessNoName(a, b) ==
    \/ a.total > b.total
    \/ a.total = b.total /\ a.mean_confidence > b.mean_confidence

\* The sort key (-total, -mean_confidence, option).
KeyLess(a, b) ==
    \/ a.total > b.total
    \/ a.total = b.total /\ a.mean_confidence > b.mean_confidence
    \/ /\ a.total = b.total /\ a.mean_confidence = b.mean_confidence
       /\ a.option < b.option

\* aggregate: the results by that key; the sort is stable, so equal keys keep the
\* order of the dict.
Ranking(table, order) ==
    LET met == Met(table, order)
        results == {[place |-> n, of |-> Result(table, met[n])] : n \in DOMAIN met}
        Before(r, q) == \/ KeyLess(r.of, q.of)
                        \/ ~KeyLess(q.of, r.of) /\ r.place < q.place
        sorted == Arranged(results, [q \in results |-> {r \in results : Before(r, q)}])
    IN [n \in DOMAIN sorted |-> sorted[n].of]

Aggregate(table) == Ranking(table, Seating)

-----------------------------------------------------------------------------
(* The counterfactual.                                                     *)

\* _leader: who wins and by how much; an unopposed option wins by all it has.
Leader(table) ==
    LET ranked == Aggregate(table) IN
    IF ranked = <<>> THEN [option |-> None, margin |-> 0]
    ELSE [option |-> ranked[1].option,
          margin |-> IF Len(ranked) = 1 THEN ranked[1].total
                     ELSE ranked[1].total - ranked[2].total]

\* The scores of a list at these places, in their order.
ScoresAt(list, places) ==
    LET inOrder == Arranged(places, [i \in places |-> {j \in places : j < i}])
    IN [n \in DOMAIN inOrder |-> list[inOrder[n]]]

\* Mutant of Without: what did not lean on the evidence is set aside.
WithOnly(table, id) ==
    [s \in DOMAIN table |->
        ScoresAt(table[s], {i \in DOMAIN table[s] : id \in table[s][i].depends_on})]

\* _without: every score that leaned on this evidence is set aside.
Without(table, id) ==
    [s \in DOMAIN table |->
        ScoresAt(table[s], {i \in DOMAIN table[s] : id \notin table[s][i].depends_on})]

\* Mutant of Affected: a seat is judged by its first score.
AffectedFirst(table, id) ==
    {s \in DOMAIN table : table[s] # <<>> /\ id \in table[s][1].depends_on}

\* _without: the seats that it sets a score of aside for.
Affected(table, id) ==
    {s \in DOMAIN table : \E i \in DOMAIN table[s] : id \in table[s][i].depends_on}

\* flips: the recorded items whose removal puts another option first.
Flips(table, recorded) ==
    LET before == Leader(table)
        tried == {[id |-> id, rest |-> Without(table, id)] :
                     id \in {e \in recorded : Affected(table, e) # {}}}
    IN {[evidence_id |-> t.id, winner_before |-> before.option,
         winner_after |-> Leader(t.rest).option, margin_before |-> before.margin,
         margin_after |-> Leader(t.rest).margin, seats |-> Affected(table, t.id)] :
            t \in {u \in tried : /\ before.option # None
                                 /\ Leader(u.rest).option \notin {None, before.option}}}

\* robustness: which of the sentences the reader is given.
Robustness(table, recorded) ==
    LET told == <<"no single source", "hangs on one thing", "not robust">>
        found(n) == told[(IF n > 2 THEN 2 ELSE n) + 1]
    IN IF Leader(table).option = None THEN "nothing scored"
       ELSE IF recorded = {} THEN "no evidence"
       ELSE found(Cardinality(Flips(table, recorded)))

\* sensitivity: the ids each seat leaned on; a seat that scored nothing is ungrounded.
Sensitivity(table) ==
    [s \in DOMAIN table |-> UNION {table[s][i].depends_on : i \in DOMAIN table[s]}]

-----------------------------------------------------------------------------
(* The tables.                                                             *)

TypeOK ==
    /\ todo \in Seq(Options)
    /\ scores \in [Seats -> Seq(Score)]
    /\ evidence \subseteq EvidenceIds

\* POST /scores with the options in the order the client named them; nothing stops it
\* from naming one twice.
Init ==
    /\ todo \in [1..Cardinality(Options) -> Options]
    /\ scores = [s \in Seats |-> <<>>]
    /\ evidence = {}

\* POST /evidence, at any time: INSERT OR REPLACE by evidence_id.
SaveEvidence ==
    /\ \E id \in EvidenceIds : evidence' = evidence \cup {id}
    /\ UNCHANGED <<todo, scores>>

\* collect_scores: every seat has scored the next option.
CollectOption ==
    /\ todo # <<>>
    /\ todo' = Tail(todo)
    /\ \E got \in [Seats -> {x \in Score : x.option = Head(todo)}] :
          scores' = [s \in Seats |-> Append(scores[s], got[s])]
    /\ UNCHANGED evidence

Next == SaveEvidence \/ CollectOption

Spec == Init /\ [][Next]_vars

-----------------------------------------------------------------------------

\* The same, in any order.
Reorderings(q) == {[i \in DOMAIN q |-> q[turn[i]]] : turn \in Bijection(DOMAIN q, DOMAIN q)}

\* The same scores rank the same way whatever order the seats come in, and whatever
\* order each of them scored the options in (stages.py: "five seats scoring concurrently
\* arrive in whatever sequence they finish, and a decision that depends on that is not a
\* decision").
OrderIndependent ==
    LET lists == UNION {Reorderings(scores[s]) : s \in Seats}
        ranked == Aggregate(scores)
    IN \A table \in [Seats -> lists] :
           (\A s \in Seats : table[s] \in Reorderings(scores[s])) =>
               \A order \in Reorderings(Seating) : Ranking(table, order) = ranked

\* A reported flip is earned: the scores of the winner that lean on the removed
\* item add up to at least the margin it won by, and to something (flips).
FlipsAreEarned ==
    Stored => \A f \in Flips(scores, evidence) :
        LET lost == {e \in Entries(scores, f.winner_before) :
                        f.evidence_id \in scores[e[1]][e[2]].depends_on}
            points == SumFunction([e \in lost |-> scores[e[1]][e[2]].total])
        IN points > 0 /\ points >= f.margin_before

\* The two halves of the counterfactual's answer agree: the seats that a flip
\* names are those whose sensitivity lists the item, and removing all evidence
\* that a seat lists leaves nothing of that seat in the ranking.
SensitivityAgrees ==
    Stored =>
        /\ \A f \in Flips(scores, evidence) :
              f.seats = {s \in Seats : f.evidence_id \in Sensitivity(scores)[s]}
        /\ \A s \in Seats, id \in EvidenceIds : Sensitivity(scores)[s] = {id} =>
              \A rest \in {Without(scores, id)} : \A n \in DOMAIN Aggregate(rest) :
                  s \notin Aggregate(rest)[n].supporters

\* The sentence "does not hang on any one source" (counterfactual.robustness):
\* whichever recorded item is removed, the room still prefers the same option.
NoSingleSource ==
    Stored /\ Robustness(scores, evidence) = "no single source" =>
        \A rest \in {Without(scores, id) : id \in evidence} :
            Leader(rest).option = Leader(scores).option

=============================================================================
