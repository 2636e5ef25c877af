----------------------------- MODULE WebSearch -----------------------------
(***************************************************************************)
(* Live search: core/search.py's chain of tiers, which every request       *)
(* shares, and the endpoint of routers/research.py that tells its client   *)
(* what the chain degraded from.  A tier that cannot be reached, fails or  *)
(* finds nothing is passed over.                                           *)
(***************************************************************************)
EXTENDS Integers, Sequences, FiniteSets

CONSTANTS
    Callers,        \* concurrent requests to search
    Tiers,          \* the tiers in order, the stub last
    LIMIT,          \* how many results are asked for
    Urls,           \* where results may point
    Links,          \* the pages the user put on the table, a sequence
    MaxHeard,       \* bound: no search starts once so many answered before a response
    Stub            \* the last tier, which the chain appends when it is missing

ASSUME TiersAssumption ==
    /\ Tiers \in Seq({"searxng", "keyless", "user_links", Stub})
    /\ Len(Tiers) > 0 /\ Tiers[Len(Tiers)] = Stub
ASSUME StubAssumption == Stub \in STRING \  {"searxng", "keyless", "user_links"}
ASSUME LimitAssumption == LIMIT \in Nat \ {0}
ASSUME BoundAssumption == MaxHeard \in Nat
ASSUME LinksAssumption == Links \in Seq(Urls)

VARIABLES
    call,           \* what every request is doing
    lastDegraded,   \* the chain's last_degraded_from
    answers         \* history: the reasons of every search since each call answered

vars == <<call, lastDegraded, answers>>

Idle == [pc |-> "idle", at |-> 1, skipped |-> <<>>, results |-> <<>>, degraded |-> <<>>]

Why == {"unreachable", "error", "no results"}
Reasons == [tier : {Tiers[i] : i \in DOMAIN Tiers}, why : Why]

\* At most n of a sequence, from its start.
First(q, n) == SubSeq(q, 1, IF Len(q) < n THEN Len(q) ELSE n)

TypeOK ==
    /\ lastDegraded \in Seq(Reasons)
    /\ \A c \in Callers :
          /\ call[c].pc \in {"idle", "trying", "answered", "told"}
          /\ call[c].at \in 1..(Len(Tiers) + 1)
          /\ call[c].skipped \in Seq(Reasons)
    /\ answers \in [Callers -> SUBSET Seq(Reasons)]

Init ==
    /\ call = [c \in Callers |-> Idle]
    /\ lastDegraded = <<>>
    /\ answers = [c \in Callers |-> {}]

-----------------------------------------------------------------------------
(* What the tiers return.                                                  *)

Lists(n) == UNION {[1..k -> Urls] : k \in 0..n}

\* SearXNG: the results that have a url, up to the limit.
Searxng == Lists(LIMIT)

\* Mutant of Deduped: the sources are merged as they come.
DedupedNot(q) == q

\* The first result for every url.
Deduped(q) ==
    LET first == {i \in DOMAIN q : \A j \in 1..(i - 1) : q[j] # q[i]}
        place(i) == CHOOSE p \in first : Cardinality({o \in first : o <= p}) = i
    IN [i \in 1..Cardinality(first) |-> q[place(i)]]

\* KeylessProvider: OpenAlex, then Wikipedia for half of the limit, then DuckDuckGo's one
\* answer while there is room; a source that fails adds nothing.
Keyless ==
    LET half == IF LIMIT \div 2 < 1 THEN 1 ELSE LIMIT \div 2
        merged == {a \o b : a \in Lists(LIMIT), b \in Lists(half)}
        all == merged \cup {m \o d : m \in {q \in merged : Len(q) < LIMIT}, d \in Lists(1)}
    IN {First(Deduped(q), LIMIT) : q \in all}

\* UserLinksProvider: every page gives a result, also one that cannot be fetched.
UserLinks == {First(Links, LIMIT)}

\* The stub: up to four made-up sources, told apart by a part of the query's hash.
Stubbed == {[i \in 1..(IF LIMIT < 4 THEN LIMIT ELSE 4) |-> <<Stub, i>>]}

ResultsOf(tier) ==
    CASE tier = "searxng" -> Searxng
      [] tier = "keyless" -> Keyless
      [] tier = "user_links" -> UserLinks
      [] tier = Stub -> Stubbed

\* What may stand in the way of a tier: the stub is always reachable, the user's links
\* exactly when there are some; a link that is no URL makes their tier raise.
Obstacles(tier) ==
    CASE tier = Stub -> {}
      [] tier = "user_links" -> IF Links = <<>> THEN {"unreachable"} ELSE {"error"}
      [] OTHER -> {"unreachable", "error", "no results"}

\* When the tier answers, it answers with something.
Answers(tier) ==
    IF tier = "user_links" /\ Links = <<>> THEN {} ELSE ResultsOf(tier) \ {<<>>}

-----------------------------------------------------------------------------
(* SearchChain.search.                                                     *)

Start(c) ==
    /\ call[c].pc = "idle"
    /\ \A d \in Callers : Cardinality(answers[d]) < MaxHeard
    /\ call' = [call EXCEPT ![c].pc = "trying"]
    /\ UNCHANGED <<lastDegraded, answers>>

\* The tier is passed over, with the reason why.
PassOver(c) ==
    /\ call[c].pc = "trying" /\ call[c].at <= Len(Tiers)
    /\ \E why \in Obstacles(Tiers[call[c].at]) :
          call' = [call EXCEPT ![c].at = @ + 1,
                               ![c].skipped = Append(@, [tier |-> Tiers[call[c].at], why |-> why])]
    /\ UNCHANGED <<lastDegraded, answers>>

\* c answers now, and d may have answered before.
Heard(c) ==
    answers' = [d \in Callers |->
        IF d = c THEN {call[c].skipped}
        ELSE IF call[d].pc = "answered" THEN answers[d] \cup {call[c].skipped}
        ELSE answers[d]]

\* Mutant of Serve: nothing is published when no tier was passed over.
ServeQuietly(c) ==
    /\ call[c].pc = "trying" /\ call[c].at <= Len(Tiers)
    /\ \E results \in Answers(Tiers[call[c].at]) :
          call' = [call EXCEPT ![c].pc = "answered", ![c].results = First(results, LIMIT)]
    /\ lastDegraded' = IF call[c].skipped = <<>> THEN lastDegraded ELSE call[c].skipped
    /\ Heard(c)

\* The tier answers: the reasons are published in one assignment.
Serve(c) ==
    /\ call[c].pc = "trying" /\ call[c].at <= Len(Tiers)
    /\ \E results \in Answers(Tiers[call[c].at]) :
          call' = [call EXCEPT ![c].pc = "answered", ![c].results = First(results, LIMIT)]
    /\ lastDegraded' = call[c].skipped
    /\ Heard(c)

\* search_endpoint: what the chain says by now it degraded from, with the results.
Respond(c) ==
    /\ call[c].pc = "answered"
    /\ call' = [call EXCEPT ![c].pc = "told", ![c].degraded = lastDegraded]
    /\ UNCHANGED <<lastDegraded, answers>>

\* The response is sent; that of search_stream does not tell the reasons.
Finish(c) ==
    /\ call[c].pc \in {"answered", "told"}
    /\ call' = [call EXCEPT ![c] = Idle]
    /\ answers' = [answers EXCEPT ![c] = {}]
    /\ UNCHANGED lastDegraded

Next == \E c \in Callers : Start(c) \/ PassOver(c) \/ Serve(c) \/ Respond(c) \/ Finish(c)

Spec == Init /\ [][Next]_vars

-----------------------------------------------------------------------------

\* The reasons that a response tells are the whole list of one search: its own, or one
\* that answered between this search and its response; one reason for every tier from the
\* first to the one that answered.  Never are they a mixture of overlapping searches, a
\* part of a list, or left over from a search before (search_endpoint reads a field of the
\* chain that everybody writes).
ToldOfOneSearch ==
    \A c \in Callers : call[c].pc = "told" =>
        /\ call[c].degraded \in answers[c]
        /\ \A i \in DOMAIN call[c].degraded :
              call[c].degraded[i].tier = Tiers[i] /\ Tiers[i] # Stub

\* A client gets results, the stub's at worst, of no more than it asked for, and each
\* source once when the tier merges several.
ResultsSound ==
    \A c \in Callers : call[c].pc \in {"answered", "told"} =>
        LET got == call[c].results IN
        /\ got # <<>> /\ Len(got) <= LIMIT
        /\ Tiers[call[c].at] = "keyless" => \A i, j \in DOMAIN got : got[i] = got[j] => i = j

=============================================================================
