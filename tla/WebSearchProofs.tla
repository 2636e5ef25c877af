--------------------------- MODULE WebSearchProofs ---------------------------
(***************************************************************************)
(* That the reasons a response tells are those of one search, for any      *)
(* number of overlapping searches and any tiers.  The argument: a search   *)
(* keeps its reasons to itself, one for every tier before its place in the *)
(* loop, and publishes them in one assignment; what a waiting response may *)
(* read is its own list or that of a later one.                            *)
(***************************************************************************)
EXTENDS WebSearch, FiniteSetTheorems, TLAPS

\* What a request holds is a record with these fields, whatever the results are.
Shaped ==
    /\ DOMAIN call = Callers
    /\ \A c \in Callers : DOMAIN call[c] = {"pc", "at", "skipped", "results", "degraded"}

\* Reasons for the first tiers, in their order, none of them the stub.
InOrder(reasons) ==
    \A i \in DOMAIN reasons : reasons[i].tier = Tiers[i] /\ Tiers[i] # Stub

\* A search has a reason for every tier that it passed over.
OwnReasons ==
    \A c \in Callers : Len(call[c].skipped) = call[c].at - 1 /\ InOrder(call[c].skipped)

\* What the field holds is the list of a search, and nothing that a waiting response has
\* not heard of; what a response tells was that when it was read.
Published ==
    /\ InOrder(lastDegraded)
    /\ \A c \in Callers :
          /\ call[c].pc = "answered" => lastDegraded \in answers[c]
          /\ call[c].pc = "told" => call[c].degraded \in answers[c] /\ InOrder(call[c].degraded)

IInv == TypeOK /\ Shaped /\ OwnReasons /\ Published

LEMMA InitIInv == Init => IInv
<1> SUFFICES ASSUME Init PROVE IInv
  OBVIOUS
<1>1. DOMAIN call = Callers /\ \A c \in Callers : call[c] = Idle
  BY DEF Init
<1>2. /\ DOMAIN Idle = {"pc", "at", "skipped", "results", "degraded"}
      /\ Idle.pc = "idle" /\ Idle.at = 1 /\ Idle.skipped = <<>>
  BY DEF Idle
<1>3. <<>> \in Seq(Reasons) /\ Len(<<>>) = 0 /\ 1 \in 1..(Len(Tiers) + 1)
  BY TiersAssumption
<1>4. lastDegraded = <<>> /\ answers = [c \in Callers |-> {}]
  BY DEF Init
<1>5. TypeOK
  BY <1>1, <1>2, <1>3, <1>4 DEF TypeOK
<1>6. Shaped /\ OwnReasons /\ Published
  BY <1>1, <1>2, <1>3, <1>4 DEF Shaped, OwnReasons, InOrder, Published
<1> QED
  BY <1>5, <1>6 DEF IInv

\* A request that moves on without a new reason keeps those it has.
LEMMA KeepsReasons ==
    ASSUME IInv, NEW c \in Callers, Shaped', TypeOK',
           \A d \in Callers : \/ call'[d].skipped = call[d].skipped /\ call'[d].at = call[d].at
                              \/ call'[d].skipped = <<>> /\ call'[d].at = 1
    PROVE  OwnReasons'
BY DEF IInv, TypeOK, OwnReasons, InOrder

LEMMA PassOverStep ==
    ASSUME IInv, NEW c \in Callers, PassOver(c)
    PROVE  IInv'
<1> DEFINE at == call[c].at
           tier == Tiers[at]
<1>1. PICK why \in Obstacles(tier) :
          call' = [call EXCEPT ![c].at = @ + 1,
                               ![c].skipped = Append(@, [tier |-> tier, why |-> why])]
  BY DEF PassOver
<1> DEFINE reason == [tier |-> tier, why |-> why]
<1>2. at \in DOMAIN Tiers /\ at \in 1..Len(Tiers)
  BY TiersAssumption DEF PassOver, IInv, TypeOK
<1>3. tier # Stub /\ why \in Why
  BY <1>1, StubAssumption DEF Obstacles, Why
<1>4. reason \in Reasons
  BY <1>2, <1>3 DEF Reasons
<1> DEFINE next == at + 1
           more == Append(call[c].skipped, reason)
<1>13. call' = [call EXCEPT ![c].at = next, ![c].skipped = more]
  BY <1>1
<1> HIDE DEF next, more
<1>14. /\ call'[c].at = next /\ call'[c].pc = call[c].pc /\ call'[c].skipped = more
       /\ \A d \in Callers \ {c} : call'[d] = call[d]
  BY <1>13 DEF IInv, Shaped
<1>5. /\ call'[c].at = at + 1 /\ call'[c].pc = call[c].pc
      /\ call'[c].skipped = Append(call[c].skipped, reason)
      /\ \A d \in Callers \ {c} : call'[d] = call[d]
  BY <1>14 DEF next, more
<1>6. Shaped'
  BY <1>13 DEF IInv, Shaped
<1>7. call[c].skipped \in Seq(Reasons) /\ Len(call[c].skipped) = at - 1
  BY DEF IInv, TypeOK, OwnReasons
<1> HIDE DEF reason
<1>8. call'[c].skipped \in Seq(Reasons) /\ Len(call'[c].skipped) = at
  BY <1>2, <1>4, <1>5, <1>7
<1>9. \A i \in DOMAIN call'[c].skipped :
          call'[c].skipped[i] = IF i = at THEN reason ELSE call[c].skipped[i]
  BY <1>2, <1>4, <1>5, <1>7
<1>10. InOrder(call'[c].skipped)
  <2>1. reason.tier = Tiers[at]
    BY DEF reason
  <2>2. \A i \in DOMAIN call'[c].skipped : i # at => i \in DOMAIN call[c].skipped
    BY <1>2, <1>7, <1>8
  <2> QED
    BY <1>3, <1>9, <2>1, <2>2 DEF IInv, OwnReasons, InOrder
<1>11. \A d \in Callers : /\ call'[d].pc \in {"idle", "trying", "answered", "told"}
                          /\ call'[d].at \in 1..(Len(Tiers) + 1)
                          /\ call'[d].skipped \in Seq(Reasons)
                          /\ Len(call'[d].skipped) = call'[d].at - 1
                          /\ InOrder(call'[d].skipped)
  <2> SUFFICES ASSUME NEW d \in Callers
               PROVE  /\ call'[d].pc \in {"idle", "trying", "answered", "told"}
                      /\ call'[d].at \in 1..(Len(Tiers) + 1)
                      /\ call'[d].skipped \in Seq(Reasons)
                      /\ Len(call'[d].skipped) = call'[d].at - 1
                      /\ InOrder(call'[d].skipped)
    OBVIOUS
  <2>1. CASE d = c
    <3>1. Len(Tiers) \in Nat /\ at \in 1..Len(Tiers)
      BY <1>2, TiersAssumption
    <3> HIDE DEF at
    <3>2. at + 1 \in 1..(Len(Tiers) + 1) /\ (at + 1) - 1 = at
      BY <3>1
    <3>3. call[c].pc \in {"idle", "trying", "answered", "told"}
      BY DEF IInv, TypeOK
    <3> QED
      BY <1>5, <1>8, <1>10, <2>1, <3>2, <3>3
  <2>2. CASE d # c
    BY <1>5, <2>2 DEF IInv, TypeOK, OwnReasons
  <2> QED
    BY <2>1, <2>2
<1>12. lastDegraded' = lastDegraded /\ answers' = answers
  BY DEF PassOver
<1>15. TypeOK' /\ OwnReasons'
  BY <1>11, <1>12 DEF IInv, TypeOK, OwnReasons
<1>16. \A d \in Callers : /\ call'[d].pc = call[d].pc
                          /\ call[d].pc # "trying" => call'[d] = call[d]
  <2>1. call[c].pc = "trying"
    BY DEF PassOver
  <2> QED
    BY <1>5, <2>1
<1> HIDE DEF at, tier
<1>17. Published'
  <2>1. InOrder(lastDegraded)'
    BY <1>12 DEF IInv, Published, InOrder
  <2>2. ASSUME NEW d \in Callers
        PROVE  /\ call'[d].pc = "answered" => lastDegraded' \in answers'[d]
               /\ call'[d].pc = "told" =>
                     call'[d].degraded \in answers'[d] /\ InOrder(call'[d].degraded)
    <3>1. call[d].pc = "told" => call'[d] = call[d]
      BY <1>16
    <3> QED
      BY <1>12, <1>16, <3>1 DEF IInv, Published, InOrder
  <2> QED
    BY <2>1, <2>2 DEF Published, InOrder
<1> QED
  BY <1>6, <1>15, <1>17 DEF IInv

LEMMA ServeStep ==
    ASSUME IInv, NEW c \in Callers, Serve(c)
    PROVE  IInv'
<1>1. PICK results : call' = [call EXCEPT ![c].pc = "answered", ![c].results = First(results, LIMIT)]
  BY DEF Serve
<1>2. /\ Shaped' /\ call'[c].pc = "answered"
      /\ \A d \in Callers : /\ call'[d].at = call[d].at /\ call'[d].skipped = call[d].skipped
                            /\ d # c => call'[d].pc = call[d].pc
  BY <1>1 DEF IInv, Shaped
<1>3. lastDegraded' = call[c].skipped
  BY DEF Serve
<1>4. answers' = [d \in Callers |->
                      IF d = c THEN {call[c].skipped}
                      ELSE IF call[d].pc = "answered" THEN answers[d] \cup {call[c].skipped}
                      ELSE answers[d]]
  BY DEF Serve, Heard
<1>5. TypeOK'
  BY <1>2, <1>3, <1>4 DEF IInv, TypeOK
<1>6. OwnReasons'
  BY <1>2 DEF IInv, OwnReasons, InOrder
<1>7. InOrder(lastDegraded')
  BY <1>3 DEF IInv, OwnReasons, InOrder
<1>8. ASSUME NEW d \in Callers
      PROVE  /\ call'[d].pc = "answered" => lastDegraded' \in answers'[d]
             /\ call'[d].pc = "told" => call'[d].degraded \in answers'[d] /\ InOrder(call'[d].degraded)
  <2>1. CASE d = c
    BY <1>2, <1>3, <1>4, <2>1
  <2>2. CASE d # c
    <3>1. call'[d] = call[d]
      BY <1>1, <2>2 DEF IInv, Shaped
    <3> QED
      BY <1>3, <1>4, <2>2, <3>1 DEF IInv, Published, InOrder
  <2> QED
    BY <2>1, <2>2
<1>9. Published'
  BY <1>7, <1>8 DEF Published, InOrder
<1> QED
  BY <1>2, <1>5, <1>6, <1>9 DEF IInv

LEMMA RespondStep ==
    ASSUME IInv, NEW c \in Callers, Start(c) \/ Respond(c) \/ Finish(c)
    PROVE  Published'
<1>1. lastDegraded' = lastDegraded
  BY DEF Start, Respond, Finish
<1> SUFFICES ASSUME NEW d \in Callers
             PROVE  /\ call'[d].pc = "answered" => lastDegraded \in answers'[d]
                    /\ call'[d].pc = "told" =>
                          call'[d].degraded \in answers'[d] /\ InOrder(call'[d].degraded)
  BY <1>1 DEF IInv, Published, InOrder
<1>2. CASE d # c
  <2>1. call'[d] = call[d] /\ answers'[d] = answers[d]
    BY <1>2 DEF Start, Respond, Finish, IInv, Shaped, TypeOK
  <2> QED
    BY <2>1 DEF IInv, Published, InOrder
<1>3. CASE d = c
  <2>1. ASSUME Start(c) PROVE call'[c].pc = "trying"
    BY <2>1 DEF Start, IInv, Shaped
  <2>2. ASSUME Finish(c) PROVE call'[c].pc = "idle"
    BY <2>2 DEF Finish, Idle, IInv, Shaped
  <2>3. ASSUME Respond(c)
        PROVE  /\ call[c].pc = "answered" /\ call'[c].pc = "told"
               /\ call'[c].degraded = lastDegraded /\ answers' = answers
    BY <2>3 DEF Respond, IInv, Shaped
  <2> QED
    BY <1>3, <2>1, <2>2, <2>3 DEF IInv, Published, InOrder
<1> QED
  BY <1>2, <1>3

LEMMA Step == IInv /\ [Next]_vars => IInv'
<1> SUFFICES ASSUME IInv, [Next]_vars PROVE IInv'
  OBVIOUS
<1>1. ASSUME NEW c \in Callers, Start(c) \/ Respond(c) \/ Finish(c) PROVE IInv'
  <2> DEFINE Moved(d) ==
               /\ call'[d].pc \in {"idle", "trying", "answered", "told"}
               /\ \/ call'[d].skipped = call[d].skipped /\ call'[d].at = call[d].at
                  \/ call'[d].skipped = <<>> /\ call'[d].at = 1
  <2>1. ASSUME Start(c) PROVE Shaped' /\ \A d \in Callers : Moved(d)
    BY <2>1 DEF Start, IInv, Shaped, TypeOK
  <2>2. ASSUME Respond(c) PROVE Shaped' /\ \A d \in Callers : Moved(d)
    BY <2>2 DEF Respond, IInv, Shaped, TypeOK
  <2>3. ASSUME Finish(c) PROVE Shaped' /\ \A d \in Callers : Moved(d)
    BY <2>3 DEF Finish, Idle, IInv, Shaped, TypeOK
  <2>4. Shaped' /\ \A d \in Callers : Moved(d)
    BY <1>1, <2>1, <2>2, <2>3
  <2>5. lastDegraded' = lastDegraded /\ answers' \in [Callers -> SUBSET Seq(Reasons)]
    BY <1>1 DEF Start, Respond, Finish, IInv, TypeOK
  <2>6. <<>> \in Seq(Reasons) /\ 1 \in 1..(Len(Tiers) + 1)
    BY TiersAssumption
  <2>7. TypeOK'
    BY <2>4, <2>5, <2>6 DEF IInv, TypeOK
  <2>8. OwnReasons'
    BY <2>4, <2>7, KeepsReasons
  <2> QED
    BY <1>1, <2>4, <2>7, <2>8, RespondStep DEF IInv
<1>2. ASSUME UNCHANGED vars PROVE IInv'
  BY <1>2 DEF vars, IInv, TypeOK, Shaped, OwnReasons, InOrder, Published
<1> QED
  BY <1>1, <1>2, PassOverStep, ServeStep DEF Next

\* However many searches overlap on the chain that deps.search() caches: what a response
\* tells is the whole list of its own search or of one that answered after it, with a
\* reason for each tier from the first on.
THEOREM ReasonsOfOneSearch == Spec => []ToldOfOneSearch
<1>1. IInv => ToldOfOneSearch
  BY DEF IInv, Published, InOrder, ToldOfOneSearch
<1> QED
  BY <1>1, InitIInv, Step, PTL DEF Spec

-----------------------------------------------------------------------------
(* What the tiers return.                                                  *)

LEMMA FirstIs ==
    ASSUME NEW S, NEW q \in Seq(S), NEW n \in Nat \ {0}
    PROVE  /\ First(q, n) \in Seq(S) /\ Len(First(q, n)) <= n
           /\ q # <<>> => First(q, n) # <<>>
           /\ \A i \in DOMAIN First(q, n) : i \in DOMAIN q /\ First(q, n)[i] = q[i]
<1> DEFINE k == IF Len(q) < n THEN Len(q) ELSE n
<1>1. k \in 0..Len(q) /\ k <= n /\ (q # <<>> => k > 0)
  OBVIOUS
<1>2. First(q, n) = SubSeq(q, 1, k)
  BY DEF First
<1> HIDE DEF k
<1>3. SubSeq(q, 1, k) = [i \in 1..k |-> q[i]]
  BY <1>1
<1>4. First(q, n) \in Seq(S) /\ Len(First(q, n)) = k
  BY <1>1, <1>2
<1> QED
  BY <1>1, <1>2, <1>3, <1>4

Distinct(q) == \A i, j \in DOMAIN q : q[i] = q[j] => i = j

\* Numbering the members of a finite set of numbers by how many are not above them
\* reaches every one of them.
LEMMA Numbered ==
    ASSUME NEW S \in SUBSET Nat, IsFiniteSet(S), NEW i \in 1..Cardinality(S)
    PROVE  \E p \in S : Cardinality({o \in S : o <= p}) = i
<1> DEFINE upto(p) == {o \in S : o <= p}
           n == Cardinality(S)
           count == [p \in S |-> Cardinality(upto(p))]
<1>1. n \in Nat
  BY FS_CardinalityType
<1>2. \A p \in S : upto(p) \in SUBSET S /\ p \in upto(p)
  OBVIOUS
<1>3. \A p \in S : IsFiniteSet(upto(p)) /\ Cardinality(upto(p)) \in 1..n
  <2> TAKE p \in S
  <2>1. IsFiniteSet(upto(p)) /\ Cardinality(upto(p)) <= n
    BY <1>2, FS_Subset
  <2>2. Cardinality(upto(p)) \in Nat /\ Cardinality(upto(p)) # 0
    BY <1>2, <2>1, FS_CardinalityType, FS_EmptySet
  <2> HIDE DEF upto, n
  <2> QED
    BY <1>1, <2>1, <2>2
<1>4. \A p, o \in S : Cardinality(upto(p)) = Cardinality(upto(o)) => p = o
  <2>1. ASSUME NEW p \in S, NEW o \in S, p < o
        PROVE  Cardinality(upto(p)) # Cardinality(upto(o))
    <3>1. p \in Nat /\ o \in Nat
      OBVIOUS
    <3>2. \A x \in upto(p) : x \in Nat /\ x <= p /\ x \in S
      OBVIOUS
    <3>3. \A x \in upto(p) : x <= o
      BY <2>1, <3>1, <3>2
    <3>4. o \in upto(o) /\ o \notin upto(p)
      BY <2>1, <3>1
    <3>5. upto(p) \in SUBSET upto(o)
      BY <3>2, <3>3
    <3> HIDE DEF upto
    <3> QED
      BY <1>3, <3>4, <3>5, FS_Subset
  <2> HIDE DEF upto
  <2> QED
    BY <2>1
<1> HIDE DEF upto, n
<1>5. count \in Injection(S, 1..n)
  BY <1>3, <1>4 DEF Injection, IsInjective
<1>6. IsFiniteSet(1..n) /\ Cardinality(1..n) = n
  BY <1>1, FS_Interval
<1>7. count \in Surjection(S, 1..n)
  BY <1>5, <1>6, FS_Injection DEF n
<1> QED
  BY <1>7 DEF Surjection, upto, n

LEMMA DedupedIs ==
    ASSUME NEW S, NEW q \in Seq(S)
    PROVE  Deduped(q) \in Seq(S) /\ Distinct(Deduped(q))
<1> DEFINE first == {i \in DOMAIN q : \A j \in 1..(i - 1) : q[j] # q[i]}
           place(i) == CHOOSE p \in first : Cardinality({o \in first : o <= p}) = i
           n == Cardinality(first)
<1>1. DOMAIN q = 1..Len(q) /\ Len(q) \in Int /\ 1 \in Int
  OBVIOUS
<1>2. IsFiniteSet(DOMAIN q)
  BY <1>1, FS_Interval, Zenon
<1>3. first \in SUBSET Nat /\ IsFiniteSet(first)
  BY <1>1, <1>2, FS_Subset
<1>4. n \in Nat
  BY <1>3, FS_CardinalityType
<1>5. \A i \in first, j \in first : q[i] = q[j] => i = j
  BY <1>1
<1>6. Deduped(q) = [i \in 1..n |-> q[place(i)]]
  BY DEF Deduped
<1>7. \A i \in first : q[i] \in S
  OBVIOUS
<1> HIDE DEF first
<1>8. \A i \in 1..n : place(i) \in first /\ Cardinality({o \in first : o <= place(i)}) = i
  <2> TAKE i \in 1..n
  <2>1. \E p \in first : Cardinality({o \in first : o <= p}) = i
    BY <1>3, Numbered
  <2> QED
    BY <2>1
<1> HIDE DEF place, n
<1>9. \A i, j \in 1..n : place(i) = place(j) => i = j
  BY <1>8
<1>10. Deduped(q) \in [1..n -> S]
  BY <1>6, <1>7, <1>8
<1>11. \A i, j \in 1..n : Deduped(q)[i] = Deduped(q)[j] => i = j
  <2> TAKE i, j \in 1..n
  <2>1. Deduped(q)[i] = q[place(i)] /\ Deduped(q)[j] = q[place(j)]
    BY <1>6
  <2> QED
    BY <1>5, <1>8, <1>9, <2>1
<1>12. DOMAIN Deduped(q) = 1..n /\ Deduped(q) \in Seq(S)
  BY <1>4, <1>10
<1> QED
  BY <1>11, <1>12 DEF Distinct

LEMMA ListsAre ==
    ASSUME NEW n \in Nat, NEW q \in Lists(n)
    PROVE  q \in Seq(Urls)
<1>1. PICK k \in 0..n : q \in [1..k -> Urls]
  BY DEF Lists
<1> QED
  BY <1>1

\* KeylessProvider names every source once.
LEMMA KeylessIs ==
    ASSUME NEW q \in Keyless
    PROVE  q \in Seq(Urls) /\ Distinct(q)
<1> DEFINE half == IF LIMIT \div 2 < 1 THEN 1 ELSE LIMIT \div 2
           merged == {a \o b : a \in Lists(LIMIT), b \in Lists(half)}
           all == merged \cup {m \o d : m \in {r \in merged : Len(r) < LIMIT}, d \in Lists(1)}
<1>1. q \in {First(Deduped(r), LIMIT) : r \in all}
  BY DEF Keyless
<1>2. half \in Nat /\ LIMIT \in Nat /\ 1 \in Nat
  BY LimitAssumption
<1> HIDE DEF half
<1>3. \A a, b \in Seq(Urls) : a \o b \in Seq(Urls)
  OBVIOUS
<1>8. ASSUME NEW n \in Nat PROVE Lists(n) \subseteq Seq(Urls)
  BY ListsAre
<1>9. \A r \in merged : r \in Seq(Urls)
  <2>1. Lists(LIMIT) \subseteq Seq(Urls) /\ Lists(half) \subseteq Seq(Urls)
    BY <1>2, <1>8
  <2> TAKE r \in merged
  <2>2. PICK a \in Lists(LIMIT), b \in Lists(half) : r = a \o b
    OBVIOUS
  <2> QED
    BY <1>3, <2>1, <2>2
<1>4. \A r \in all : r \in Seq(Urls)
  <2>1. Lists(1) \subseteq Seq(Urls)
    BY <1>2, <1>8
  <2> HIDE DEF merged
  <2> TAKE r \in all
  <2>2. CASE r \in merged
    BY <1>9, <2>2
  <2>3. CASE r \notin merged
    <3>1. PICK m \in {p \in merged : Len(p) < LIMIT}, d \in Lists(1) : r = m \o d
      BY <2>3
    <3>2. m \in merged
      BY <3>1
    <3> QED
      BY <1>3, <1>9, <2>1, <3>1, <3>2
  <2> QED
    BY <2>2, <2>3
<1> HIDE DEF all
<1>5. PICK r \in all : q = First(Deduped(r), LIMIT)
  BY <1>1
<1>6. Deduped(r) \in Seq(Urls) /\ Distinct(Deduped(r))
  BY <1>4, DedupedIs
<1>7. /\ q \in Seq(Urls)
      /\ \A i \in DOMAIN q : i \in DOMAIN Deduped(r) /\ q[i] = Deduped(r)[i]
  BY <1>5, <1>6, LimitAssumption, FirstIs
<1> QED
  BY <1>6, <1>7 DEF Distinct

\* Whatever tier answers, it answers with a list that is not empty.
LEMMA AnswersAre ==
    ASSUME NEW i \in DOMAIN Tiers, NEW results \in Answers(Tiers[i])
    PROVE  /\ results # <<>>
           /\ \E S : results \in Seq(S)
           /\ Tiers[i] = "keyless" => Distinct(results)
<1>1. results \in ResultsOf(Tiers[i]) /\ results # <<>>
  BY DEF Answers
<1>2. Tiers[i] \in {"searxng", "keyless", "user_links", Stub}
  BY TiersAssumption
<1>3. CASE Tiers[i] = "searxng"
  <2>1. ResultsOf(Tiers[i]) = Searxng
    BY <1>3, StubAssumption DEF ResultsOf
  <2> QED
    BY <1>1, <1>3, <2>1, LimitAssumption, ListsAre DEF Searxng
<1>4. CASE Tiers[i] = "keyless"
  <2>1. ResultsOf(Tiers[i]) = Keyless
    BY <1>4, StubAssumption DEF ResultsOf
  <2> QED
    BY <1>1, <2>1, KeylessIs
<1>5. CASE Tiers[i] = "user_links"
  <2>1. ResultsOf(Tiers[i]) = {First(Links, LIMIT)}
    BY <1>5, StubAssumption DEF ResultsOf, UserLinks
  <2> QED
    BY <1>1, <1>5, <2>1, LimitAssumption, LinksAssumption, FirstIs
<1>6. CASE Tiers[i] = Stub
  <2> DEFINE k == IF LIMIT < 4 THEN LIMIT ELSE 4
             made == [j \in 1..k |-> <<Stub, j>>]
  <2>1. Stub # "keyless" /\ ResultsOf(Tiers[i]) = {made}
    BY <1>6, StubAssumption DEF ResultsOf, Stubbed
  <2>2. k \in Nat
    BY LimitAssumption
  <2> HIDE DEF k
  <2>3. made \in Seq({Stub} \X Nat)
    BY <2>2
  <2> QED
    BY <1>1, <1>6, <2>1, <2>3
<1> QED
  BY <1>2, <1>3, <1>4, <1>5, <1>6

LEMMA ResultsStep ==
    ASSUME IInv, ResultsSound, [Next]_vars
    PROVE  ResultsSound'
<1> DEFINE Good(c) ==
             call[c].pc \in {"answered", "told"} =>
                 /\ call[c].results # <<>> /\ Len(call[c].results) <= LIMIT
                 /\ Tiers[call[c].at] = "keyless" => Distinct(call[c].results)
<1>1. \A c \in Callers : Good(c)
  BY DEF ResultsSound, Distinct
<1>2. SUFFICES \A d \in Callers : Good(d)'
  BY DEF ResultsSound, Distinct
<1> SUFFICES ASSUME NEW d \in Callers PROVE Good(d)'
  OBVIOUS
<1>3. ASSUME NEW c \in Callers, Start(c) \/ Finish(c) PROVE Good(d)'
  BY <1>1, <1>3 DEF Start, Finish, Idle, IInv, Shaped
<1>4. ASSUME NEW c \in Callers, PassOver(c) PROVE Good(d)'
  <2>1. PICK why : call' = [call EXCEPT ![c].at = @ + 1,
                               ![c].skipped = Append(@, [tier |-> Tiers[call[c].at], why |-> why])]
    BY <1>4 DEF PassOver
  <2>2. call[c].pc = "trying"
    BY <1>4 DEF PassOver
  <2>3. call'[c].pc = "trying" /\ (d # c => call'[d] = call[d])
    BY <2>1, <2>2 DEF IInv, Shaped
  <2> QED
    BY <1>1, <2>3
<1>5. ASSUME NEW c \in Callers, Respond(c) PROVE Good(d)'
  <2>1. /\ call[c].pc = "answered"
        /\ call'[d].results = call[d].results /\ call'[d].at = call[d].at
        /\ call'[d].pc = call[d].pc \/ d = c
    BY <1>5 DEF Respond, IInv, Shaped
  <2> QED
    BY <1>1, <2>1
<1>6. ASSUME NEW c \in Callers, Serve(c) PROVE Good(d)'
  <2> DEFINE tier == Tiers[call[c].at]
  <2>1. PICK results \in Answers(tier) :
            call' = [call EXCEPT ![c].pc = "answered", ![c].results = First(results, LIMIT)]
    BY <1>6 DEF Serve
  <2>2. call[c].at \in DOMAIN Tiers
    BY <1>6, TiersAssumption DEF Serve, IInv, TypeOK
  <2>3. /\ results # <<>> /\ \E S : results \in Seq(S)
        /\ tier = "keyless" => Distinct(results)
    BY <2>1, <2>2, AnswersAre
  <2> DEFINE got == First(results, LIMIT)
  <2>4. /\ got # <<>> /\ Len(got) <= LIMIT
        /\ \A i \in DOMAIN got : i \in DOMAIN results /\ got[i] = results[i]
    BY <2>3, FirstIs, LimitAssumption
  <2>5. tier = "keyless" => Distinct(got)
    BY <2>3, <2>4 DEF Distinct
  <2> HIDE DEF got
  <2>6. /\ d = c => call'[d].results = got /\ call'[d].at = call[c].at
        /\ d # c => call'[d] = call[d]
    <3>1. call' = [call EXCEPT ![c].pc = "answered", ![c].results = got]
      BY <2>1 DEF got
    <3> QED
      BY <3>1 DEF IInv, Shaped
  <2> QED
    BY <1>1, <2>4, <2>5, <2>6
<1>7. CASE UNCHANGED vars
  BY <1>1, <1>7 DEF vars
<1> QED
  BY <1>3, <1>4, <1>5, <1>6, <1>7 DEF Next

\* Whatever tier answers a search, its client gets results, no more than it asked for,
\* and a source only once from the tier that merges several (SearchChain.search and the
\* deduplication of KeylessProvider).
THEOREM ResultsAreSound == Spec => []ResultsSound
<1>1. Init => ResultsSound
  BY DEF Init, Idle, ResultsSound
<1>2. IInv /\ ResultsSound /\ [Next]_vars => ResultsSound'
  BY ResultsStep
<1> QED
  BY <1>1, <1>2, InitIInv, Step, PTL DEF Spec

=============================================================================
