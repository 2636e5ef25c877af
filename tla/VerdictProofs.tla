--------------------------- MODULE VerdictProofs ---------------------------
(***************************************************************************)
(* What the scores add up to, proved for any seats, options, evidence and  *)
(* scores: the ranking does not depend on the order in which they came,    *)
(* and the two halves of the counterfactual are true and agree.  The       *)
(* argument: a sum counts points, so it is that of any renaming of what is *)
(* summed; an arrangement gives each element the place that the number of  *)
(* those ahead of it says; hence the ranking is a function of the results, *)
(* and these are functions of the entries of an option.                    *)
(***************************************************************************)
EXTENDS Verdict, FiniteSetTheorems, FunctionTheorems, TLAPS

\* A set of numbers that is not empty has a least.
LEMMA LeastOf ==
    ASSUME NEW S \in SUBSET Nat, S # {}
    PROVE  \E n \in S : \A m \in S : n <= m
<1>1. PICK n \in S : \A m \in S : ~(<<m, n>> \in OpToRel(<, Nat))
  BY NatLessThanWellFounded, WFMin, Zenon
<1>2. \A m \in S : ~(m < n)
  BY <1>1, Zenon DEF OpToRel
<1> QED
  BY <1>2

-----------------------------------------------------------------------------
(* Sums.                                                                   *)

\* A point for every unit of what f gives on S.
Points(f, S) == {p \in S \X Nat : 1 <= p[2] /\ p[2] <= f[p[1]]}

\* The fold that SumFunction stands for.
Folded(f, S) ==
    CHOOSE iter : iter = [s \in SUBSET S |->
        IF s = {} THEN 0 ELSE f[CHOOSE x \in s : TRUE] + iter[s \ {CHOOSE x \in s : TRUE}]]

\* SumFunction, with its layers of operators expanded.
LEMMA SumIsFolded ==
    ASSUME NEW f
    PROVE  SumFunction(f) = Folded(f, DOMAIN f)[DOMAIN f]
BY DEF SumFunction, SumFunctionOnSet, FoldFunctionOnSet, MapThenFoldSet, Folded

\* Finitely many numbers have finitely many points.
LEMMA PointsFinite ==
    ASSUME NEW S, IsFiniteSet(S), NEW f, \A x \in S : f[x] \in Nat
    PROVE  IsFiniteSet(Points(f, S)) /\ Cardinality(Points(f, S)) \in Nat
<1> DEFINE col == [x \in S |-> {x} \X (1..f[x])]
           cols == {col[x] : x \in S}
<1>1. col \in Surjection(S, cols)
  BY Fun_IsSurj DEF Surjection
<1>2. IsFiniteSet(cols)
  BY <1>1, FS_Surjection
<1>3. ASSUME NEW x \in S PROVE IsFiniteSet(col[x])
  <2>1. IsFiniteSet({x})
    BY FS_Singleton
  <2>2. f[x] \in Int /\ 1 \in Int
    OBVIOUS
  <2>3. IsFiniteSet(1..f[x])
    BY <2>2, FS_Interval
  <2>4. IsFiniteSet({x} \X (1..f[x]))
    BY <2>1, <2>3, FS_Product
  <2> QED
    BY <2>4
<1>4. IsFiniteSet(UNION cols)
  BY <1>2, <1>3, FS_UNION
<1>5. Points(f, S) \subseteq UNION cols
  <2> SUFFICES ASSUME NEW p \in Points(f, S) PROVE p \in col[p[1]] /\ p[1] \in S
    OBVIOUS
  <2> QED
    BY DEF Points
<1> QED
  BY <1>4, <1>5, FS_Subset, FS_CardinalityType

\* The points of two sets apart are counted separately.
LEMMA PointsApart ==
    ASSUME NEW A, NEW B, IsFiniteSet(A), IsFiniteSet(B), A \cap B = {},
           NEW f, \A x \in A \cup B : f[x] \in Nat
    PROVE  Cardinality(Points(f, A \cup B)) = Cardinality(Points(f, A)) + Cardinality(Points(f, B))
<1>1. IsFiniteSet(Points(f, A)) /\ IsFiniteSet(Points(f, B))
  BY PointsFinite
<1>2. Points(f, A \cup B) = Points(f, A) \cup Points(f, B)
  BY DEF Points
<1>3. Points(f, A) \cap Points(f, B) = {}
  BY DEF Points
<1>4. Cardinality(Points(f, A)) \in Nat /\ Cardinality(Points(f, B)) \in Nat
  BY PointsFinite
<1>5. Cardinality(Points(f, A) \cup Points(f, B)) =
          Cardinality(Points(f, A)) + Cardinality(Points(f, B))
              - Cardinality(Points(f, A) \cap Points(f, B))
  BY <1>1, FS_Union
<1>6. Cardinality(Points(f, A) \cap Points(f, B)) = 0
  BY <1>3, FS_EmptySet
<1>7. Cardinality(Points(f, A) \cup Points(f, B)) =
          Cardinality(Points(f, A)) + Cardinality(Points(f, B))
  BY <1>4, <1>5, <1>6
<1> QED
  BY <1>2, <1>7, Zenon

\* One element has as many points as its number.
LEMMA PointsOfOne ==
    ASSUME NEW x, NEW f, f[x] \in Nat
    PROVE  Cardinality(Points(f, {x})) = f[x]
<1>1. Points(f, {x}) = {x} \X (1..f[x])
  BY DEF Points
<1>2. IsFiniteSet({x}) /\ Cardinality({x}) = 1
  BY FS_Singleton
<1>3. f[x] \in Int /\ 1 \in Int
  OBVIOUS
<1>4. IsFiniteSet(1..f[x]) /\ Cardinality(1..f[x]) = f[x]
  BY <1>3, FS_Interval
<1>5. Cardinality({x} \X (1..f[x])) = Cardinality({x}) * Cardinality(1..f[x])
  BY <1>2, <1>4, FS_Product
<1>6. Cardinality({x} \X (1..f[x])) = f[x]
  BY <1>2, <1>4, <1>5
<1> QED
  BY <1>1, <1>6, Zenon

\* The fold over a set, by its closed form.
LEMMA FoldedIs ==
    ASSUME NEW S, IsFiniteSet(S), NEW f, \A x \in S : f[x] \in Nat
    PROVE  Folded(f, S)[S] = Cardinality(Points(f, S))
<1> DEFINE one(s) == CHOOSE x \in s : TRUE
           count == [s \in SUBSET S |-> Cardinality(Points(f, s))]
           iter == Folded(f, S)
<1>1. ASSUME NEW s \in SUBSET S, s # {}
      PROVE  /\ one(s) \in s
             /\ s \ {one(s)} \in SUBSET S
             /\ IsFiniteSet(s)
             /\ Cardinality(s) \in Nat
             /\ Cardinality(s \ {one(s)}) \in Nat
             /\ Cardinality(s \ {one(s)}) < Cardinality(s)
             /\ count[s] = f[one(s)] + count[s \ {one(s)}]
  <2>1. one(s) \in s
    BY <1>1
  <2> HIDE DEF one
  <2>2. IsFiniteSet(s) /\ IsFiniteSet({one(s)}) /\ IsFiniteSet(s \ {one(s)})
    BY FS_Subset, FS_Singleton, FS_RemoveElement
  <2>3. Cardinality(s \ {one(s)}) = Cardinality(s) - 1 /\ Cardinality(s) \in Nat
        /\ Cardinality(s \ {one(s)}) \in Nat
    BY <2>1, <2>2, FS_RemoveElement, FS_CardinalityType
  <2>4. s = {one(s)} \cup (s \ {one(s)}) /\ {one(s)} \cap (s \ {one(s)}) = {}
    BY <2>1
  <2>5. f[one(s)] \in Nat /\ \A x \in {one(s)} \cup (s \ {one(s)}) : f[x] \in Nat
    BY <2>1
  <2>6. Cardinality(Points(f, {one(s)} \cup (s \ {one(s)}))) =
            Cardinality(Points(f, {one(s)})) + Cardinality(Points(f, s \ {one(s)}))
    BY <2>2, <2>4, <2>5, PointsApart
  <2>7. Cardinality(Points(f, s)) = f[one(s)] + Cardinality(Points(f, s \ {one(s)}))
    BY <2>4, <2>5, <2>6, PointsOfOne
  <2> QED
    BY <2>1, <2>2, <2>3, <2>7
<1>2. count[{}] = 0
  <2>1. Points(f, {}) = {}
    BY DEF Points
  <2> QED
    BY <2>1, FS_EmptySet
<1>3. count = [s \in SUBSET S |-> IF s = {} THEN 0 ELSE f[one(s)] + count[s \ {one(s)}]]
  <2> SUFFICES ASSUME NEW s \in SUBSET S
               PROVE  count[s] = IF s = {} THEN 0 ELSE f[one(s)] + count[s \ {one(s)}]
    OBVIOUS
  <2> QED
    BY <1>1, <1>2
<1>4. iter = [s \in SUBSET S |-> IF s = {} THEN 0 ELSE f[one(s)] + iter[s \ {one(s)}]]
  <2> HIDE DEF count
  <2> QED
    BY <1>3 DEF Folded
<1> HIDE DEF count, iter, one
<1>5. ASSUME NEW t \in SUBSET S, iter[t] # count[t] PROVE FALSE
  <2> DEFINE wrong == {s \in SUBSET S : iter[s] # count[s]}
             sizes == {Cardinality(s) : s \in wrong}
  <2>1. ASSUME NEW s \in wrong PROVE s # {} /\ s \in SUBSET S /\ iter[s] # count[s]
    <3>1. {} \in SUBSET S /\ iter[{}] = 0
      BY <1>4
    <3> QED
      BY <1>2, <3>1
  <2> HIDE DEF wrong
  <2>2. sizes \in SUBSET Nat /\ sizes # {}
    <3>1. t \in wrong
      BY <1>5 DEF wrong
    <3>2. \A s \in wrong : Cardinality(s) \in Nat
      BY <1>1, <2>1
    <3> QED
      BY <3>1, <3>2
  <2>3. PICK n \in sizes : \A m \in sizes : n <= m
    BY <2>2, LeastOf
  <2>4. PICK s \in wrong : n = Cardinality(s)
    OBVIOUS
  <2>5. s \ {one(s)} \notin wrong
    <3>1. Cardinality(s \ {one(s)}) < Cardinality(s) /\ Cardinality(s \ {one(s)}) \in Nat
          /\ Cardinality(s) \in Nat
      BY <1>1, <2>1
    <3> QED
      BY <2>3, <2>4, <3>1
  <2>6. iter[s \ {one(s)}] = count[s \ {one(s)}]
    BY <1>1, <2>1, <2>5 DEF wrong
  <2>7. iter[s] = f[one(s)] + iter[s \ {one(s)}]
    BY <1>4, <2>1
  <2> QED
    BY <1>1, <2>1, <2>6, <2>7
<1> QED
  BY <1>5 DEF count, iter

\* The sum of finitely many numbers.
LEMMA SumIs ==
    ASSUME NEW S, IsFiniteSet(S), NEW f \in [S -> Nat]
    PROVE  SumFunction(f) = Cardinality(Points(f, S)) /\ SumFunction(f) \in Nat
BY SumIsFolded, FoldedIs, PointsFinite

\* A sum is the same however the numbers are named.
LEMMA SumRenamed ==
    ASSUME NEW S, IsFiniteSet(S), NEW T, NEW h \in Bijection(S, T),
           NEW f \in [S -> Nat], NEW g \in [T -> Nat], \A x \in S : g[h[x]] = f[x]
    PROVE  SumFunction(f) = SumFunction(g)
<1> DEFINE lift == [p \in Points(f, S) |-> <<h[p[1]], p[2]>>]
<1>1. /\ h \in [S -> T]
      /\ \A x, y \in S : h[x] = h[y] => x = y
      /\ \A t \in T : \E x \in S : h[x] = t
  BY DEF Bijection, Injection, Surjection, IsInjective
<1>2. lift \in [Points(f, S) -> Points(g, T)]
  BY <1>1 DEF Points
<1>3. ASSUME NEW p \in Points(f, S), NEW q \in Points(f, S), lift[p] = lift[q] PROVE p = q
  BY <1>1, <1>3 DEF Points
<1>4. ASSUME NEW q \in Points(g, T) PROVE \E p \in Points(f, S) : lift[p] = q
  <2>1. q = <<q[1], q[2]>> /\ q[1] \in T /\ q[2] \in Nat /\ 1 <= q[2] /\ q[2] <= g[q[1]]
    BY DEF Points
  <2>2. PICK x \in S : h[x] = q[1]
    BY <1>1, <2>1
  <2>3. <<x, q[2]>> \in Points(f, S)
    BY <2>1, <2>2 DEF Points
  <2> QED
    BY <2>1, <2>2, <2>3
<1>5. lift \in Bijection(Points(f, S), Points(g, T))
  BY <1>2, <1>3, <1>4, Fun_IsBij
<1>6. IsFiniteSet(Points(f, S)) /\ IsFiniteSet(T)
  BY PointsFinite, FS_Bijection DEF ExistsBijection
<1>7. Cardinality(Points(g, T)) = Cardinality(Points(f, S))
  BY <1>5, <1>6, FS_Bijection DEF ExistsBijection
<1> QED
  BY <1>6, <1>7, SumIs

\* A sum is that over some of the elements and that over the others.
LEMMA SumSplit ==
    ASSUME NEW S, IsFiniteSet(S), NEW A \in SUBSET S, NEW f \in [S -> Nat]
    PROVE  SumFunction(f) = SumFunction([x \in A |-> f[x]]) + SumFunction([x \in S \ A |-> f[x]])
<1>1. IsFiniteSet(A) /\ IsFiniteSet(S \ A) /\ A \cap (S \ A) = {} /\ A \cup (S \ A) = S
  BY FS_Subset, FS_Difference
<1>2. /\ Points([x \in A |-> f[x]], A) = Points(f, A)
      /\ Points([x \in S \ A |-> f[x]], S \ A) = Points(f, S \ A)
  BY DEF Points
<1>3. Cardinality(Points(f, S)) = Cardinality(Points(f, A)) + Cardinality(Points(f, S \ A))
  BY <1>1, PointsApart
<1> QED
  BY <1>1, <1>2, <1>3, SumIs

-----------------------------------------------------------------------------
(* Arrangements.                                                           *)

\* ahead[x] are the elements before x in a strict total order of S.
Ordered(S, ahead) ==
    /\ \A x \in S : ahead[x] \subseteq S /\ x \notin ahead[x]
    /\ \A x, y \in S : x # y => x \in ahead[y] \/ y \in ahead[x]
    /\ \A x, y \in S : x \in ahead[y] => ahead[x] \subseteq ahead[y]

\* Each number of elements before it, from none to all others, has one element.
LEMMA Places ==
    ASSUME NEW S, IsFiniteSet(S), NEW ahead, Ordered(S, ahead)
    PROVE  /\ Cardinality(S) \in Nat
           /\ \A x \in S : Cardinality(ahead[x]) \in 0..(Cardinality(S) - 1)
           /\ \A x, y \in S : x \in ahead[y] <=> Cardinality(ahead[x]) < Cardinality(ahead[y])
           /\ \A n \in 1..Cardinality(S) : \E x \in S : Cardinality(ahead[x]) = n - 1
<1>1. Cardinality(S) \in Nat
  BY FS_CardinalityType
<1>2. ASSUME NEW x \in S
      PROVE  /\ IsFiniteSet(ahead[x])
             /\ Cardinality(ahead[x]) \in Nat
             /\ Cardinality(ahead[x]) < Cardinality(S)
  <2>1. ahead[x] \in SUBSET S /\ ahead[x] # S
    BY DEF Ordered
  <2>2. IsFiniteSet(ahead[x]) /\ Cardinality(ahead[x]) <= Cardinality(S)
        /\ Cardinality(ahead[x]) # Cardinality(S)
    BY <2>1, FS_Subset
  <2>3. Cardinality(ahead[x]) \in Nat
    BY <2>2, FS_CardinalityType
  <2> QED
    BY <1>1, <2>2, <2>3
<1>3. ASSUME NEW x \in S, NEW y \in S, x \in ahead[y]
      PROVE  Cardinality(ahead[x]) < Cardinality(ahead[y])
  <2>1. ahead[x] \in SUBSET ahead[y] /\ ahead[x] # ahead[y]
    BY <1>3 DEF Ordered
  <2>2. Cardinality(ahead[x]) <= Cardinality(ahead[y])
        /\ Cardinality(ahead[x]) # Cardinality(ahead[y])
    BY <1>2, <2>1, FS_Subset
  <2> QED
    BY <1>2, <2>2
<1>4. ASSUME NEW x \in S, NEW y \in S, x # y
      PROVE  Cardinality(ahead[x]) # Cardinality(ahead[y])
  <2>1. x \in ahead[y] \/ y \in ahead[x]
    BY <1>4 DEF Ordered
  <2> QED
    BY <1>2, <1>3, <2>1
<1>5. ASSUME NEW x \in S, NEW y \in S, Cardinality(ahead[x]) < Cardinality(ahead[y])
      PROVE  x \in ahead[y]
  <2>1. x # y
    BY <1>2, <1>5
  <2>2. x \in ahead[y] \/ y \in ahead[x]
    BY <2>1 DEF Ordered
  <2> QED
    BY <1>2, <1>3, <1>5, <2>2
<1>6. \A n \in 1..Cardinality(S) : \E x \in S : Cardinality(ahead[x]) = n - 1
  <2> DEFINE place == [x \in S |-> Cardinality(ahead[x]) + 1]
  <2>1. place \in [S -> 1..Cardinality(S)]
    BY <1>1, <1>2
  <2>2. \A x, y \in S : place[x] = place[y] => x = y
    BY <1>2, <1>4
  <2>3. place \in Injection(S, 1..Cardinality(S))
    BY <2>1, <2>2, Fun_IsInj
  <2>4. 1 \in Int /\ Cardinality(S) \in Int
    BY <1>1
  <2>5. IsFiniteSet(1..Cardinality(S)) /\ Cardinality(1..Cardinality(S)) = Cardinality(S)
    BY <1>1, <2>4, FS_Interval
  <2>6. place \in Surjection(S, 1..Cardinality(S))
    <3> HIDE DEF place
    <3> QED
      BY <2>3, <2>5, FS_Injection
  <2>7. \A n \in 1..Cardinality(S) : \E x \in S : place[x] = n
    BY <2>6 DEF Surjection
  <2> QED
    BY <1>2, <2>7
<1> QED
  BY <1>1, <1>2, <1>3, <1>5, <1>6

\* Arranged puts each element in one place, in the order.
LEMMA ArrangedIs ==
    ASSUME NEW S, IsFiniteSet(S), NEW ahead, Ordered(S, ahead)
    PROVE  LET list == Arranged(S, ahead) IN
           /\ Cardinality(S) \in Nat
           /\ list \in [1..Cardinality(S) -> S]
           /\ \A n \in 1..Cardinality(S) : Cardinality(ahead[list[n]]) = n - 1
           /\ \A x \in S : Cardinality(ahead[x]) + 1 \in 1..Cardinality(S)
                           /\ list[Cardinality(ahead[x]) + 1] = x
           /\ \A m, n \in 1..Cardinality(S) : list[m] \in ahead[list[n]] <=> m < n
<1> DEFINE list == Arranged(S, ahead)
<1>1. Cardinality(S) \in Nat
  BY Places
<1>2. list = [n \in 1..Cardinality(S) |-> CHOOSE x \in S : Cardinality(ahead[x]) = n - 1]
  BY DEF Arranged
<1> HIDE DEF list
<1>3. ASSUME NEW n \in 1..Cardinality(S)
      PROVE  list[n] \in S /\ Cardinality(ahead[list[n]]) = n - 1
  <2>1. \E x \in S : Cardinality(ahead[x]) = n - 1
    BY Places
  <2> QED
    BY <1>2, <2>1
<1>4. ASSUME NEW x \in S
      PROVE  Cardinality(ahead[x]) + 1 \in 1..Cardinality(S)
             /\ list[Cardinality(ahead[x]) + 1] = x
  <2> DEFINE n == Cardinality(ahead[x]) + 1
  <2>1. n \in 1..Cardinality(S) /\ n - 1 = Cardinality(ahead[x])
    BY <1>1, Places
  <2>2. list[n] \in S /\ Cardinality(ahead[list[n]]) = Cardinality(ahead[x])
    BY <1>3, <2>1
  <2>3. ~(list[n] \in ahead[x]) /\ ~(x \in ahead[list[n]])
    BY <2>2, Places
  <2>4. list[n] = x
    BY <2>2, <2>3 DEF Ordered
  <2> QED
    BY <2>1, <2>4
<1>5. ASSUME NEW m \in 1..Cardinality(S), NEW n \in 1..Cardinality(S)
      PROVE  list[m] \in ahead[list[n]] <=> m < n
  <2>1. list[m] \in ahead[list[n]] <=> m - 1 < n - 1
    BY <1>3, Places
  <2> QED
    BY <1>1, <2>1
<1>6. list \in [1..Cardinality(S) -> S]
  BY <1>2, <1>3
<1> QED
  BY <1>1, <1>3, <1>4, <1>5, <1>6 DEF list

\* An arrangement is the same however the elements are named.
LEMMA ArrangedRenamed ==
    ASSUME NEW S, IsFiniteSet(S), NEW ahead, Ordered(S, ahead),
           NEW T, NEW after, Ordered(T, after),
           NEW h \in Bijection(S, T),
           \A x, y \in S : x \in ahead[y] <=> h[x] \in after[h[y]]
    PROVE  /\ IsFiniteSet(T) /\ Cardinality(T) = Cardinality(S)
           /\ \A n \in 1..Cardinality(S) : Arranged(T, after)[n] = h[Arranged(S, ahead)[n]]
<1>1. /\ h \in [S -> T]
      /\ \A x, y \in S : h[x] = h[y] => x = y
      /\ \A t \in T : \E x \in S : h[x] = t
  BY DEF Bijection, Injection, Surjection, IsInjective
<1>2. IsFiniteSet(T) /\ Cardinality(T) = Cardinality(S)
  BY FS_Bijection DEF ExistsBijection
<1>3. ASSUME NEW x \in S PROVE Cardinality(after[h[x]]) = Cardinality(ahead[x])
  <2> DEFINE part == [y \in ahead[x] |-> h[y]]
  <2>1. ahead[x] \in SUBSET S /\ after[h[x]] \subseteq T
    BY <1>1 DEF Ordered
  <2>2. part \in [ahead[x] -> after[h[x]]]
    BY <2>1
  <2>3. \A y, z \in ahead[x] : part[y] = part[z] => y = z
    BY <1>1, <2>1
  <2>4. \A t \in after[h[x]] : \E y \in ahead[x] : part[y] = t
    BY <1>1, <2>1
  <2>5. part \in Bijection(ahead[x], after[h[x]])
    BY <2>2, <2>3, <2>4, Fun_IsBij
  <2>6. IsFiniteSet(ahead[x])
    BY <2>1, FS_Subset
  <2> QED
    BY <2>5, <2>6, FS_Bijection DEF ExistsBijection
<1>4. ASSUME NEW n \in 1..Cardinality(S)
      PROVE  Arranged(T, after)[n] = h[Arranged(S, ahead)[n]]
  <2> DEFINE x == Arranged(S, ahead)[n]
  <2>1. x \in S /\ Cardinality(ahead[x]) = n - 1 /\ Cardinality(S) \in Nat
    BY ArrangedIs
  <2>2. h[x] \in T /\ Cardinality(after[h[x]]) = n - 1
    BY <1>1, <1>3, <2>1
  <2>3. Arranged(T, after)[Cardinality(after[h[x]]) + 1] = h[x]
    BY <1>2, <2>2, ArrangedIs
  <2>4. (n - 1) + 1 = n
    BY <2>1
  <2> QED
    BY <2>2, <2>3, <2>4
<1> QED
  BY <1>2, <1>4

-----------------------------------------------------------------------------
(* What one table of scores adds up to.                                    *)

\* A table that the seats can have filled: lists of scores, none longer than the
\* list of options.
Fits(table) ==
    /\ table \in [Seats -> Seq(Score)]
    /\ \A s \in Seats : Len(table[s]) <= Cardinality(Options)

\* The options that somebody scored.
Scored(table) == {o \in Options : Entries(table, o) # {}}

\* There are finitely many seats, and there is one.
LEMMA SeatsFinite == IsFiniteSet(Seats) /\ Seats # {}
<1>1. Seating \in Seq(STRING) /\ Len(Seating) > 0
  BY SeatingAssumption
<1>2. Len(Seating) \in Nat /\ DOMAIN Seating = 1..Len(Seating)
  BY <1>1
<1>3. Seating \in Surjection(1..Len(Seating), Seats)
  <2>1. Seating \in [1..Len(Seating) -> Seats]
    BY <1>1, <1>2 DEF Seats
  <2>2. \A s \in Seats : \E k \in 1..Len(Seating) : Seating[k] = s
    BY <1>2 DEF Seats
  <2> QED
    BY <2>1, <2>2, Fun_IsSurj
<1>4. 1 \in Int /\ Len(Seating) \in Int
  BY <1>2
<1>5. IsFiniteSet(1..Len(Seating))
  BY <1>4, FS_Interval
<1>6. Seating[1] \in Seats
  BY <1>1, <1>2 DEF Seats
<1> QED
  BY <1>3, <1>5, <1>6, FS_Surjection

\* There are finitely many options.
LEMMA OptionsCounted == Cardinality(Options) \in Nat
BY OptionsAssumption, FS_CardinalityType

\* What is summed are numbers.
LEMMA ScoreFields ==
    ASSUME NEW x \in Score
    PROVE  /\ x.option \in Options
           /\ x.total \in Nat /\ x.total > 0
           /\ x.confidence \in Nat
           /\ x.depends_on \subseteq EvidenceIds /\ x.depends_on # {}
<1>1. /\ x.option \in Options /\ x.total \in Totals /\ x.confidence \in Confidences
      /\ x.depends_on \in (SUBSET EvidenceIds) \ {{}}
  BY DEF Score
<1> DEFINE total == x.total
           confidence == x.confidence
           leant == x.depends_on
<1>2. total \in Totals /\ confidence \in Confidences /\ leant \in (SUBSET EvidenceIds) \ {{}}
  BY <1>1
<1> HIDE DEF total, confidence, leant
<1>3. total \in 3..15 /\ confidence \in 0..10000
  BY <1>2, TotalsAssumption, ConfidencesAssumption
<1>4. total \in Nat /\ total > 0 /\ confidence \in Nat
  BY <1>3
<1>5. leant \subseteq EvidenceIds /\ leant # {}
  BY <1>2
<1> QED
  BY <1>1, <1>4, <1>5 DEF total, confidence, leant

\* The entries of an option, without the union.
LEMMA EntriesAre ==
    ASSUME NEW table, Fits(table), NEW o
    PROVE  /\ Entries(table, o) = {e \in Seats \X (1..Cardinality(Options)) :
                                      /\ e[2] \in DOMAIN table[e[1]]
                                      /\ table[e[1]][e[2]].option = o}
           /\ IsFiniteSet(Entries(table, o))
           /\ \A e \in Entries(table, o) :
                 /\ table[e[1]][e[2]] \in Score
                 /\ table[e[1]][e[2]].total \in Nat
                 /\ table[e[1]][e[2]].total > 0
                 /\ table[e[1]][e[2]].confidence \in Nat
<1> DEFINE flat == {e \in Seats \X (1..Cardinality(Options)) :
                       /\ e[2] \in DOMAIN table[e[1]]
                       /\ table[e[1]][e[2]].option = o}
<1>1. /\ DOMAIN table = Seats
      /\ \A s \in Seats : /\ table[s] \in Seq(Score)
                          /\ Len(table[s]) \in Nat
                          /\ DOMAIN table[s] = 1..Len(table[s])
                          /\ 1..Len(table[s]) \subseteq 1..Cardinality(Options)
  BY OptionsCounted DEF Fits
<1>2. Entries(table, o) = flat
  <2>1. ASSUME NEW e \in Entries(table, o) PROVE e \in flat
    <3>1. PICK s \in DOMAIN table :
              e \in {s} \X {i \in DOMAIN table[s] : table[s][i].option = o}
      BY DEF Entries
    <3>2. e = <<s, e[2]>> /\ e[2] \in DOMAIN table[s] /\ table[s][e[2]].option = o
      BY <3>1
    <3> QED
      BY <1>1, <3>2
  <2>2. ASSUME NEW e \in flat PROVE e \in Entries(table, o)
    <3>1. /\ e = <<e[1], e[2]>> /\ e[1] \in DOMAIN table
          /\ e \in {e[1]} \X {i \in DOMAIN table[e[1]] : table[e[1]][i].option = o}
      BY <1>1
    <3> QED
      BY <3>1 DEF Entries
  <2> QED
    BY <2>1, <2>2
<1>3. IsFiniteSet(flat)
  <2>1. 1 \in Int /\ Cardinality(Options) \in Int
    BY OptionsCounted
  <2>2. IsFiniteSet(1..Cardinality(Options))
    BY <2>1, FS_Interval
  <2>3. IsFiniteSet(Seats \X (1..Cardinality(Options)))
    BY <2>2, SeatsFinite, FS_Product
  <2> QED
    BY <2>3, FS_Subset
<1>4. ASSUME NEW e \in flat
      PROVE  /\ table[e[1]][e[2]] \in Score
             /\ table[e[1]][e[2]].total \in Nat
             /\ table[e[1]][e[2]].total > 0
             /\ table[e[1]][e[2]].confidence \in Nat
  <2>1. table[e[1]][e[2]] \in Score
    BY <1>1
  <2> QED
    BY <2>1, ScoreFields
<1> QED
  BY <1>2, <1>3, <1>4

\* A result of the aggregate: sums of numbers.
LEMMA ResultIs ==
    ASSUME NEW table, Fits(table), NEW o \in Scored(table)
    PROVE  LET r == Result(table, o) IN
           /\ r.option = o /\ o \in Nat
           /\ r.total = SumFunction([e \in Entries(table, o) |-> table[e[1]][e[2]].total])
           /\ r.mean_confidence =
                 Mean(SumFunction([e \in Entries(table, o) |-> table[e[1]][e[2]].confidence]),
                      Cardinality(Entries(table, o)))
           /\ r.supporters = {e[1] : e \in Entries(table, o)}
           /\ r.total \in Nat /\ r.mean_confidence \in Int
<1> DEFINE entries == Entries(table, o)
           totals == [e \in entries |-> table[e[1]][e[2]].total]
           sure == [e \in entries |-> table[e[1]][e[2]].confidence]
<1>1. IsFiniteSet(entries) /\ totals \in [entries -> Nat] /\ sure \in [entries -> Nat]
  BY EntriesAre
<1>2. SumFunction(totals) \in Nat /\ SumFunction(sure) \in Nat
  <2> HIDE DEF totals, sure, entries
  <2> QED
    BY <1>1, SumIs
<1>3. Cardinality(entries) \in Nat /\ Cardinality(entries) # 0
  <2>1. entries # {}
    BY DEF Scored
  <2> QED
    BY <1>1, <2>1, FS_CardinalityType, FS_EmptySet
<1>4. Mean(SumFunction(sure), Cardinality(entries)) \in Int
  <2> DEFINE a == SumFunction(sure)
             b == Cardinality(entries)
  <2>1. a \in Nat /\ b \in Nat /\ b # 0
    BY <1>2, <1>3
  <2> HIDE DEF a, b
  <2>2. a \div b \in Int /\ a \div b + 1 \in Int
    BY <2>1
  <2>3. Mean(a, b) \in {a \div b, a \div b + 1}
    BY DEF Mean
  <2> QED
    BY <2>2, <2>3 DEF a, b
<1>5. o \in Nat
  BY OptionsAssumption DEF Scored
<1> QED
  BY <1>2, <1>4, <1>5 DEF Result

\* The sort key orders results of different options strictly.
LEMMA KeyOrder ==
    ASSUME NEW a, NEW b, NEW c,
           \A r \in {a, b, c} : r.total \in Int /\ r.mean_confidence \in Int /\ r.option \in Int
    PROVE  /\ ~KeyLess(a, a)
           /\ KeyLess(a, b) => ~KeyLess(b, a)
           /\ KeyLess(a, b) /\ KeyLess(b, c) => KeyLess(a, c)
           /\ a.option # b.option => KeyLess(a, b) \/ KeyLess(b, a)
BY DEF KeyLess

\* The options that beat each option.
Better(table) ==
    [o \in Scored(table) |->
        {p \in Scored(table) : KeyLess(Result(table, p), Result(table, o))}]

\* No two options tie: the name is the last part of the key.
LEMMA BetterOrders ==
    ASSUME NEW table, Fits(table)
    PROVE  Ordered(Scored(table), Better(table)) /\ IsFiniteSet(Scored(table))
<1>1. \A o \in Scored(table) : LET r == Result(table, o) IN
          r.total \in Int /\ r.mean_confidence \in Int /\ r.option \in Int /\ r.option = o
  <2> SUFFICES ASSUME NEW o \in Scored(table)
               PROVE  LET r == Result(table, o) IN
                      r.total \in Int /\ r.mean_confidence \in Int /\ r.option \in Int
                      /\ r.option = o
    OBVIOUS
  <2> DEFINE r == Result(table, o)
  <2>1. r.option = o /\ o \in Nat /\ r.total \in Nat /\ r.mean_confidence \in Int
    BY ResultIs
  <2> HIDE DEF r
  <2>2. r.total \in Int /\ r.mean_confidence \in Int /\ r.option \in Int /\ r.option = o
    BY <2>1
  <2> QED
    BY <2>2 DEF r
<1>2. \A o, p, q \in Scored(table) :
          LET a == Result(table, o)
              b == Result(table, p)
              c == Result(table, q) IN
          /\ ~KeyLess(a, a)
          /\ KeyLess(a, b) => ~KeyLess(b, a)
          /\ KeyLess(a, b) /\ KeyLess(b, c) => KeyLess(a, c)
          /\ o # p => KeyLess(a, b) \/ KeyLess(b, a)
  BY <1>1, KeyOrder
<1>3. IsFiniteSet(Scored(table))
  BY OptionsAssumption, FS_Subset DEF Scored
<1> QED
  BY <1>2, <1>3 DEF Ordered, Better

\* An order in which the seats may come.
Visits(order) == order \in Seq(Seats) /\ \A s \in Seats : \E k \in DOMAIN order : order[k] = s

\* Wherever the visit starts, it meets every option that is scored, and once.
LEMMA MetIs ==
    ASSUME NEW table, Fits(table), NEW order, Visits(order)
    PROVE  Met(table, order) \in Bijection(1..Cardinality(Scored(table)), Scored(table))
<1> DEFINE places == {p \in (DOMAIN order) \X (1..Cardinality(Options)) :
                          p[2] \in DOMAIN table[order[p[1]]]}
           At(p) == table[order[p[1]]][p[2]].option
           Sooner(p, q) == p[1] < q[1] \/ (p[1] = q[1] /\ p[2] < q[2])
           first == {p \in places : \A q \in places : At(q) = At(p) => ~Sooner(q, p)}
           Ahead(set) == [p \in set |-> {q \in set : Sooner(q, p)}]
           inOrder == Arranged(first, Ahead(first))
<1>1. Met(table, order) = [n \in DOMAIN inOrder |-> At(inOrder[n])]
  BY DEF Met
<1>2. /\ Len(order) \in Nat /\ DOMAIN order = 1..Len(order)
      /\ \A k \in DOMAIN order : order[k] \in Seats
      /\ \A s \in Seats : \E k \in DOMAIN order : order[k] = s
  BY DEF Visits
<1>3. IsFiniteSet(places)
  <2>1. 1 \in Int /\ Len(order) \in Int /\ Cardinality(Options) \in Int
    BY <1>2, OptionsCounted
  <2>2. IsFiniteSet(DOMAIN order) /\ IsFiniteSet(1..Cardinality(Options))
    BY <1>2, <2>1, FS_Interval
  <2>3. IsFiniteSet((DOMAIN order) \X (1..Cardinality(Options)))
    BY <2>2, FS_Product
  <2> QED
    BY <2>3, FS_Subset
<1>4. \A p \in places : p = <<p[1], p[2]>> /\ p[1] \in Nat /\ p[2] \in Nat
  BY <1>2
<1>5. ASSUME NEW set \in SUBSET places
      PROVE  IsFiniteSet(set) /\ Ordered(set, Ahead(set))
  <2>1. IsFiniteSet(set)
    BY <1>3, FS_Subset
  <2>2. \A p, q, r \in set : /\ ~Sooner(p, p)
                             /\ p # q => Sooner(p, q) \/ Sooner(q, p)
                             /\ Sooner(p, q) /\ Sooner(q, r) => Sooner(p, r)
    BY <1>4
  <2> HIDE DEF Sooner, places
  <2> QED
    BY <2>1, <2>2 DEF Ordered
<1>6. ASSUME NEW p \in places PROVE At(p) \in Scored(table)
  <2>1. /\ order[p[1]] \in Seats /\ p[2] \in 1..Cardinality(Options)
        /\ p[2] \in DOMAIN table[order[p[1]]]
    BY <1>2
  <2>2. <<order[p[1]], p[2]>> \in Entries(table, At(p))
    <3> HIDE DEF places
    <3> QED
      BY <2>1, EntriesAre
  <2>3. table[order[p[1]]][p[2]] \in Score
    BY <2>1 DEF Fits
  <2>4. At(p) \in Options
    BY <2>3, ScoreFields
  <2> QED
    BY <2>2, <2>4 DEF Scored
<1>7. ASSUME NEW o \in Scored(table) PROVE \E p \in first : At(p) = o
  <2> DEFINE mine == {p \in places : At(p) = o}
  <2>1. mine # {}
    <3>1. PICK e \in Entries(table, o) : TRUE
      BY DEF Scored
    <3>2. /\ e[1] \in Seats /\ e[2] \in 1..Cardinality(Options)
          /\ e[2] \in DOMAIN table[e[1]] /\ table[e[1]][e[2]].option = o
      BY <3>1, EntriesAre
    <3>3. PICK k \in DOMAIN order : order[k] = e[1]
      BY <1>2, <3>2
    <3>4. <<k, e[2]>> \in places /\ At(<<k, e[2]>>) = o
      BY <3>2, <3>3
    <3> QED
      BY <3>4
  <2>2. mine \in SUBSET places
    OBVIOUS
  <2>3. IsFiniteSet(mine) /\ Ordered(mine, Ahead(mine))
    BY <1>5, <2>2
  <2> DEFINE p == Arranged(mine, Ahead(mine))[1]
  <2>4. p \in mine /\ Cardinality(Ahead(mine)[p]) = 0
    <3>1. Cardinality(mine) \in Nat /\ Cardinality(mine) # 0
      BY <2>1, <2>3, FS_CardinalityType, FS_EmptySet
    <3>2. 1 \in 1..Cardinality(mine) /\ 1 - 1 = 0
      BY <3>1
    <3> HIDE DEF mine, Ahead
    <3> QED
      BY <2>3, <3>2, ArrangedIs
  <2>5. Ahead(mine)[p] = {}
    <3>1. Ahead(mine)[p] \in SUBSET mine
      BY <2>4
    <3>2. IsFiniteSet(Ahead(mine)[p])
      BY <2>3, <3>1, FS_Subset
    <3> HIDE DEF Ahead, mine, p
    <3> QED
      BY <2>4, <3>2, FS_EmptySet
  <2> HIDE DEF p
  <2>6. \A q \in mine : ~Sooner(q, p)
    BY <2>4, <2>5
  <2>7. p \in first /\ At(p) = o
    BY <2>4, <2>6
  <2> QED
    BY <2>7
<1> HIDE DEF places
<1> DEFINE at == [p \in first |-> At(p)]
<1>8. at \in Bijection(first, Scored(table))
  <2>1. at \in [first -> Scored(table)]
    BY <1>6
  <2>2. \A p, q \in first : at[p] = at[q] => p = q
    <3>1. \A p, q \in first : p # q => Sooner(p, q) \/ Sooner(q, p)
      BY <1>4
    <3> QED
      BY <3>1
  <2>3. \A o \in Scored(table) : \E p \in first : at[p] = o
    BY <1>7
  <2> QED
    BY <2>1, <2>2, <2>3, Fun_IsBij
<1>9. IsFiniteSet(first) /\ Ordered(first, Ahead(first))
  <2>1. first \in SUBSET places
    OBVIOUS
  <2> QED
    BY <1>5, <2>1
<1>10. Cardinality(Scored(table)) = Cardinality(first)
  BY <1>8, <1>9, FS_Bijection DEF ExistsBijection
<1>11. /\ inOrder \in [1..Cardinality(first) -> first] /\ Cardinality(first) \in Nat
       /\ \A m, n \in 1..Cardinality(first) : inOrder[m] = inOrder[n] => m = n
       /\ \A p \in first : \E n \in 1..Cardinality(first) : inOrder[n] = p
  <2> HIDE DEF first, Ahead
  <2>1. /\ inOrder \in [1..Cardinality(first) -> first] /\ Cardinality(first) \in Nat
        /\ \A n \in 1..Cardinality(first) : Cardinality(Ahead(first)[inOrder[n]]) = n - 1
        /\ \A p \in first : \E n \in 1..Cardinality(first) : inOrder[n] = p
    BY <1>9, ArrangedIs
  <2> HIDE DEF inOrder
  <2>2. \A m, n \in 1..Cardinality(first) : inOrder[m] = inOrder[n] => m - 1 = n - 1
    BY <2>1
  <2> QED
    BY <2>1, <2>2
<1> DEFINE met == Met(table, order)
<1>12. met = [n \in 1..Cardinality(first) |-> at[inOrder[n]]]
  BY <1>1, <1>11
<1>13. /\ at \in [first -> Scored(table)]
       /\ \A p, q \in first : at[p] = at[q] => p = q
       /\ \A o \in Scored(table) : \E p \in first : at[p] = o
  BY <1>8 DEF Bijection, Injection, Surjection, IsInjective
<1> HIDE DEF at, inOrder, first, met
<1>14. /\ met \in [1..Cardinality(first) -> Scored(table)]
       /\ \A m, n \in 1..Cardinality(first) : met[m] = met[n] => m = n
       /\ \A o \in Scored(table) : \E n \in 1..Cardinality(first) : met[n] = o
  BY <1>11, <1>12, <1>13
<1>15. met \in Bijection(1..Cardinality(first), Scored(table))
  BY <1>14, Fun_IsBij
<1> QED
  BY <1>10, <1>15 DEF met

\* The ranking puts the options that are scored in the order of the sort key, and
\* depends on nothing else.
LEMMA RankingIs ==
    ASSUME NEW table, Fits(table), NEW order, Visits(order)
    PROVE  Ranking(table, order) =
              [n \in 1..Cardinality(Scored(table)) |->
                  Result(table, Arranged(Scored(table), Better(table))[n])]
<1> DEFINE met == Met(table, order)
           results == {[place |-> n, of |-> Result(table, met[n])] : n \in DOMAIN met}
           Before(r, q) == \/ KeyLess(r.of, q.of)
                           \/ ~KeyLess(q.of, r.of) /\ r.place < q.place
           ahead == [q \in results |-> {r \in results : Before(r, q)}]
           sorted == Arranged(results, ahead)
           size == Cardinality(Scored(table))
           h == [r \in results |-> met[r.place]]
<1>1. Ranking(table, order) = [n \in DOMAIN sorted |-> sorted[n].of]
  BY DEF Ranking
<1>2. met \in Bijection(1..size, Scored(table))
  BY MetIs
<1>3. /\ met \in [1..size -> Scored(table)] /\ DOMAIN met = 1..size
      /\ \A m, n \in 1..size : met[m] = met[n] => m = n
      /\ \A o \in Scored(table) : \E n \in 1..size : met[n] = o
  BY <1>2 DEF Bijection, Injection, Surjection, IsInjective
<1>4. Ordered(Scored(table), Better(table)) /\ IsFiniteSet(Scored(table))
  BY BetterOrders
<1>5. size \in Nat
  BY <1>4, FS_CardinalityType
<1> HIDE DEF met, size
<1>6. \A r \in results : /\ r.place \in 1..size /\ r.of = Result(table, met[r.place])
                         /\ r = [place |-> r.place, of |-> r.of]
                         /\ met[r.place] \in Scored(table)
  BY <1>3
<1>7. h \in Bijection(results, Scored(table))
  <2>1. h \in [results -> Scored(table)]
    BY <1>6
  <2>2. \A r, q \in results : h[r] = h[q] => r = q
    <3> SUFFICES ASSUME NEW r \in results, NEW q \in results, h[r] = h[q] PROVE r = q
      OBVIOUS
    <3>1. r.place = q.place
      BY <1>3, <1>6
    <3>2. r.of = q.of
      BY <1>6, <3>1
    <3>3. r = [place |-> r.place, of |-> r.of] /\ q = [place |-> q.place, of |-> q.of]
      BY <1>6
    <3> HIDE DEF results, h
    <3> QED
      BY <3>1, <3>2, <3>3
  <2>3. \A o \in Scored(table) : \E r \in results : h[r] = o
    <3> SUFFICES ASSUME NEW o \in Scored(table) PROVE \E r \in results : h[r] = o
      OBVIOUS
    <3>1. PICK n \in 1..size : met[n] = o
      BY <1>3
    <3> DEFINE r == [place |-> n, of |-> Result(table, met[n])]
    <3>2. r \in results /\ r.place = n
      BY <1>3
    <3> QED
      BY <3>1, <3>2
  <2> HIDE DEF h
  <2> QED
    BY <2>1, <2>2, <2>3, Fun_IsBij
<1>8. h \in [results -> Scored(table)] /\ \A r, q \in results : h[r] = h[q] => r = q
  BY <1>7 DEF Bijection, Injection, IsInjective
<1>9. IsFiniteSet(results) /\ Cardinality(results) = size
  <2>1. ExistsBijection(results, Scored(table))
    BY <1>7 DEF ExistsBijection
  <2>2. ExistsBijection(Scored(table), results)
    BY <2>1, Fun_ExistsBijSymmetric
  <2> HIDE DEF results
  <2> QED
    BY <1>4, <2>2, FS_Bijection DEF size
<1>10. \A r \in results : h[r] = met[r.place] /\ r.of = Result(table, h[r])
  BY <1>6
<1> HIDE DEF h
<1>11. ASSUME NEW r \in results, NEW q \in results
       PROVE  r \in ahead[q] <=> h[r] \in Better(table)[h[q]]
  <2>1. h[r] \in Scored(table) /\ h[q] \in Scored(table)
    BY <1>8
  <2>2. h[r] \in Better(table)[h[q]] <=> KeyLess(r.of, q.of)
    BY <1>10, <2>1 DEF Better
  <2>3. h[q] \in Better(table)[h[r]] <=> KeyLess(q.of, r.of)
    BY <1>10, <2>1 DEF Better
  <2>4. r \in ahead[q] <=> Before(r, q)
    OBVIOUS
  <2>5. r.place \in Nat /\ q.place \in Nat
    BY <1>5, <1>6
  <2> HIDE DEF results, ahead
  <2>6. r # q => h[r] # h[q]
    BY <1>8
  <2>7. ~(h[r] \in Better(table)[h[r]])
    BY <1>4, <2>1 DEF Ordered
  <2>8. r # q => h[r] \in Better(table)[h[q]] \/ h[q] \in Better(table)[h[r]]
    BY <1>4, <2>1, <2>6 DEF Ordered
  <2>9. r = q => ~(r.place < q.place)
    BY <2>5
  <2>10. h[r] \in Better(table)[h[q]] => ~(h[q] \in Better(table)[h[r]])
    BY <1>4, <2>1 DEF Ordered
  <2> QED
    BY <2>2, <2>3, <2>4, <2>7, <2>8, <2>9, <2>10
<1>12. ahead \in [results -> SUBSET results]
  OBVIOUS
<1> HIDE DEF ahead, results
<1>13. Ordered(results, ahead)
  <2>1. \A r \in results : r \notin ahead[r]
    BY <1>4, <1>8, <1>11 DEF Ordered
  <2>2. \A r, q \in results : r # q => r \in ahead[q] \/ q \in ahead[r]
    BY <1>4, <1>8, <1>11 DEF Ordered
  <2>3. \A r, q \in results : r \in ahead[q] => ahead[r] \subseteq ahead[q]
    <3> SUFFICES ASSUME NEW r \in results, NEW q \in results, r \in ahead[q], NEW p \in ahead[r]
                 PROVE  p \in ahead[q]
      OBVIOUS
    <3>1. p \in results
      BY <1>12
    <3>2. h[p] \in Better(table)[h[r]] /\ h[r] \in Better(table)[h[q]]
      BY <1>11, <3>1
    <3>3. h[p] \in Better(table)[h[q]]
      BY <1>4, <1>8, <3>1, <3>2 DEF Ordered
    <3> QED
      BY <1>11, <3>1, <3>3
  <2> QED
    BY <1>12, <2>1, <2>2, <2>3 DEF Ordered
<1>14. \A n \in 1..size : Arranged(Scored(table), Better(table))[n] = h[sorted[n]]
  BY <1>4, <1>7, <1>9, <1>11, <1>13, ArrangedRenamed
<1>15. sorted \in [1..size -> results]
  BY <1>9, <1>13, ArrangedIs
<1> HIDE DEF sorted
<1>16. \A n \in 1..size : sorted[n].of = Result(table, Arranged(Scored(table), Better(table))[n])
  BY <1>10, <1>14, <1>15
<1> QED
  BY <1>1, <1>15, <1>16 DEF size

\* The result of an option is computed from its entries, wherever in a list they stand.
LEMMA ResultOver ==
    ASSUME NEW table, Fits(table), NEW other, Fits(other), NEW o,
           NEW A \in SUBSET Entries(table, o), NEW h \in Bijection(A, Entries(other, o)),
           \A e \in A : /\ h[e][1] = e[1]
                        /\ other[h[e][1]][h[e][2]] = table[e[1]][e[2]]
    PROVE  Result(other, o) =
              [option |-> o,
               total |-> SumFunction([e \in A |-> table[e[1]][e[2]].total]),
               mean_confidence |->
                  Mean(SumFunction([e \in A |-> table[e[1]][e[2]].confidence]), Cardinality(A)),
               supporters |-> {e[1] : e \in A}]
<1> DEFINE B == Entries(other, o)
           totalA == [e \in A |-> table[e[1]][e[2]].total]
           totalB == [e \in B |-> other[e[1]][e[2]].total]
           sureA == [e \in A |-> table[e[1]][e[2]].confidence]
           sureB == [e \in B |-> other[e[1]][e[2]].confidence]
<1>1. /\ h \in [A -> B]
      /\ \A e \in B : \E d \in A : h[d] = e
  BY DEF Bijection, Injection, Surjection, IsInjective
<1>2. IsFiniteSet(A) /\ Cardinality(A) = Cardinality(B)
  <2>1. IsFiniteSet(A)
    BY EntriesAre, FS_Subset
  <2> QED
    BY <2>1, FS_Bijection DEF ExistsBijection
<1>3. /\ totalA \in [A -> Nat] /\ sureA \in [A -> Nat]
      /\ totalB \in [B -> Nat] /\ sureB \in [B -> Nat]
  BY EntriesAre
<1>4. \A e \in A : totalB[h[e]] = totalA[e] /\ sureB[h[e]] = sureA[e]
  BY <1>1
<1>5. {e[1] : e \in B} = {e[1] : e \in A}
  BY <1>1
<1>6. Result(other, o) = [option |-> o, total |-> SumFunction(totalB),
                          mean_confidence |-> Mean(SumFunction(sureB), Cardinality(B)),
                          supporters |-> {e[1] : e \in B}]
  BY DEF Result
<1> HIDE DEF totalA, totalB, sureA, sureB
<1>7. SumFunction(totalA) = SumFunction(totalB) /\ SumFunction(sureA) = SumFunction(sureB)
  BY <1>2, <1>3, <1>4, SumRenamed
<1> QED
  BY <1>2, <1>5, <1>6, <1>7 DEF totalA, sureA

\* Tables whose options have the same results are ranked alike.
LEMMA SameRanking ==
    ASSUME NEW table, Fits(table), NEW other, Fits(other),
           NEW order, Visits(order), NEW another, Visits(another),
           Scored(other) = Scored(table),
           \A o \in Scored(table) : Result(other, o) = Result(table, o)
    PROVE  Ranking(other, another) = Ranking(table, order)
<1> DEFINE S == Scored(table)
           place == Arranged(S, Better(table))
<1>1. Better(other) = Better(table)
  BY DEF Better
<1>2. Ordered(S, Better(table)) /\ IsFiniteSet(S)
  BY BetterOrders
<1>3. place \in [1..Cardinality(S) -> S]
  <2> HIDE DEF S
  <2> QED
    BY <1>2, ArrangedIs
<1>4. Ranking(table, order) = [n \in 1..Cardinality(S) |-> Result(table, place[n])]
  BY RankingIs
<1>5. Ranking(other, another) = [n \in 1..Cardinality(S) |-> Result(other, place[n])]
  BY <1>1, RankingIs
<1> HIDE DEF place
<1> QED
  BY <1>3, <1>4, <1>5

\* The lists of a table in another order: turn[s] says from where each place of seat s comes.
Turned(table, turn) == [s \in Seats |-> [i \in DOMAIN table[s] |-> table[s][turn[s][i]]]]

\* Where an entry of the turned lists stood before.
Whence(turn, e) == <<e[1], turn[e[1]][e[2]]>>

\* Turning the lists moves the entries of an option, and moves each of them back.
LEMMA TurnedEntries ==
    ASSUME NEW table, Fits(table), NEW turn,
           \A s \in Seats : turn[s] \in Bijection(DOMAIN table[s], DOMAIN table[s]),
           Fits(Turned(table, turn)), NEW o
    PROVE  /\ [e \in Entries(Turned(table, turn), o) |-> Whence(turn, e)]
                  \in Bijection(Entries(Turned(table, turn), o), Entries(table, o))
           /\ \A e \in Entries(Turned(table, turn), o) :
                 table[Whence(turn, e)[1]][Whence(turn, e)[2]]
                     = Turned(table, turn)[e[1]][e[2]]
<1> DEFINE other == Turned(table, turn)
           A == Entries(other, o)
           B == Entries(table, o)
           N == Cardinality(Options)
           h == [e \in A |-> Whence(turn, e)]
<1>1. \A s \in Seats : /\ DOMAIN table[s] = 1..Len(table[s]) /\ Len(table[s]) \in Nat
                       /\ DOMAIN table[s] \subseteq 1..N /\ DOMAIN other[s] = DOMAIN table[s]
                       /\ \A i \in DOMAIN table[s] : other[s][i] = table[s][turn[s][i]]
  BY OptionsCounted DEF Fits, Turned
<1>2. ASSUME NEW s \in Seats
      PROVE  /\ \A i \in DOMAIN table[s] : turn[s][i] \in DOMAIN table[s]
             /\ \A i, j \in DOMAIN table[s] : turn[s][i] = turn[s][j] => i = j
             /\ \A j \in DOMAIN table[s] : \E i \in DOMAIN table[s] : turn[s][i] = j
  <2>1. turn[s] \in Bijection(DOMAIN table[s], DOMAIN table[s])
    OBVIOUS
  <2> QED
    BY <2>1 DEF Bijection, Injection, Surjection, IsInjective
<1>3. A = {e \in Seats \X (1..N) : e[2] \in DOMAIN other[e[1]] /\ other[e[1]][e[2]].option = o}
  BY EntriesAre
<1>4. B = {e \in Seats \X (1..N) : e[2] \in DOMAIN table[e[1]] /\ table[e[1]][e[2]].option = o}
  BY EntriesAre
<1> HIDE DEF other, A, B, N
<1>5. \A e \in A : /\ e = <<e[1], e[2]>> /\ e[1] \in Seats /\ e[2] \in DOMAIN table[e[1]]
                   /\ other[e[1]][e[2]].option = o
                   /\ other[e[1]][e[2]] = table[e[1]][turn[e[1]][e[2]]]
  BY <1>1, <1>3
<1>6. \A e \in A : Whence(turn, e) \in B
  <2> SUFFICES ASSUME NEW e \in A PROVE Whence(turn, e) \in B
    OBVIOUS
  <2> DEFINE s == e[1]
             i == turn[s][e[2]]
  <2>1. s \in Seats /\ i \in DOMAIN table[s] /\ table[s][i].option = o
    BY <1>2, <1>5
  <2>2. i \in 1..N
    BY <1>1, <2>1
  <2> QED
    BY <1>4, <2>1, <2>2 DEF Whence
<1>7. \A d, e \in A : Whence(turn, d) = Whence(turn, e) => d = e
  <2> SUFFICES ASSUME NEW d \in A, NEW e \in A, Whence(turn, d) = Whence(turn, e) PROVE d = e
    OBVIOUS
  <2>1. d[1] = e[1] /\ turn[d[1]][d[2]] = turn[d[1]][e[2]]
    BY DEF Whence
  <2>2. d[2] = e[2]
    <3> DEFINE s == d[1]
               i == d[2]
               j == e[2]
    <3>1. s \in Seats /\ i \in DOMAIN table[s] /\ j \in DOMAIN table[s] /\ turn[s][i] = turn[s][j]
      BY <1>5, <2>1
    <3> HIDE DEF s, i, j
    <3>2. i = j
      BY <1>2, <3>1
    <3> QED
      BY <3>2 DEF i, j
  <2> QED
    BY <1>5, <2>1, <2>2
<1>8. \A e \in B : \E d \in A : Whence(turn, d) = e
  <2> SUFFICES ASSUME NEW e \in B PROVE \E d \in A : Whence(turn, d) = e
    OBVIOUS
  <2>1. /\ e = <<e[1], e[2]>> /\ e[1] \in Seats /\ e[2] \in DOMAIN table[e[1]]
        /\ table[e[1]][e[2]].option = o
    BY <1>4
  <2>2. PICK i \in DOMAIN table[e[1]] : turn[e[1]][i] = e[2]
    BY <1>2, <2>1
  <2>3. i \in 1..N /\ i \in DOMAIN other[e[1]] /\ other[e[1]][i].option = o
    BY <1>1, <2>1, <2>2
  <2>4. <<e[1], i>> \in A
    BY <1>3, <2>1, <2>3
  <2>5. Whence(turn, <<e[1], i>>) = e
    BY <2>1, <2>2 DEF Whence
  <2> QED
    BY <2>4, <2>5
<1>9. h \in Bijection(A, B)
  <2>1. h \in [A -> B]
    BY <1>6
  <2>2. \A d, e \in A : h[d] = h[e] => d = e
    BY <1>7
  <2>3. \A e \in B : \E d \in A : h[d] = e
    BY <1>8
  <2> QED
    BY <2>1, <2>2, <2>3, Fun_IsBij
<1>10. \A e \in A : table[Whence(turn, e)[1]][Whence(turn, e)[2]] = other[e[1]][e[2]]
  BY <1>5 DEF Whence
<1> QED
  BY <1>9, <1>10 DEF other, A, B

\* Turning the lists changes no result.
LEMMA TurnedSame ==
    ASSUME NEW table, Fits(table), NEW turn,
           \A s \in Seats : turn[s] \in Bijection(DOMAIN table[s], DOMAIN table[s])
    PROVE  /\ Fits(Turned(table, turn))
           /\ Scored(Turned(table, turn)) = Scored(table)
           /\ \A o \in Scored(table) : Result(Turned(table, turn), o) = Result(table, o)
<1> DEFINE other == Turned(table, turn)
<1>1. Fits(other)
  <2>1. ASSUME NEW s \in Seats
        PROVE  other[s] \in Seq(Score) /\ Len(other[s]) <= Cardinality(Options)
    <3> DEFINE n == Len(table[s])
               list == [i \in 1..n |-> table[s][turn[s][i]]]
    <3>1. /\ table[s] \in Seq(Score) /\ n \in Nat /\ DOMAIN table[s] = 1..n
          /\ n <= Cardinality(Options)
      BY DEF Fits
    <3>2. other[s] = list
      BY <3>1 DEF Turned
    <3>3. \A i \in 1..n : turn[s][i] \in 1..n
      BY <3>1 DEF Bijection, Injection
    <3>4. \A i \in 1..n : table[s][i] \in Score
      BY <3>1
    <3> HIDE DEF n
    <3>5. list \in [1..n -> Score]
      BY <3>3, <3>4
    <3> HIDE DEF list, other
    <3>6. list \in Seq(Score) /\ Len(list) = n
      BY <3>1, <3>5
    <3> QED
      BY <3>1, <3>2, <3>6 DEF n
  <2>2. other \in [Seats -> Seq(Score)]
    <3>1. other = [s \in Seats |-> other[s]]
      BY DEF Turned
    <3> HIDE DEF other
    <3> QED
      BY <2>1, <3>1
  <2> HIDE DEF other
  <2> QED
    BY <2>1, <2>2 DEF Fits
<1>2. ASSUME NEW o
      PROVE  \E h \in Bijection(Entries(other, o), Entries(table, o)) :
                \A e \in Entries(other, o) : /\ h[e][1] = e[1]
                                             /\ table[h[e][1]][h[e][2]] = other[e[1]][e[2]]
  <2> DEFINE A == Entries(other, o)
             h == [e \in A |-> Whence(turn, e)]
  <2>1. /\ h \in Bijection(A, Entries(table, o))
        /\ \A e \in A : table[Whence(turn, e)[1]][Whence(turn, e)[2]] = other[e[1]][e[2]]
    BY <1>1, TurnedEntries
  <2>2. \A e \in A : h[e] = Whence(turn, e) /\ Whence(turn, e)[1] = e[1]
    BY DEF Whence
  <2> HIDE DEF h, A
  <2>3. \A e \in A : h[e][1] = e[1] /\ table[h[e][1]][h[e][2]] = other[e[1]][e[2]]
    BY <2>1, <2>2
  <2> QED
    BY <2>1, <2>3 DEF A
<1> HIDE DEF other
<1>3. Scored(other) = Scored(table)
  <2>1. ASSUME NEW o PROVE Entries(other, o) # {} <=> Entries(table, o) # {}
    <3>1. PICK h \in Bijection(Entries(other, o), Entries(table, o)) : TRUE
      BY <1>2
    <3> QED
      BY <3>1 DEF Bijection, Injection, Surjection
  <2> QED
    BY <2>1 DEF Scored
<1>4. ASSUME NEW o \in Scored(table) PROVE Result(other, o) = Result(table, o)
  <2>1. PICK h \in Bijection(Entries(other, o), Entries(table, o)) :
            \A e \in Entries(other, o) : /\ h[e][1] = e[1]
                                         /\ table[h[e][1]][h[e][2]] = other[e[1]][e[2]]
    BY <1>2
  <2>2. Entries(other, o) \in SUBSET Entries(other, o)
    OBVIOUS
  <2>3. Result(table, o) =
            [option |-> o,
             total |-> SumFunction([e \in Entries(other, o) |-> other[e[1]][e[2]].total]),
             mean_confidence |->
                Mean(SumFunction([e \in Entries(other, o) |-> other[e[1]][e[2]].confidence]),
                     Cardinality(Entries(other, o))),
             supporters |-> {e[1] : e \in Entries(other, o)}]
    BY <1>1, <2>1, <2>2, ResultOver
  <2> QED
    BY <2>3 DEF Result
<1> QED
  BY <1>1, <1>3, <1>4 DEF other

-----------------------------------------------------------------------------
(* The invariant.                                                          *)

\* Every seat has scored what is no longer to do, so no list grows beyond the options.
IInv ==
    /\ TypeOK
    /\ \A s \in Seats : Len(scores[s]) + Len(todo) = Cardinality(Options)

\* No option has been put to the seats, and no list has a score.
LEMMA InitIInv == Init => IInv
<1> SUFFICES ASSUME Init PROVE IInv
  OBVIOUS
<1>1. Cardinality(Options) \in Nat
  BY OptionsCounted
<1>2. todo \in [1..Cardinality(Options) -> Options]
  BY DEF Init
<1>3. todo \in Seq(Options) /\ Len(todo) = Cardinality(Options)
  <2> DEFINE n == Cardinality(Options)
  <2>1. n \in Nat /\ todo \in [1..n -> Options]
    BY <1>1, <1>2
  <2> HIDE DEF n
  <2>2. todo \in Seq(Options) /\ Len(todo) = n
    BY <2>1
  <2> QED
    BY <2>2 DEF n
<1>4. scores = [s \in Seats |-> <<>>] /\ evidence = {}
  BY DEF Init
<1>5. scores \in [Seats -> Seq(Score)] /\ \A s \in Seats : Len(scores[s]) = 0
  BY <1>4
<1> QED
  BY <1>1, <1>3, <1>4, <1>5 DEF IInv, TypeOK

\* Every seat has scored the next option (collect_scores).
LEMMA CollectIInv ==
    ASSUME IInv, CollectOption
    PROVE  IInv'
<1>1. /\ todo \in Seq(Options) /\ todo # <<>> /\ todo' = Tail(todo) /\ evidence' = evidence
      /\ scores \in [Seats -> Seq(Score)] /\ evidence \subseteq EvidenceIds
  BY DEF IInv, TypeOK, CollectOption
<1>2. PICK got \in [Seats -> {x \in Score : x.option = Head(todo)}] :
          scores' = [s \in Seats |-> Append(scores[s], got[s])]
  BY DEF CollectOption
<1>3. todo' \in Seq(Options) /\ Len(todo') = Len(todo) - 1 /\ Len(todo) \in Nat
  BY <1>1
<1>4. ASSUME NEW s \in Seats
      PROVE  scores'[s] \in Seq(Score) /\ Len(scores'[s]) = Len(scores[s]) + 1
             /\ Len(scores[s]) \in Nat
  <2>1. scores[s] \in Seq(Score) /\ got[s] \in Score /\ scores'[s] = Append(scores[s], got[s])
    BY <1>1, <1>2
  <2> QED
    BY <2>1
<1>5. scores' \in [Seats -> Seq(Score)]
  BY <1>2, <1>4
<1>6. \A s \in Seats : Len(scores'[s]) + Len(todo') = Cardinality(Options)
  <2> SUFFICES ASSUME NEW s \in Seats PROVE Len(scores'[s]) + Len(todo') = Cardinality(Options)
    OBVIOUS
  <2>1. Len(scores[s]) + Len(todo) = Cardinality(Options)
    BY DEF IInv
  <2>2. Len(scores'[s]) = Len(scores[s]) + 1 /\ Len(scores[s]) \in Nat
    BY <1>4
  <2>3. Cardinality(Options) \in Nat
    BY OptionsCounted
  <2> QED
    BY <1>3, <2>1, <2>2, <2>3
<1> QED
  BY <1>1, <1>3, <1>5, <1>6 DEF IInv, TypeOK

\* Evidence changes no list.
LEMMA StepIInv == IInv /\ [Next]_vars => IInv'
<1> SUFFICES ASSUME IInv, [Next]_vars PROVE IInv'
  OBVIOUS
<1>1. CASE SaveEvidence
  BY <1>1 DEF SaveEvidence, IInv, TypeOK
<1>2. CASE CollectOption
  BY <1>2, CollectIInv
<1>3. CASE UNCHANGED vars
  BY <1>3 DEF vars, IInv, TypeOK
<1> QED
  BY <1>1, <1>2, <1>3 DEF Next

\* The invariant of the scoring.
LEMMA AlwaysIInv == Spec => []IInv
BY InitIInv, StepIInv, PTL DEF Spec

\* What is collected fits, whether or not every option has been put to the seats.
LEMMA ScoresFit ==
    ASSUME IInv
    PROVE  Fits(scores)
<1>1. \A s \in Seats : Len(scores[s]) \in Nat /\ Len(todo) \in Nat
  BY DEF IInv, TypeOK
<1>2. \A s \in Seats : Len(scores[s]) + Len(todo) = Cardinality(Options)
  BY DEF IInv
<1>3. \A s \in Seats : Len(scores[s]) <= Cardinality(Options)
  BY <1>1, <1>2
<1> QED
  BY <1>3 DEF IInv, TypeOK, Fits

\* The stored order of the seats visits all of them.
LEMMA SeatingVisits == Visits(Seating)
<1> DEFINE n == Len(Seating)
<1>1. Seating \in Seq(STRING) /\ n \in Nat /\ DOMAIN Seating = 1..n
  BY SeatingAssumption
<1>2. /\ \A i \in 1..n : Seating[i] \in Seats
      /\ \A s \in Seats : \E k \in 1..n : Seating[k] = s
  BY <1>1 DEF Seats
<1> HIDE DEF n
<1>3. Seating \in [1..n -> Seats]
  BY <1>1, <1>2
<1>4. Seating \in Seq(Seats)
  BY <1>1, <1>3
<1> QED
  BY <1>1, <1>2, <1>4 DEF Visits

\* And so does every other order of them.
LEMMA ReorderingVisits ==
    ASSUME NEW order \in Reorderings(Seating)
    PROVE  Visits(order)
<1> DEFINE n == Len(Seating)
<1>1. DOMAIN Seating = 1..n /\ n \in Nat
  BY SeatingAssumption
<1>2. PICK turn \in Bijection(DOMAIN Seating, DOMAIN Seating) :
          order = [i \in DOMAIN Seating |-> Seating[turn[i]]]
  BY DEF Reorderings
<1> HIDE DEF n
<1>3. /\ \A i \in 1..n : turn[i] \in 1..n
      /\ \A j \in 1..n : \E i \in 1..n : turn[i] = j
  BY <1>1, <1>2 DEF Bijection, Injection, Surjection
<1>4. /\ \A i \in 1..n : Seating[i] \in Seats
      /\ \A s \in Seats : \E k \in 1..n : Seating[k] = s
  BY <1>1 DEF Seats
<1>5. order \in [1..n -> Seats]
  BY <1>1, <1>2, <1>3, <1>4
<1>6. \A s \in Seats : \E k \in 1..n : order[k] = s
  BY <1>1, <1>2, <1>3, <1>4
<1>7. order \in Seq(Seats) /\ DOMAIN order = 1..n
  BY <1>1, <1>5
<1> QED
  BY <1>6, <1>7 DEF Visits

\* A table of reordered lists is the table turned somehow.
LEMMA ReorderedIsTurned ==
    ASSUME NEW table, Fits(table), NEW S, NEW other \in [Seats -> S],
           \A s \in Seats : other[s] \in Reorderings(table[s])
    PROVE  \E turn : /\ \A s \in Seats : turn[s] \in Bijection(DOMAIN table[s], DOMAIN table[s])
                     /\ other = Turned(table, turn)
<1> DEFINE Turns(s) == Bijection(DOMAIN table[s], DOMAIN table[s])
           Made(s, t) == other[s] = [i \in DOMAIN table[s] |-> table[s][t[i]]]
           turn == [s \in Seats |-> CHOOSE t \in Turns(s) : Made(s, t)]
<1>1. ASSUME NEW s \in Seats PROVE turn[s] \in Turns(s) /\ Made(s, turn[s])
  <2>1. \E t \in Turns(s) : Made(s, t)
    BY DEF Reorderings
  <2>2. turn[s] = CHOOSE t \in Turns(s) : Made(s, t)
    OBVIOUS
  <2> HIDE DEF Turns, Made, turn
  <2> QED
    BY <2>1, <2>2
<1>2. other = [s \in Seats |-> other[s]]
  OBVIOUS
<1> HIDE DEF turn
<1>3. other = Turned(table, turn)
  BY <1>1, <1>2 DEF Turned
<1> QED
  BY <1>1, <1>3

\* Whatever order the seats are visited in, and whatever order each of them scored the
\* options in, the same scores rank the same way, for any number of seats and options
\* (aggregate and its sort key).
THEOREM OrderNeverMatters == Spec => []OrderIndependent
<1>1. IInv => OrderIndependent
  <2> DEFINE lists == UNION {Reorderings(scores[s]) : s \in Seats}
  <2> SUFFICES ASSUME IInv, NEW table \in [Seats -> lists],
                      \A s \in Seats : table[s] \in Reorderings(scores[s]),
                      NEW order \in Reorderings(Seating)
               PROVE  Ranking(table, order) = Ranking(scores, Seating)
    BY DEF OrderIndependent, Aggregate
  <2> HIDE DEF lists
  <2>1. Fits(scores) /\ Visits(Seating) /\ Visits(order)
    BY ScoresFit, SeatingVisits, ReorderingVisits
  <2>2. PICK turn : /\ \A s \in Seats : turn[s] \in Bijection(DOMAIN scores[s], DOMAIN scores[s])
                    /\ table = Turned(scores, turn)
    BY <2>1, ReorderedIsTurned
  <2>3. /\ Fits(table) /\ Scored(table) = Scored(scores)
        /\ \A o \in Scored(scores) : Result(table, o) = Result(scores, o)
    BY <2>1, <2>2, TurnedSame
  <2> QED
    BY <2>1, <2>3, SameRanking
<1> QED
  BY <1>1, AlwaysIInv, PTL

-----------------------------------------------------------------------------
(* What is left without an item of evidence.                               *)

\* The places of a seat's list that do not lean on the item, and the place that such
\* a score has in what is left.
Kept(table, id, s) == {i \in DOMAIN table[s] : id \notin table[s][i].depends_on}
Place(table, id, s, i) == Cardinality({j \in Kept(table, id, s) : j < i}) + 1

\* What is left of one list: the kept scores, moved up, in their order.
LEMMA WithoutList ==
    ASSUME NEW table, Fits(table), NEW id, NEW s \in Seats
    PROVE  LET kept == Kept(table, id, s)
               left == Without(table, id)[s] IN
           /\ Cardinality(kept) \in Nat /\ Cardinality(kept) <= Len(table[s])
           /\ left \in Seq(Score) /\ Len(left) = Cardinality(kept)
           /\ DOMAIN left = 1..Cardinality(kept)
           /\ \A i \in kept : /\ Place(table, id, s, i) \in 1..Cardinality(kept)
                              /\ left[Place(table, id, s, i)] = table[s][i]
           /\ \A n \in 1..Cardinality(kept) : \E i \in kept : Place(table, id, s, i) = n
           /\ \A i, j \in kept : Place(table, id, s, i) = Place(table, id, s, j) => i = j
<1> DEFINE kept == Kept(table, id, s)
           left == Without(table, id)[s]
           ahead == [i \in kept |-> {j \in kept : j < i}]
           inOrder == Arranged(kept, ahead)
<1>1. /\ table[s] \in Seq(Score) /\ Len(table[s]) \in Nat /\ DOMAIN table[s] = 1..Len(table[s])
      /\ \A i \in 1..Len(table[s]) : table[s][i] \in Score
      /\ DOMAIN table = Seats
  BY DEF Fits
<1>2. kept \in SUBSET (1..Len(table[s]))
  BY <1>1 DEF Kept
<1>3. IsFiniteSet(kept) /\ Cardinality(kept) \in Nat /\ Cardinality(kept) <= Len(table[s])
  <2>1. 1 \in Int /\ Len(table[s]) \in Int
    BY <1>1
  <2>2. IsFiniteSet(1..Len(table[s])) /\ Cardinality(1..Len(table[s])) = Len(table[s])
    BY <1>1, <2>1, FS_Interval
  <2>3. IsFiniteSet(kept) /\ Cardinality(kept) <= Len(table[s])
    BY <1>2, <2>2, FS_Subset
  <2> QED
    BY <2>3, FS_CardinalityType
<1>4. left = [n \in DOMAIN inOrder |-> table[s][inOrder[n]]]
  BY <1>1 DEF Without, ScoresAt, Kept
<1> HIDE DEF kept, left
<1>5. Ordered(kept, ahead)
  <2>1. \A i \in kept : i \in Nat
    BY <1>2
  <2>2. \A i \in kept : ahead[i] = {j \in kept : j < i}
    OBVIOUS
  <2> HIDE DEF ahead
  <2>3. \A i \in kept : ahead[i] \subseteq kept /\ i \notin ahead[i]
    BY <2>1, <2>2
  <2>4. \A i, j \in kept : i # j => i \in ahead[j] \/ j \in ahead[i]
    BY <2>1, <2>2
  <2>5. \A i, j \in kept : i \in ahead[j] => ahead[i] \subseteq ahead[j]
    BY <2>1, <2>2
  <2> QED
    BY <2>3, <2>4, <2>5 DEF Ordered
<1>6. \A i \in kept : Place(table, id, s, i) = Cardinality(ahead[i]) + 1
  BY DEF Place, kept
<1> HIDE DEF ahead
<1>7. /\ inOrder \in [1..Cardinality(kept) -> kept]
      /\ \A n \in 1..Cardinality(kept) : Cardinality(ahead[inOrder[n]]) = n - 1
      /\ \A i \in kept : Cardinality(ahead[i]) + 1 \in 1..Cardinality(kept)
                         /\ inOrder[Cardinality(ahead[i]) + 1] = i
  BY <1>3, <1>5, ArrangedIs
<1> HIDE DEF inOrder
<1>8. left = [n \in 1..Cardinality(kept) |-> table[s][inOrder[n]]]
  BY <1>4, <1>7
<1>9. left \in [1..Cardinality(kept) -> Score]
  BY <1>1, <1>2, <1>7, <1>8
<1>10. left \in Seq(Score) /\ Len(left) = Cardinality(kept) /\ DOMAIN left = 1..Cardinality(kept)
  <2> DEFINE n == Cardinality(kept)
  <2>1. n \in Nat /\ left \in [1..n -> Score]
    BY <1>3, <1>9
  <2> HIDE DEF n
  <2>2. left \in Seq(Score) /\ Len(left) = n /\ DOMAIN left = 1..n
    BY <2>1
  <2> QED
    BY <2>2 DEF n
<1>11. \A i \in kept : /\ Place(table, id, s, i) \in 1..Cardinality(kept)
                       /\ left[Place(table, id, s, i)] = table[s][i]
  BY <1>6, <1>7, <1>8
<1>12. \A n \in 1..Cardinality(kept) : \E i \in kept : Place(table, id, s, i) = n
  <2> SUFFICES ASSUME NEW n \in 1..Cardinality(kept)
               PROVE  \E i \in kept : Place(table, id, s, i) = n
    OBVIOUS
  <2>1. inOrder[n] \in kept /\ Place(table, id, s, inOrder[n]) = (n - 1) + 1
    BY <1>6, <1>7
  <2>2. (n - 1) + 1 = n
    BY <1>3
  <2> QED
    BY <2>1, <2>2
<1>13. \A i, j \in kept : Place(table, id, s, i) = Place(table, id, s, j) => i = j
  <2>1. \A i \in kept : inOrder[Place(table, id, s, i)] = i
    BY <1>6, <1>7
  <2> QED
    BY <2>1
<1> QED
  BY <1>3, <1>10, <1>11, <1>12, <1>13 DEF kept, left

\* The entries of an option that do not lean on the item, and those that do.
Keeping(table, id, o) == {e \in Entries(table, o) : id \notin table[e[1]][e[2]].depends_on}
Losing(table, id, o) == {e \in Entries(table, o) : id \in table[e[1]][e[2]].depends_on}

TotalOf(table, A) == SumFunction([e \in A |-> table[e[1]][e[2]].total])

\* What is left is a table that the seats can have filled.
LEMMA WithoutFits ==
    ASSUME NEW table, Fits(table), NEW id
    PROVE  Fits(Without(table, id))
<1> DEFINE left == Without(table, id)
<1>1. DOMAIN table = Seats /\ \A s \in Seats : Len(table[s]) \in Nat
                           /\ Len(table[s]) <= Cardinality(Options)
  BY DEF Fits
<1>2. left = [s \in Seats |-> left[s]]
  BY <1>1 DEF Without
<1> HIDE DEF left
<1>3. \A s \in Seats : left[s] \in Seq(Score) /\ Len(left[s]) \in Nat /\ Len(left[s]) <= Len(table[s])
  BY WithoutList DEF left
<1>4. Cardinality(Options) \in Nat
  BY OptionsCounted
<1>5. left \in [Seats -> Seq(Score)]
  BY <1>2, <1>3
<1>6. \A s \in Seats : Len(left[s]) <= Cardinality(Options)
  BY <1>1, <1>3, <1>4
<1> QED
  BY <1>5, <1>6 DEF Fits, left

\* They are the entries of what is left, moved up.
LEMMA WithoutEntries ==
    ASSUME NEW table, Fits(table), NEW id, NEW o
    PROVE  \E h \in Bijection(Keeping(table, id, o), Entries(Without(table, id), o)) :
              \A e \in Keeping(table, id, o) :
                 /\ h[e][1] = e[1]
                 /\ Without(table, id)[h[e][1]][h[e][2]] = table[e[1]][e[2]]
<1> DEFINE left == Without(table, id)
           A == Keeping(table, id, o)
           B == Entries(left, o)
           Up(e) == <<e[1], Place(table, id, e[1], e[2])>>
           h == [e \in A |-> Up(e)]
<1>1. Fits(left) /\ Cardinality(Options) \in Nat
  BY WithoutFits, OptionsCounted
<1>2. ASSUME NEW s \in Seats
      PROVE  /\ Kept(table, id, s) \subseteq 1..Cardinality(Options)
             /\ \A i \in Kept(table, id, s) : i \in DOMAIN table[s]
             /\ \A i \in DOMAIN table[s] : i \in Kept(table, id, s)
                                           <=> id \notin table[s][i].depends_on
             /\ DOMAIN left[s] \subseteq 1..Cardinality(Options)
             /\ \A i \in Kept(table, id, s) :
                   /\ Place(table, id, s, i) \in DOMAIN left[s]
                   /\ left[s][Place(table, id, s, i)] = table[s][i]
             /\ \A n \in DOMAIN left[s] : \E i \in Kept(table, id, s) : Place(table, id, s, i) = n
             /\ \A i, j \in Kept(table, id, s) :
                   Place(table, id, s, i) = Place(table, id, s, j) => i = j
  <2>1. /\ DOMAIN table[s] = 1..Len(table[s]) /\ Len(table[s]) \in Nat
        /\ Len(table[s]) <= Cardinality(Options)
    BY DEF Fits
  <2>2. 1..Len(table[s]) \subseteq 1..Cardinality(Options)
    BY <1>1, <2>1
  <2>3. Kept(table, id, s) \subseteq 1..Cardinality(Options)
    BY <2>1, <2>2 DEF Kept
  <2>4. /\ Cardinality(Kept(table, id, s)) \in Nat
        /\ Cardinality(Kept(table, id, s)) <= Len(table[s])
        /\ DOMAIN left[s] = 1..Cardinality(Kept(table, id, s))
    BY WithoutList
  <2>5. DOMAIN left[s] \subseteq 1..Cardinality(Options)
    BY <1>1, <2>1, <2>4
  <2> HIDE DEF left
  <2>6. /\ \A i \in Kept(table, id, s) :
              /\ Place(table, id, s, i) \in DOMAIN left[s]
              /\ left[s][Place(table, id, s, i)] = table[s][i]
        /\ \A n \in DOMAIN left[s] : \E i \in Kept(table, id, s) : Place(table, id, s, i) = n
        /\ \A i, j \in Kept(table, id, s) :
              Place(table, id, s, i) = Place(table, id, s, j) => i = j
    BY <2>4, WithoutList DEF left
  <2>7. /\ \A i \in Kept(table, id, s) : i \in DOMAIN table[s]
        /\ \A i \in DOMAIN table[s] : i \in Kept(table, id, s)
                                      <=> id \notin table[s][i].depends_on
    BY DEF Kept
  <2> QED
    BY <2>3, <2>5, <2>6, <2>7
<1> HIDE DEF left
<1>3. /\ \A e \in A : /\ e = <<e[1], e[2]>> /\ e[1] \in Seats
                      /\ e[2] \in Kept(table, id, e[1])
                      /\ table[e[1]][e[2]].option = o
      /\ \A s \in Seats : \A i \in Kept(table, id, s) : table[s][i].option = o => <<s, i>> \in A
  <2>1. Entries(table, o) = {e \in Seats \X (1..Cardinality(Options)) :
                                e[2] \in DOMAIN table[e[1]] /\ table[e[1]][e[2]].option = o}
    BY EntriesAre
  <2>2. \A e \in A : /\ e = <<e[1], e[2]>> /\ e[1] \in Seats
                     /\ e[2] \in Kept(table, id, e[1])
                     /\ table[e[1]][e[2]].option = o
    BY <2>1 DEF Kept, Keeping
  <2>3. \A s \in Seats : \A i \in Kept(table, id, s) : table[s][i].option = o => <<s, i>> \in A
    BY <1>2, <2>1 DEF Keeping
  <2> QED
    BY <2>2, <2>3
<1>4. /\ \A e \in B : /\ e = <<e[1], e[2]>> /\ e[1] \in Seats
                      /\ e[2] \in DOMAIN left[e[1]]
                      /\ left[e[1]][e[2]].option = o
      /\ \A s \in Seats : \A n \in DOMAIN left[s] : left[s][n].option = o => <<s, n>> \in B
  <2>1. B = {e \in Seats \X (1..Cardinality(Options)) :
                e[2] \in DOMAIN left[e[1]] /\ left[e[1]][e[2]].option = o}
    BY <1>1, EntriesAre
  <2>2. \A s \in Seats : DOMAIN left[s] \subseteq 1..Cardinality(Options)
    BY <1>2
  <2> QED
    BY <2>1, <2>2
<1> HIDE DEF A, B
<1>5. \A e \in A : Up(e) \in B /\ left[Up(e)[1]][Up(e)[2]] = table[e[1]][e[2]]
  BY <1>2, <1>3, <1>4
<1>6. \A d, e \in A : Up(d) = Up(e) => d = e
  BY <1>2, <1>3
<1>7. ASSUME NEW e \in B PROVE \E d \in A : Up(d) = e
  <2>1. PICK i \in Kept(table, id, e[1]) : Place(table, id, e[1], i) = e[2]
    BY <1>2, <1>4
  <2>2. table[e[1]][i].option = o
    BY <1>2, <1>4, <2>1
  <2>3. <<e[1], i>> \in A /\ Up(<<e[1], i>>) = e
    BY <1>3, <1>4, <2>1, <2>2
  <2> QED
    BY <2>3
<1>8. h \in Bijection(A, B)
  <2>1. h \in [A -> B]
    BY <1>5
  <2>2. \A d, e \in A : h[d] = h[e] => d = e
    BY <1>6
  <2>3. \A e \in B : \E d \in A : h[d] = e
    BY <1>7
  <2> QED
    BY <2>1, <2>2, <2>3, Fun_IsBij
<1>9. \A e \in A : h[e][1] = e[1] /\ left[h[e][1]][h[e][2]] = table[e[1]][e[2]]
  BY <1>5
<1> HIDE DEF h
<1> QED
  BY <1>8, <1>9 DEF A, B, left

\* What is summed of the entries of an option.
LEMMA TotalIs ==
    ASSUME NEW table, Fits(table), NEW o, NEW A \in SUBSET Entries(table, o)
    PROVE  /\ TotalOf(table, A) \in Nat
           /\ TotalOf(table, A) = 0 <=> A = {}
<1> DEFINE f == [e \in A |-> table[e[1]][e[2]].total]
<1>1. IsFiniteSet(A) /\ f \in [A -> Nat] /\ \A e \in A : f[e] > 0
  BY EntriesAre, FS_Subset
<1> HIDE DEF f
<1>2. SumFunction(f) = Cardinality(Points(f, A)) /\ SumFunction(f) \in Nat
  BY <1>1, SumIs
<1>3. IsFiniteSet(Points(f, A))
  BY <1>1, PointsFinite
<1>4. Points(f, A) = {} <=> A = {}
  <2>1. \A e \in A : <<e, 1>> \in Points(f, A)
    BY <1>1 DEF Points
  <2> QED
    BY <2>1 DEF Points
<1>5. Cardinality(Points(f, A)) = 0 <=> Points(f, A) = {}
  BY <1>3, FS_EmptySet
<1>6. TotalOf(table, A) = SumFunction(f)
  BY DEF TotalOf, f
<1> QED
  BY <1>2, <1>4, <1>5, <1>6

\* Removing an item takes from each option the points that lean on it, and an option
\* from which it takes none keeps its result.
LEMMA TotalsWithout ==
    ASSUME NEW table, Fits(table), NEW id, NEW o \in Scored(table)
    PROVE  LET left == Without(table, id)
               kept == TotalOf(table, Keeping(table, id, o))
               lost == TotalOf(table, Losing(table, id, o)) IN
           /\ kept \in Nat /\ lost \in Nat
           /\ Result(table, o).total = kept + lost
           /\ Result(table, o).total > 0
           /\ o \in Scored(left) => Result(left, o).total = kept
           /\ o \notin Scored(left) => kept = 0
           /\ lost = 0 => o \in Scored(left) /\ Result(left, o) = Result(table, o)
<1> DEFINE left == Without(table, id)
           A == Keeping(table, id, o)
           L == Losing(table, id, o)
           E == Entries(table, o)
           f == [e \in E |-> table[e[1]][e[2]].total]
<1>1. IsFiniteSet(E) /\ f \in [E -> Nat] /\ E # {} /\ o \in Options
  BY EntriesAre DEF Scored
<1>2. A \in SUBSET E /\ L \in SUBSET E /\ L = E \ A /\ E \in SUBSET E
  BY DEF Keeping, Losing
<1>3. TotalOf(table, A) \in Nat /\ TotalOf(table, L) \in Nat /\ TotalOf(table, E) \in Nat
      /\ (TotalOf(table, A) = 0 <=> A = {}) /\ (TotalOf(table, L) = 0 <=> L = {})
      /\ (TotalOf(table, E) = 0 <=> E = {})
  <2> HIDE DEF A, L
  <2> QED
    BY <1>2, TotalIs
<1>4. TotalOf(table, E) = TotalOf(table, A) + TotalOf(table, L)
  <2>1. [e \in A |-> f[e]] = [e \in A |-> table[e[1]][e[2]].total]
        /\ [e \in E \ A |-> f[e]] = [e \in L |-> table[e[1]][e[2]].total]
    BY <1>2
  <2>2. TotalOf(table, A) = SumFunction([e \in A |-> f[e]])
        /\ TotalOf(table, L) = SumFunction([e \in E \ A |-> f[e]])
        /\ TotalOf(table, E) = SumFunction(f)
    BY <2>1 DEF TotalOf
  <2> HIDE DEF f, A, E, L
  <2>3. SumFunction(f) = SumFunction([e \in A |-> f[e]]) + SumFunction([e \in E \ A |-> f[e]])
    BY <1>1, <1>2, SumSplit
  <2> QED
    BY <2>2, <2>3
<1>5. Result(table, o).total = TotalOf(table, E)
  BY DEF Result, TotalOf
<1>6. PICK h \in Bijection(A, Entries(left, o)) :
          \A e \in A : /\ h[e][1] = e[1]
                       /\ left[h[e][1]][h[e][2]] = table[e[1]][e[2]]
  BY WithoutEntries
<1>7. Result(left, o) =
          [option |-> o,
           total |-> TotalOf(table, A),
           mean_confidence |->
              Mean(SumFunction([e \in A |-> table[e[1]][e[2]].confidence]), Cardinality(A)),
           supporters |-> {e[1] : e \in A}]
  <2>1. Fits(left)
    BY WithoutFits
  <2> HIDE DEF left, A, E
  <2> QED
    BY <1>2, <1>6, <2>1, ResultOver DEF TotalOf, E
<1>8. o \in Scored(left) <=> A # {}
  <2>1. Entries(left, o) # {} <=> A # {}
    BY <1>6 DEF Bijection, Injection, Surjection
  <2> QED
    BY <1>1, <2>1 DEF Scored
<1>9. Result(left, o).total = TotalOf(table, A)
  <2> HIDE DEF left, A
  <2> QED
    BY <1>7
<1>10. ASSUME TotalOf(table, L) = 0
       PROVE  o \in Scored(left) /\ Result(left, o) = Result(table, o)
  <2>1. L = {}
    BY <1>3, <1>10
  <2>2. A = E
    BY <1>2, <2>1
  <2>3. Result(table, o) =
            [option |-> o,
             total |-> TotalOf(table, E),
             mean_confidence |->
                Mean(SumFunction([e \in E |-> table[e[1]][e[2]].confidence]), Cardinality(E)),
             supporters |-> {e[1] : e \in E}]
    BY DEF Result, TotalOf
  <2> HIDE DEF A, E, left
  <2> QED
    BY <1>1, <1>7, <1>8, <2>2, <2>3
<1> HIDE DEF A, L, E, left
<1>11. Result(table, o).total > 0
  BY <1>1, <1>3, <1>5
<1> QED
  BY <1>3, <1>4, <1>5, <1>8, <1>9, <1>10, <1>11 DEF A, L, left

-----------------------------------------------------------------------------
(* Who leads, and by how much.                                             *)

\* The leader beats every other option, and by the margin at least.
LEMMA LeaderIs ==
    ASSUME NEW table, Fits(table)
    PROVE  LET w == Leader(table).option
               T(o) == Result(table, o).total IN
           /\ Scored(table) = {} => w = None
           /\ Scored(table) # {} => w \in Scored(table)
           /\ \A o \in Scored(table) \ {w} :
                 /\ KeyLess(Result(table, w), Result(table, o))
                 /\ T(o) + Leader(table).margin <= T(w)
           /\ Scored(table) # {} => Leader(table).margin \in Int /\ Leader(table).margin <= T(w)
<1> DEFINE S == Scored(table)
           size == Cardinality(S)
           place == Arranged(S, Better(table))
           ranked == Aggregate(table)
           T(o) == Result(table, o).total
<1>1. ranked = [n \in 1..size |-> Result(table, place[n])]
  BY SeatingVisits, RankingIs DEF Aggregate
<1>2. Ordered(S, Better(table)) /\ IsFiniteSet(S)
  BY BetterOrders
<1>3. /\ size \in Nat /\ place \in [1..size -> S]
      /\ \A o \in S : \E n \in 1..size : place[n] = o
      /\ \A m, n \in 1..size : place[m] \in Better(table)[place[n]] <=> m < n
  <2> HIDE DEF S
  <2>1. /\ size \in Nat /\ place \in [1..size -> S]
        /\ \A o \in S : Cardinality(Better(table)[o]) + 1 \in 1..size
                        /\ place[Cardinality(Better(table)[o]) + 1] = o
        /\ \A m, n \in 1..size : place[m] \in Better(table)[place[n]] <=> m < n
    BY <1>2, ArrangedIs
  <2> HIDE DEF place, size
  <2> QED
    BY <2>1
<1>4. \A o \in S : T(o) \in Nat /\ Result(table, o).option = o
  <2> SUFFICES ASSUME NEW o \in S PROVE T(o) \in Nat /\ Result(table, o).option = o
    OBVIOUS
  <2> QED
    BY ResultIs
<1>5. size = 0 <=> S = {}
  BY <1>2, FS_EmptySet
<1>6. \A m, n \in 1..size : m < n => KeyLess(Result(table, place[m]), Result(table, place[n]))
  BY <1>3 DEF Better
<1> HIDE DEF place, size, S, T
<1>7. ranked = <<>> <=> size = 0
  BY <1>1, <1>3
<1>8. CASE size = 0
  BY <1>5, <1>7, <1>8 DEF Leader, S
<1>9. CASE size # 0
  <2>1. 1 \in 1..size /\ ranked # <<>>
    BY <1>3, <1>7, <1>9
  <2> DEFINE w == place[1]
  <2>2. w \in S /\ ranked[1] = Result(table, w) /\ Leader(table).option = w
    BY <1>1, <1>3, <1>4, <2>1 DEF Leader
  <2>3. Len(ranked) = size
    BY <1>1, <1>3
  <2>4. ranked[1].total = T(w) /\ T(w) \in Nat
    BY <1>4, <2>2 DEF T
  <2>5. Leader(table).margin = IF size = 1 THEN T(w) ELSE T(w) - ranked[2].total
    BY <2>1, <2>3, <2>4 DEF Leader
  <2>6. \A m, n \in 1..size : m < n => T(place[n]) <= T(place[m])
    <3> SUFFICES ASSUME NEW m \in 1..size, NEW n \in 1..size, m < n
                 PROVE  T(place[n]) <= T(place[m])
      OBVIOUS
    <3>1. T(place[m]) >= T(place[n])
      BY <1>3, <1>4, <1>6 DEF KeyLess, T
    <3> QED
      BY <1>3, <1>4, <3>1
  <2>7. ASSUME NEW o \in S \ {w}
        PROVE  /\ KeyLess(Result(table, w), Result(table, o))
               /\ T(o) + Leader(table).margin <= T(w)
    <3>1. PICK n \in 1..size : place[n] = o
      BY <1>3
    <3>2. n # 1 /\ 1 < n /\ n \in Nat /\ 1 \in 1..size /\ 2 \in 1..size /\ size # 1
      BY <1>3, <2>1, <3>1
    <3>3. KeyLess(Result(table, w), Result(table, o))
      BY <1>6, <3>1, <3>2
    <3>4. ranked[2].total = T(place[2]) /\ T(place[2]) \in Nat /\ T(o) \in Nat
      BY <1>1, <1>3, <1>4, <3>2 DEF T
    <3>5. T(o) <= T(place[2])
      <4>1. CASE n = 2
        BY <3>1, <3>4, <4>1
      <4>2. CASE n # 2
        <5>1. 2 < n
          BY <3>2, <4>2
        <5> QED
          BY <2>6, <3>1, <3>2, <5>1
      <4> QED
        BY <4>1, <4>2
    <3>6. Leader(table).margin = T(w) - T(place[2])
      BY <2>5, <3>2, <3>4
    <3> QED
      BY <2>4, <3>3, <3>4, <3>5, <3>6
  <2>8. Leader(table).margin \in Int /\ Leader(table).margin <= T(w)
    <3>1. CASE size = 1
      BY <2>4, <2>5, <3>1
    <3>2. CASE size # 1
      <4>1. 2 \in 1..size
        BY <1>3, <1>9, <3>2
      <4>2. ranked[2].total = T(place[2]) /\ T(place[2]) \in Nat
        BY <1>1, <1>3, <1>4, <4>1 DEF T
      <4> QED
        BY <2>4, <2>5, <3>2, <4>2
    <3> QED
      BY <3>1, <3>2
  <2>9. S # {}
    BY <2>2
  <2> HIDE DEF w
  <2> QED
    BY <2>2, <2>7, <2>8, <2>9 DEF S, T
<1> QED
  BY <1>8, <1>9

\* A seat that has nothing left supports no option.
LEMMA NothingLeft ==
    ASSUME NEW table, Fits(table), NEW s \in Seats, DOMAIN table[s] = {},
           NEW n \in DOMAIN Aggregate(table)
    PROVE  s \notin Aggregate(table)[n].supporters
<1> DEFINE S == Scored(table)
           place == Arranged(S, Better(table))
<1>1. Aggregate(table) = [m \in 1..Cardinality(S) |-> Result(table, place[m])]
  BY SeatingVisits, RankingIs DEF Aggregate
<1>2. Ordered(S, Better(table)) /\ IsFiniteSet(S)
  BY BetterOrders
<1>3. place \in [1..Cardinality(S) -> S]
  <2> HIDE DEF S
  <2> QED
    BY <1>2, ArrangedIs
<1> DEFINE o == place[n]
<1>4. Aggregate(table)[n].supporters = {e[1] : e \in Entries(table, o)}
  <2> HIDE DEF place, S
  <2> QED
    BY <1>1 DEF Result
<1>5. \A e \in Entries(table, o) : e[2] \in DOMAIN table[e[1]]
  <2> HIDE DEF o
  <2> QED
    BY EntriesAre
<1> HIDE DEF o
<1> QED
  BY <1>4, <1>5

\* What a flip tells is of a recorded item that was tried.
LEMMA FlipsTried ==
    ASSUME NEW table, NEW recorded, NEW f \in Flips(table, recorded)
    PROVE  \E id \in recorded :
              /\ f.evidence_id = id /\ f.seats = Affected(table, id)
              /\ f.winner_before = Leader(table).option
              /\ f.margin_before = Leader(table).margin
              /\ Leader(table).option # None
              /\ Leader(Without(table, id)).option \notin {None, Leader(table).option}
<1> DEFINE tried == {[id |-> id, rest |-> Without(table, id)] :
                        id \in {e \in recorded : Affected(table, e) # {}}}
<1>1. PICK t \in tried :
          /\ Leader(table).option # None
          /\ Leader(t.rest).option \notin {None, Leader(table).option}
          /\ f.evidence_id = t.id /\ f.seats = Affected(table, t.id)
          /\ f.winner_before = Leader(table).option
          /\ f.margin_before = Leader(table).margin
  BY DEF Flips
<1>2. t.id \in recorded /\ t.rest = Without(table, t.id)
  OBVIOUS
<1> QED
  BY <1>1, <1>2

\* The two halves of the counterfactual tell the same story, for any scores and
\* evidence (flips and sensitivity).
THEOREM HalvesAgree == Spec => []SensitivityAgrees
<1>1. IInv => SensitivityAgrees
  <2> SUFFICES ASSUME IInv PROVE SensitivityAgrees
    OBVIOUS
  <2>1. Fits(scores) /\ DOMAIN scores = Seats
    BY ScoresFit DEF Fits
  <2>2. ASSUME NEW f \in Flips(scores, evidence)
        PROVE  f.seats = {s \in Seats : f.evidence_id \in Sensitivity(scores)[s]}
    <3>1. PICK id \in evidence : f.evidence_id = id /\ f.seats = Affected(scores, id)
      BY FlipsTried
    <3>2. \A s \in Seats : id \in Sensitivity(scores)[s]
                           <=> \E i \in DOMAIN scores[s] : id \in scores[s][i].depends_on
      BY <2>1 DEF Sensitivity
    <3> QED
      BY <2>1, <3>1, <3>2 DEF Affected
  <2>3. ASSUME NEW s \in Seats, NEW id \in EvidenceIds, Sensitivity(scores)[s] = {id},
               NEW n \in DOMAIN Aggregate(Without(scores, id))
        PROVE  s \notin Aggregate(Without(scores, id))[n].supporters
    <3>1. \A i \in DOMAIN scores[s] : scores[s][i].depends_on \subseteq {id}
      BY <2>1, <2>3 DEF Sensitivity
    <3>2. \A i \in DOMAIN scores[s] : scores[s][i] \in Score
      BY <2>1 DEF Fits
    <3>3. \A i \in DOMAIN scores[s] : scores[s][i].depends_on # {}
      BY <3>2, ScoreFields
    <3>4. Kept(scores, id, s) = {}
      BY <3>1, <3>3 DEF Kept
    <3>5. DOMAIN Without(scores, id)[s] = 1..0
      BY <2>1, <3>4, WithoutList, FS_EmptySet
    <3>6. Fits(Without(scores, id)) /\ DOMAIN Without(scores, id)[s] = {}
      BY <2>1, <3>5, WithoutFits
    <3> QED
      BY <3>6, NothingLeft
  <2> QED
    BY <2>2, <2>3 DEF SensitivityAgrees
<1> QED
  BY <1>1, AlwaysIInv, PTL

\* Whatever flip is reported, the item had earned the winner at least the margin it
\* won by, for any scores and evidence (flips).
THEOREM FlipsEarned == Spec => []FlipsAreEarned
<1>1. IInv => FlipsAreEarned
  <2> SUFFICES ASSUME IInv, NEW f \in Flips(scores, evidence)
               PROVE  LET lost == {e \in Entries(scores, f.winner_before) :
                                      f.evidence_id \in scores[e[1]][e[2]].depends_on}
                          points == SumFunction([e \in lost |-> scores[e[1]][e[2]].total])
                      IN points > 0 /\ points >= f.margin_before
    BY DEF FlipsAreEarned
  <2>1. Fits(scores)
    BY ScoresFit
  <2> DEFINE w == Leader(scores).option
             margin == Leader(scores).margin
  <2>2. PICK id \in evidence :
            /\ f.evidence_id = id /\ f.winner_before = w /\ f.margin_before = margin
            /\ w # None
            /\ Leader(Without(scores, id)).option \notin {None, w}
    BY FlipsTried
  <2> DEFINE left == Without(scores, id)
             v == Leader(left).option
             T(o) == Result(scores, o).total
             K(o) == TotalOf(scores, Keeping(scores, id, o))
             L(o) == TotalOf(scores, Losing(scores, id, o))
  <2>3. Fits(left)
    BY <2>1, WithoutFits
  <2>4. w \in Scored(scores)
    BY <2>1, <2>2, LeaderIs
  <2>5. v \in Scored(left) /\ v # w
    <3> HIDE DEF left
    <3> QED
      BY <2>2, <2>3, LeaderIs DEF left
  <2>6. v \in Scored(scores)
    <3>1. Entries(left, v) # {} /\ v \in Options
      BY <2>5 DEF Scored
    <3>2. PICK h \in Bijection(Keeping(scores, id, v), Entries(left, v)) : TRUE
      BY <2>1, WithoutEntries
    <3>3. Keeping(scores, id, v) # {}
      BY <3>1, <3>2 DEF Bijection, Injection, Surjection
    <3> QED
      BY <3>1, <3>3 DEF Keeping, Scored
  <2>7. \A o \in {v, w} : /\ K(o) \in Nat /\ L(o) \in Nat /\ T(o) = K(o) + L(o) /\ T(o) > 0
                          /\ o \in Scored(left) => Result(left, o).total = K(o)
                          /\ o \notin Scored(left) => K(o) = 0
                          /\ L(o) = 0 => o \in Scored(left) /\ Result(left, o) = Result(scores, o)
    <3> SUFFICES ASSUME NEW o \in {v, w}
                 PROVE  /\ K(o) \in Nat /\ L(o) \in Nat /\ T(o) = K(o) + L(o) /\ T(o) > 0
                        /\ o \in Scored(left) => Result(left, o).total = K(o)
                        /\ o \notin Scored(left) => K(o) = 0
                        /\ L(o) = 0 => o \in Scored(left) /\ Result(left, o) = Result(scores, o)
      OBVIOUS
    <3>1. o \in Scored(scores)
      BY <2>4, <2>6
    <3> QED
      BY <2>1, <3>1, TotalsWithout
  <2>8. /\ KeyLess(Result(scores, w), Result(scores, v))
        /\ T(v) + margin <= T(w)
        /\ margin \in Int /\ margin <= T(w)
    BY <2>1, <2>4, <2>5, <2>6, LeaderIs
  <2>9. w \in Scored(left) => KeyLess(Result(left, v), Result(left, w))
    <3> HIDE DEF left
    <3> QED
      BY <2>3, <2>5, LeaderIs
  <2>10. L(w) > 0 /\ L(w) >= margin
    <3>1. CASE w \notin Scored(left)
      <4> HIDE DEF K, L, T, left, w, v, margin
      <4> QED
        BY <2>7, <2>8, <3>1
    <3>2. CASE w \in Scored(left)
      <4>1. K(w) <= K(v)
        <5>1. Result(left, v).total = K(v) /\ Result(left, w).total = K(w)
          BY <2>5, <2>7, <3>2
        <5>2. Result(left, v).total >= Result(left, w).total
          <6>1. K(v) \in Nat /\ K(w) \in Nat
            BY <2>7
          <6> HIDE DEF K, left, w, v
          <6> QED
            BY <2>9, <3>2, <5>1, <6>1 DEF KeyLess
        <5>3. K(v) \in Nat /\ K(w) \in Nat
          BY <2>7
        <5> HIDE DEF K, left, w, v
        <5> QED
          BY <5>1, <5>2, <5>3
      <4>2. L(w) >= margin
        <5> HIDE DEF K, L, T, left, w, v, margin
        <5> QED
          BY <2>7, <2>8, <4>1
      <4>3. ASSUME L(w) = 0 PROVE FALSE
        <5>1. T(v) <= T(w)
          <6>1. T(v) \in Nat /\ T(w) \in Nat
            BY <2>7
          <6>2. Result(scores, w).total >= Result(scores, v).total
            BY <2>8, <6>1 DEF KeyLess
          <6> HIDE DEF w, v
          <6> QED
            BY <6>1, <6>2 DEF T
        <5>2. L(v) = 0
          <6> HIDE DEF K, L, T, left, w, v, margin
          <6> QED
            BY <2>7, <4>1, <4>3, <5>1
        <5>3. Result(left, v) = Result(scores, v) /\ Result(left, w) = Result(scores, w)
          BY <2>7, <4>3, <5>2
        <5>4. \A r \in {Result(scores, v), Result(scores, w)} :
                  r.total \in Int /\ r.mean_confidence \in Int /\ r.option \in Int
          <6> SUFFICES ASSUME NEW o \in {v, w}
                       PROVE  LET r == Result(scores, o) IN
                              r.total \in Int /\ r.mean_confidence \in Int /\ r.option \in Int
            OBVIOUS
          <6>1. o \in Scored(scores)
            BY <2>4, <2>6
          <6> DEFINE r == Result(scores, o)
          <6>2. r.option = o /\ o \in Nat /\ r.total \in Nat /\ r.mean_confidence \in Int
            BY <2>1, <6>1, ResultIs
          <6> HIDE DEF r
          <6>3. r.total \in Int /\ r.mean_confidence \in Int /\ r.option \in Int
            BY <6>2
          <6> QED
            BY <6>3 DEF r
        <5> HIDE DEF left, w, v
        <5>5. KeyLess(Result(scores, v), Result(scores, w))
          BY <2>9, <3>2, <5>3
        <5> QED
          BY <2>8, <5>4, <5>5, KeyOrder
      <4>4. L(w) \in Nat
        BY <2>7
      <4> HIDE DEF L, w, margin
      <4> QED
        BY <4>2, <4>3, <4>4
    <3> QED
      BY <3>1, <3>2
  <2>11. L(w) = LET lost == {e \in Entries(scores, f.winner_before) :
                                f.evidence_id \in scores[e[1]][e[2]].depends_on}
                IN SumFunction([e \in lost |-> scores[e[1]][e[2]].total])
    BY <2>2 DEF TotalOf, Losing
  <2> QED
    BY <2>2, <2>10, <2>11
<1> QED
  BY <1>1, AlwaysIInv, PTL

=============================================================================
