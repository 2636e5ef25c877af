------------------------ MODULE TranscriptAuditProofs ------------------------
(***************************************************************************)
(* What is computed from a stored transcript, proved for records of any    *)
(* length: which turns Transcript.verify reports, that every edit of the   *)
(* record is reported from there to the end, that the chamber replays the  *)
(* rounds of the session row without a gap, and what the seats are told.   *)
(***************************************************************************)
EXTENDS TranscriptAudit, BoardroomProofs

\* A set of numbers that is not empty has a least.
LEMMA LeastOf ==
    ASSUME NEW S \in SUBSET Nat, S # {}
    PROVE  \E n \in S : \A m \in S : n <= m
<1>1. PICK n \in S : \A m \in S : ~(<<m, n>> \in OpToRel(<, Nat))
    BY NatLessThanWellFounded, WFMin, Zenon
<1>2. \A m \in S : ~(m < n)
    BY <1>1, Zenon DEF OpToRel
<1> QED BY <1>2

-----------------------------------------------------------------------------
(* Reading a table without gaps.                                           *)

\* The i-th turn of the transcript is the one at ordinal i - 1.
LEMMA ReadInOrder ==
    ASSUME NEW n \in Nat, NEW table, DOMAIN table = 0..(n - 1)
    PROVE  Transcript(table) = [i \in 1..n |-> table[i - 1]]
<1> DEFINE upto(o) == {p \in DOMAIN table : p <= o}
           place(i) == CHOOSE o \in DOMAIN table : Cardinality(upto(o)) = i
<1>1. ASSUME NEW o \in DOMAIN table PROVE Cardinality(upto(o)) = o + 1
    <2>1. upto(o) = 0..o
        OBVIOUS
    <2>2. 0..((o + 1) - 1) = 0..o /\ o + 1 \in Nat
        OBVIOUS
    <2> QED BY <2>1, <2>2, CountTo
<1> HIDE DEF upto
<1>2. ASSUME NEW i \in 1..n PROVE place(i) = i - 1
    <2>1. i - 1 \in DOMAIN table /\ Cardinality(upto(i - 1)) = i
        BY <1>1
    <2>2. \A o \in DOMAIN table : Cardinality(upto(o)) = i => o = i - 1
        BY <1>1
    <2> QED BY <2>1, <2>2
<1>3. Cardinality(DOMAIN table) = n
    BY CountTo
<1>4. Transcript(table) = [i \in 1..n |-> table[place(i)]]
    BY <1>3 DEF Transcript, TurnsAt, upto
<1> HIDE DEF place
<1> QED BY <1>2, <1>4

-----------------------------------------------------------------------------
(* Transcript.verify.                                                      *)

\* A turn that carries the signature of the turn before it, and its own.
Follows(rec, i) == rec[i].prev_sig = IF i = 1 THEN GENESIS ELSE rec[i - 1].sig
Passes(rec, made, i) == Follows(rec, i) /\ Genuine(rec[i], made)

\* The loop of verify, as a function of the value after the turn before.
After(rec, made, i, prev) ==
    IF /\ prev # None /\ rec[i].prev_sig = prev /\ Genuine(rec[i], made)
    THEN rec[i].sig ELSE None

\* The value after every turn, if all up to it pass.
Closed(rec, made) ==
    [i \in 0..Len(rec) |->
        IF i = 0 THEN GENESIS
        ELSE IF \A j \in 1..i : Passes(rec, made, j) THEN rec[i].sig ELSE None]

Steps(rec, made, f) ==
    f = [i \in 0..Len(rec) |-> IF i = 0 THEN GENESIS ELSE After(rec, made, i, f[i - 1])]

\* The signatures of a record are not None.
LEMMA SigsAreSomething ==
    ASSUME NEW rec \in Seq(Turn), NEW i \in 1..Len(rec)
    PROVE  rec[i].sig # None /\ rec[i].sig \in Nat
<1>1. rec[i] \in Turn
    OBVIOUS
<1> QED BY <1>1, NoSigAssumption DEF Turn

LEMMA ClosedSteps ==
    ASSUME NEW rec \in Seq(Turn), NEW made
    PROVE  Steps(rec, made, Closed(rec, made))
<1> DEFINE f == Closed(rec, made)
<1>1. ASSUME NEW i \in 1..Len(rec) PROVE f[i] = After(rec, made, i, f[i - 1])
    <2>1. Len(rec) \in Nat /\ i \in 0..Len(rec) /\ i - 1 \in 0..Len(rec) /\ i # 0
        OBVIOUS
    <2>2. f[i] = IF \A j \in 1..i : Passes(rec, made, j) THEN rec[i].sig ELSE None
        BY <2>1 DEF Closed
    <2>3. CASE i = 1
        <3>1. f[i - 1] = GENESIS /\ GENESIS # None
            BY <2>1, <2>3, NoSigAssumption DEF Closed, GENESIS
        <3>2. (\A j \in 1..i : Passes(rec, made, j)) <=> Passes(rec, made, i)
            BY <2>3
        <3> QED BY <2>2, <2>3, <3>1, <3>2 DEF After, Passes, Follows
    <2>4. CASE i # 1
        <3>1. i - 1 \in 1..Len(rec) /\ i - 1 # 0
            BY <2>1, <2>4
        <3>2. f[i - 1] = IF \A j \in 1..(i - 1) : Passes(rec, made, j)
                         THEN rec[i - 1].sig ELSE None
            BY <2>1, <3>1 DEF Closed
        <3>3. f[i - 1] # None <=> \A j \in 1..(i - 1) : Passes(rec, made, j)
            BY <3>1, <3>2, SigsAreSomething
        <3>4. (\A j \in 1..i : Passes(rec, made, j))
              <=> (\A j \in 1..(i - 1) : Passes(rec, made, j)) /\ Passes(rec, made, i)
            <4>1. 1..i = 1..(i - 1) \cup {i}
                BY <2>1
            <4> QED BY <4>1
        <3>5. Passes(rec, made, i) <=>
                  rec[i].prev_sig = rec[i - 1].sig /\ Genuine(rec[i], made)
            BY <2>4 DEF Passes, Follows
        <3> HIDE DEF f
        <3> QED BY <2>2, <3>2, <3>3, <3>4, <3>5 DEF After
    <2> QED BY <2>3, <2>4
<1>2. f[0] = GENESIS /\ Len(rec) \in Nat
    BY DEF Closed
<1>3. f = [i \in 0..Len(rec) |-> f[i]]
    BY DEF Closed
<1> HIDE DEF f
<1>4. \A i \in 0..Len(rec) :
          f[i] = IF i = 0 THEN GENESIS ELSE After(rec, made, i, f[i - 1])
    BY <1>1, <1>2
<1> QED BY <1>3, <1>4 DEF Steps, f

\* What the loop computes: expected_prev is None from the first turn that does
\* not pass.
LEMMA ExpectedIs ==
    ASSUME NEW rec \in Seq(Turn), NEW made
    PROVE  Expected(rec, made) = Closed(rec, made)
<1> DEFINE e == Expected(rec, made)
           c == Closed(rec, made)
<1>1. e = CHOOSE f : Steps(rec, made, f)
    BY Zenon DEF Expected, Steps, After
<1>2. Steps(rec, made, c)
    BY ClosedSteps
<1>3. Steps(rec, made, e)
    BY <1>1, <1>2, Zenon
<1> HIDE DEF e, c
<1>4. /\ DOMAIN e = 0..Len(rec) /\ DOMAIN c = 0..Len(rec) /\ Len(rec) \in Nat
      /\ e = [i \in 0..Len(rec) |-> e[i]] /\ c = [i \in 0..Len(rec) |-> c[i]]
    BY <1>2, <1>3 DEF Steps
<1>5. \A i \in 0..Len(rec) :
          /\ e[i] = IF i = 0 THEN GENESIS ELSE After(rec, made, i, e[i - 1])
          /\ c[i] = IF i = 0 THEN GENESIS ELSE After(rec, made, i, c[i - 1])
    BY <1>2, <1>3 DEF Steps
<1> DEFINE differ == {i \in 0..Len(rec) : e[i] # c[i]}
<1>6. differ = {}
    <2> SUFFICES ASSUME differ # {} PROVE FALSE
        OBVIOUS
    <2>1. PICK n \in differ : \A m \in differ : n <= m
        <3>1. differ \in SUBSET Nat
            BY <1>4
        <3> HIDE DEF differ
        <3> QED BY <3>1, LeastOf
    <2>2. n # 0 /\ n \in 0..Len(rec) /\ e[n] # c[n]
        BY <1>5, <2>1
    <2>3. n - 1 \in 0..Len(rec) /\ ~(n <= n - 1)
        BY <1>4, <2>2
    <2>4. e[n - 1] = c[n - 1]
        BY <2>1, <2>3
    <2> QED BY <1>5, <2>2, <2>4
<1>7. \A i \in 0..Len(rec) : e[i] = c[i]
    BY <1>6
<1> QED BY <1>4, <1>7 DEF e, c

\* verify() reports a turn exactly if it, or one before it, does not pass.
LEMMA BrokenBehind ==
    ASSUME NEW rec \in Seq(Turn), NEW made
    PROVE  Broken(rec, made) = {i \in 1..Len(rec) : \E j \in 1..i : ~Passes(rec, made, j)}
<1>1. DOMAIN rec = 1..Len(rec) /\ Len(rec) \in Nat
    OBVIOUS
<1>2. ASSUME NEW i \in 1..Len(rec)
      PROVE  Expected(rec, made)[i] = None <=> \E j \in 1..i : ~Passes(rec, made, j)
    <2>1. i \in 0..Len(rec) /\ i # 0
        BY <1>1
    <2>2. Expected(rec, made)[i] =
              IF \A j \in 1..i : Passes(rec, made, j) THEN rec[i].sig ELSE None
        BY <2>1, ExpectedIs DEF Closed
    <2> QED BY <2>2, SigsAreSomething
<1> QED BY <1>1, <1>2 DEF Broken

-----------------------------------------------------------------------------
(* What verify reports of a record that was edited.                        *)

\* A record whose turns are numbered, follow one another, and whose signatures
\* are no two equal, since each is newer than those before it.
Chained(rec) ==
    /\ rec \in Seq(Turn)
    /\ \A i \in 1..Len(rec) :
          /\ rec[i].turn_id = i - 1 /\ Follows(rec, i) /\ 0 < rec[i].sig
          /\ \A j \in 1..(i - 1) : rec[j].sig < rec[i].sig

\* A turn of the record is in it once.
LEMMA OnceInRecord ==
    ASSUME NEW rec, Chained(rec), NEW i \in 1..Len(rec), NEW t \in ToSet(rec),
           t.turn_id = i - 1
    PROVE  t = rec[i]
<1>1. PICK k \in DOMAIN rec : t = rec[k]
    BY DEF ToSet
<1>2. k \in 1..Len(rec) /\ rec[k].turn_id = k - 1 /\ k = i
    BY <1>1 DEF Chained
<1> QED BY <1>1, <1>2

\* An untouched record passes.
LEMMA Untouched ==
    ASSUME NEW rec, Chained(rec)
    PROVE  Broken(rec, ToSet(rec)) = {}
<1>1. \A i \in 1..Len(rec) : Passes(rec, ToSet(rec), i)
    BY DEF Chained, Passes, Genuine, ToSet
<1>2. \A i \in 1..Len(rec) : \A j \in 1..i : j \in 1..Len(rec)
    BY DEF Chained
<1> QED BY <1>1, <1>2, BrokenBehind DEF Chained

\* Where a record is as it was up to a turn, and that turn is not one that was
\* signed, or does not follow, everything from there to the end is reported.
LEMMA Detected ==
    ASSUME NEW rec, Chained(rec), NEW edited \in Seq(Turn), NEW i \in 1..Len(rec),
           i <= Len(edited) + 1,
           \A j \in 1..(i - 1) : edited[j] = rec[j],
           i <= Len(edited) => ~Passes(edited, ToSet(rec), i)
    PROVE  Broken(edited, ToSet(rec)) = i..Len(edited)
<1> DEFINE made == ToSet(rec)
<1>1. Len(rec) \in Nat /\ Len(edited) \in Nat /\ DOMAIN rec = 1..Len(rec)
    BY DEF Chained
<1>2. ASSUME NEW j \in 1..(i - 1) PROVE Passes(edited, made, j)
    <2>1. j \in 1..Len(rec) /\ edited[j] = rec[j] /\ rec[j] \in made
        BY <1>1 DEF ToSet
    <2>2. j # 1 => edited[j - 1] = rec[j - 1]
        BY <1>1
    <2>3. Follows(rec, j)
        BY <2>1 DEF Chained
    <2> QED BY <2>1, <2>2, <2>3 DEF Passes, Follows, Genuine
<1> HIDE DEF made
<1>3. ASSUME NEW k \in 1..Len(edited)
      PROVE  (\E j \in 1..k : ~Passes(edited, made, j)) <=> i <= k
    <2>1. CASE i <= k
        <3>1. i \in 1..k /\ i <= Len(edited)
            BY <1>1, <2>1
        <3> QED BY <2>1, <3>1 DEF made
    <2>2. CASE ~(i <= k)
        <3>1. \A j \in 1..k : j \in 1..(i - 1)
            BY <1>1, <2>2
        <3> QED BY <1>2, <2>2, <3>1
    <2> QED BY <2>1, <2>2
<1>4. Broken(edited, made) = {k \in 1..Len(edited) : \E j \in 1..k : ~Passes(edited, made, j)}
    BY BrokenBehind
<1>5. Broken(edited, made) = {k \in 1..Len(edited) : i <= k}
    BY <1>3, <1>4
<1> QED BY <1>1, <1>5 DEF made

\* A record with one turn put in the place of another's is a record of the same length.
LEMMA Replaced ==
    ASSUME NEW rec \in Seq(Turn), NEW i \in 1..Len(rec), NEW t \in Turn
    PROVE  LET edited == [rec EXCEPT ![i] = t] IN
           /\ edited \in Seq(Turn) /\ Len(edited) = Len(rec)
           /\ edited[i] = t /\ \A j \in 1..Len(rec) : j # i => edited[j] = rec[j]
OBVIOUS

\* Other words, or another speaker.
LEMMA Retouched ==
    ASSUME NEW rec, Chained(rec), NEW i \in 1..Len(rec), NEW t \in Turn,
           t.turn_id = rec[i].turn_id, t # rec[i]
    PROVE  LET edited == [rec EXCEPT ![i] = t] IN
           Broken(edited, ToSet(rec)) = i..Len(edited)
<1> DEFINE edited == [rec EXCEPT ![i] = t]
<1>1. rec \in Seq(Turn) /\ Len(rec) \in Nat /\ rec[i].turn_id = i - 1
    BY DEF Chained
<1>2. /\ edited \in Seq(Turn) /\ Len(edited) = Len(rec)
      /\ edited[i] = t /\ \A j \in 1..Len(rec) : j # i => edited[j] = rec[j]
    BY <1>1, Replaced
<1> HIDE DEF edited
<1>3. t \notin ToSet(rec)
    BY <1>1, OnceInRecord
<1>4. ~Passes(edited, ToSet(rec), i)
    BY <1>2, <1>3 DEF Passes, Genuine
<1>5. i <= Len(edited) + 1 /\ \A j \in 1..(i - 1) : j \in 1..Len(rec) /\ j # i
    BY <1>1, <1>2
<1>6. Broken(edited, ToSet(rec)) = i..Len(edited)
    BY <1>2, <1>4, <1>5, Detected
<1> QED BY <1>6 DEF edited

\* A turn that was behind the one before i does not follow it.
LEMMA OutOfPlace ==
    ASSUME NEW rec, Chained(rec), NEW i \in 1..Len(rec), NEW k \in 1..Len(rec), i < k
    PROVE  rec[k].prev_sig # IF i = 1 THEN GENESIS ELSE rec[i - 1].sig
<1>1. Len(rec) \in Nat /\ k # 1 /\ k - 1 \in 1..Len(rec) /\ i - 1 < k - 1
    BY DEF Chained
<1>2. rec[k].prev_sig = rec[k - 1].sig
    BY <1>1 DEF Chained, Follows
<1>3. rec[k - 1].sig \in Nat /\ 0 < rec[k - 1].sig
    BY <1>1, SigsAreSomething DEF Chained
<1>4. CASE i = 1
    BY <1>2, <1>3, <1>4 DEF GENESIS
<1>5. CASE i # 1
    <2>1. i - 1 \in 1..Len(rec) /\ i - 1 \in 1..((k - 1) - 1)
        BY <1>1, <1>5
    <2>2. rec[i - 1].sig \in Nat /\ rec[i - 1].sig < rec[k - 1].sig
        BY <1>1, <2>1, SigsAreSomething DEF Chained
    <2> QED BY <1>2, <1>3, <1>5, <2>2
<1> QED BY <1>4, <1>5

\* A turn removed.
LEMMA Removed ==
    ASSUME NEW rec, Chained(rec), NEW i \in 1..Len(rec)
    PROVE  LET edited == RemoveAt(rec, i) IN
           Broken(edited, ToSet(rec)) = i..Len(edited)
<1> DEFINE edited == RemoveAt(rec, i)
           front == SubSeq(rec, 1, i - 1)
           right == SubSeq(rec, i + 1, Len(rec))
<1>1. rec \in Seq(Turn) /\ Len(rec) \in Nat
    BY DEF Chained
<1>2. /\ front \in Seq(Turn) /\ Len(front) = i - 1
      /\ \A j \in 1..(i - 1) : front[j] = rec[j]
    BY <1>1
<1>3. /\ right \in Seq(Turn) /\ Len(right) = Len(rec) - i
      /\ \A j \in 1..(Len(rec) - i) : right[j] = rec[i + j]
    BY <1>1
<1>4. edited = front \o right
    BY DEF RemoveAt
<1> HIDE DEF front, right, edited
<1>5. /\ edited \in Seq(Turn) /\ Len(edited) = Len(rec) - 1
      /\ \A j \in 1..(i - 1) : edited[j] = front[j]
      /\ i <= Len(edited) => edited[i] = right[1]
    BY <1>1, <1>2, <1>3, <1>4
<1>6. \A j \in 1..(i - 1) : edited[j] = rec[j]
    BY <1>2, <1>5
<1>7. ASSUME i <= Len(edited) PROVE ~Passes(edited, ToSet(rec), i)
    <2>1. edited[i] = rec[i + 1] /\ i + 1 \in 1..Len(rec) /\ i < i + 1
        BY <1>1, <1>3, <1>5, <1>7
    <2>2. i # 1 => edited[i - 1] = rec[i - 1]
        BY <1>6
    <2>3. edited[i].prev_sig # IF i = 1 THEN GENESIS ELSE edited[i - 1].sig
        BY <2>1, <2>2, OutOfPlace
    <2> QED BY <2>3 DEF Passes, Follows
<1>8. i <= Len(edited) + 1
    BY <1>1, <1>5
<1>9. Broken(edited, ToSet(rec)) = i..Len(edited)
    BY <1>5, <1>6, <1>7, <1>8, Detected
<1> QED BY <1>9 DEF edited

\* Two turns swapped.
LEMMA Swapped ==
    ASSUME NEW rec, Chained(rec), NEW i \in 1..Len(rec), NEW k \in (i + 1)..Len(rec)
    PROVE  LET edited == [rec EXCEPT ![i] = rec[k], ![k] = rec[i]] IN
           Broken(edited, ToSet(rec)) = i..Len(edited)
<1> DEFINE first == [rec EXCEPT ![i] = rec[k]]
           edited == [rec EXCEPT ![i] = rec[k], ![k] = rec[i]]
<1>1. /\ rec \in Seq(Turn) /\ Len(rec) \in Nat /\ k \in 1..Len(rec) /\ i < k
      /\ rec[i] \in Turn /\ rec[k] \in Turn
    BY DEF Chained
<1>2. /\ first \in Seq(Turn) /\ Len(first) = Len(rec) /\ first[i] = rec[k]
      /\ \A j \in 1..Len(rec) : j # i => first[j] = rec[j]
    BY <1>1, Replaced
<1>3. edited = [first EXCEPT ![k] = rec[i]]
    BY <1>1
<1> HIDE DEF first, edited
<1>4. /\ edited \in Seq(Turn) /\ Len(edited) = Len(first)
      /\ \A j \in 1..Len(first) : j # k => edited[j] = first[j]
    BY <1>1, <1>2, <1>3, Replaced
<1>5. edited[i] = rec[k] /\ Len(edited) = Len(rec)
    BY <1>1, <1>2, <1>4
<1>6. \A j \in 1..(i - 1) : edited[j] = rec[j]
    <2> SUFFICES ASSUME NEW j \in 1..(i - 1) PROVE edited[j] = rec[j]
        OBVIOUS
    <2>1. j \in 1..Len(rec) /\ j # i /\ j # k
        BY <1>1
    <2> QED BY <1>2, <1>4, <2>1
<1>7. ~Passes(edited, ToSet(rec), i)
    <2>1. i # 1 => edited[i - 1] = rec[i - 1]
        BY <1>6
    <2>2. edited[i].prev_sig # IF i = 1 THEN GENESIS ELSE edited[i - 1].sig
        BY <1>1, <1>5, <2>1, OutOfPlace
    <2> QED BY <2>2 DEF Passes, Follows
<1>8. i <= Len(edited) + 1
    BY <1>1, <1>5
<1>9. Broken(edited, ToSet(rec)) = i..Len(edited)
    BY <1>4, <1>6, <1>7, <1>8, Detected
<1> QED BY <1>9 DEF edited

\* Edits of any kind, of any record, are reported from there to the end.
LEMMA EditsReported ==
    ASSUME Chained(Transcript(turns))
    PROVE  TamperEvident
<1> DEFINE rec == Transcript(turns)
           made == ToSet(rec)
<1>1. Chained(rec) /\ rec \in Seq(Turn) /\ DOMAIN rec = 1..Len(rec)
    BY DEF Chained
<1> HIDE DEF rec
<1>2. Broken(rec, made) = {}
    BY <1>1, Untouched
<1>3. ASSUME NEW i \in DOMAIN rec, NEW said \in Texts \ {rec[i].text}
      PROVE  LET edited == [rec EXCEPT ![i].text = said] IN
             Broken(edited, made) = i..Len(edited)
    <2> DEFINE t == [rec[i] EXCEPT !.text = said]
    <2>0. rec[i] \in Turn /\ said \in Texts
        BY <1>1
    <2>1. t \in Turn /\ t.turn_id = rec[i].turn_id /\ t.text = said
        BY <2>0 DEF Turn
    <2>2. [rec EXCEPT ![i].text = said] = [rec EXCEPT ![i] = t]
        BY <1>1
    <2> HIDE DEF t
    <2>3. t # rec[i]
        BY <1>3, <2>1
    <2>4. LET edited == [rec EXCEPT ![i] = t] IN Broken(edited, ToSet(rec)) = i..Len(edited)
        BY <1>1, <2>1, <2>3, Retouched
    <2> QED BY <2>2, <2>4
<1>4. ASSUME NEW i \in DOMAIN rec, NEW who \in Speakers \ {rec[i].speaker}
      PROVE  LET edited == [rec EXCEPT ![i].speaker = who] IN
             Broken(edited, made) = i..Len(edited)
    <2> DEFINE t == [rec[i] EXCEPT !.speaker = who]
    <2>0. rec[i] \in Turn /\ who \in Speakers
        BY <1>1
    <2>1. t \in Turn /\ t.turn_id = rec[i].turn_id /\ t.speaker = who
        BY <2>0 DEF Turn
    <2>2. [rec EXCEPT ![i].speaker = who] = [rec EXCEPT ![i] = t]
        BY <1>1
    <2> HIDE DEF t
    <2>3. t # rec[i]
        BY <1>4, <2>1
    <2>4. LET edited == [rec EXCEPT ![i] = t] IN Broken(edited, ToSet(rec)) = i..Len(edited)
        BY <1>1, <2>1, <2>3, Retouched
    <2> QED BY <2>2, <2>4
<1>5. ASSUME NEW i \in DOMAIN rec
      PROVE  LET edited == RemoveAt(rec, i) IN
             Broken(edited, made) = i..Len(edited)
    BY <1>1, Removed
<1>6. ASSUME NEW i \in DOMAIN rec, NEW j \in (i + 1)..Len(rec)
      PROVE  LET edited == [rec EXCEPT ![i] = rec[j], ![j] = rec[i]] IN
             Broken(edited, made) = i..Len(edited)
    BY <1>1, Swapped
<1> HIDE DEF made
<1> QED BY <1>2, <1>3, <1>4, <1>5, <1>6 DEF TamperEvident, rec, made

-----------------------------------------------------------------------------
(* The invariant: who speaks, which signatures are new, which rounds there *)
(* are.                                                                    *)

\* An argument is what a seat says, and nothing else is; the opening is before round 1.
Voiced(t) ==
    /\ t.text = "argument" <=> t.speaker \in Seats
    /\ t.text = "opening" => t.round_no = 0

\* Every turn is signed after those before it.
Rises ==
    \A o \in DOMAIN turns :
        /\ 0 < turns[o].sig /\ turns[o].sig <= signed
        /\ \A p \in DOMAIN turns : p < o => turns[p].sig < turns[o].sig

\* So are the turns of a batch, after those of the record that they follow.
Newer(w) ==
    LET r == loc[w] IN
    r.pc \in {"save_turns", "save_session"} =>
        \A i \in DOMAIN r.new :
            /\ 0 < r.new[i].sig /\ r.new[i].sig <= signed /\ Voiced(r.new[i])
            /\ \A j \in DOMAIN r.new : j < i => r.new[j].sig < r.new[i].sig
            /\ \A o \in DOMAIN turns : o < r.ord => turns[o].sig < r.new[i].sig

\* The rounds that are committed are those of the session row, and perhaps the
\* next, whose row is not saved yet or was lost.
Argued == {turns[o].round_no : o \in {p \in Committed : turns[p].speaker \in Seats}}
RoundsCounted == row # None => Argued \in {1..row.round_no, 1..(row.round_no + 1)}

\* A round under way is the next of the session row.
NextRound(w) ==
    loc[w].kind = "round" /\ loc[w].pc \in {"listen", "save_turns", "save_session"} =>
        loc[w].row.round_no = row.round_no + 1

AuditInv ==
    /\ \A o \in DOMAIN turns : Voiced(turns[o])
    /\ Rises /\ RoundsCounted
    /\ \A w \in Workers : Newer(w) /\ NextRound(w)

\* A step of w that leaves the table and the row alone keeps the invariant if
\* what it has signed is new and its round the next.
LEMMA QuietAudit ==
    ASSUME Before, AuditInv, OneAtATime', NEW w \in Workers,
           row' = row, turns' = turns, txn' = txn, signed' \in Nat, signed <= signed',
           loc[w].pc # "idle" \/ loc'[w].pc # "idle",
           \A v \in Workers \ {w} : loc'[v] = loc[v],
           Newer(w)', NextRound(w)'
    PROVE  AuditInv'
<1>1. \A v \in Workers \ {w} : loc'[v].pc = "idle"
    BY OthersIdle DEF Before
<1>2. \A v \in Workers : Newer(v)' /\ NextRound(v)'
    BY <1>1 DEF Newer, NextRound
<1>3. signed \in Nat /\ \A o \in DOMAIN turns : turns[o].sig \in Nat
    BY DEF Before, TypeOK, Turn
<1>4. Rises'
    BY <1>3 DEF AuditInv, Rises
<1>5. Argued' = Argued
    BY DEF Argued, Committed
<1>6. RoundsCounted'
    BY <1>5 DEF AuditInv, RoundsCounted
<1>7. \A o \in DOMAIN turns' : Voiced(turns'[o])
    BY DEF AuditInv
<1> QED BY <1>2, <1>4, <1>6, <1>7 DEF AuditInv, Voiced

\* What is signed now is newer than the record.
LEMMA SignedNow ==
    ASSUME TypeOK, Rises, NEW w \in Workers, NEW r, r.base \in Nat,
           NEW speakers \in Seq(Speakers), NEW text,
           \A i \in DOMAIN speakers : text = "argument" <=> speakers[i] \in Seats,
           text = "opening" => r.row.round_no = 0,
           turns' = turns, signed' = signed + Len(speakers),
           loc'[w].new = Sign(r, speakers, text)
    PROVE  Newer(w)' /\ signed' \in Nat /\ signed <= signed'
<1> DEFINE new == Sign(r, speakers, text)
<1>1. /\ signed \in Nat /\ Len(speakers) \in Nat /\ DOMAIN speakers = 1..Len(speakers)
      /\ \A o \in DOMAIN turns : turns[o].sig \in Nat
    BY DEF TypeOK, Turn
<1>2. /\ DOMAIN new = DOMAIN speakers
      /\ \A i \in DOMAIN new : /\ new[i].sig = signed + i /\ new[i].text = text
                               /\ new[i].speaker = speakers[i]
                               /\ new[i].round_no = r.row.round_no
    BY DEF Sign
<1> HIDE DEF new
<1>3. ASSUME NEW i \in DOMAIN new
      PROVE  /\ 0 < new[i].sig /\ new[i].sig <= signed' /\ Voiced(new[i])
             /\ \A j \in DOMAIN new : j < i => new[j].sig < new[i].sig
             /\ \A o \in DOMAIN turns : turns[o].sig < new[i].sig
    <2>1. i \in 1..Len(speakers) /\ new[i].sig = signed + i
        BY <1>1, <1>2
    <2>2. 0 < new[i].sig /\ new[i].sig <= signed'
        BY <1>1, <2>1
    <2>3. Voiced(new[i])
        BY <1>2 DEF Voiced
    <2>4. \A j \in DOMAIN new : j < i => new[j].sig < new[i].sig
        BY <1>1, <1>2, <2>1
    <2>5. \A o \in DOMAIN turns : turns[o].sig < new[i].sig
        BY <1>1, <2>1 DEF Rises
    <2> QED BY <2>2, <2>3, <2>4, <2>5
<1>4. loc'[w].new = new
    BY DEF new
<1>5. Newer(w)'
    BY <1>3, <1>4 DEF Newer, Voiced
<1> QED BY <1>1, <1>5

\* A speech of the Facilitator, the chair or the seats.
LEMMA SpeakAudit ==
    ASSUME Before, AuditInv, OneAtATime', NEW w \in Workers, NEW s \in Session,
           NEW speakers \in Seq(Speakers), NEW text, text # "opening",
           \A i \in DOMAIN speakers : text = "argument" <=> speakers[i] \in Seats,
           Speak(w, s, speakers, text, "save_turns"),
           row' = row, turns' = turns, txn' = txn, loc[w].pc # "idle",
           loc[w].kind = "round" => s.round_no = row.round_no + 1
    PROVE  AuditInv'
<1> DEFINE r == [loc[w] EXCEPT !.row = s]
           new == Sign(r, speakers, text)
<1>1. loc \in [Workers -> Request] /\ loc[w] \in Request
    BY DEF Before, TypeOK
<1>2. loc' = [loc EXCEPT ![w] = [r EXCEPT !.new = new, !.pc = "save_turns"]]
    BY DEF Speak
<1>3. /\ loc'[w] = [r EXCEPT !.new = new, !.pc = "save_turns"]
      /\ \A v \in Workers \ {w} : loc'[v] = loc[v]
    BY <1>1, <1>2
<1> HIDE DEF new
<1>4. /\ loc'[w].pc = "save_turns" /\ loc'[w].new = new /\ loc'[w].kind = loc[w].kind
      /\ loc'[w].row = s /\ r.base \in Nat
    BY <1>1, <1>3 DEF Request
<1>5. signed' = signed + Len(speakers)
    BY DEF Speak
<1> HIDE DEF r
<1>6. Newer(w)' /\ signed' \in Nat /\ signed <= signed'
    BY <1>4, <1>5, SignedNow DEF new, Before, AuditInv
<1>7. NextRound(w)'
    BY <1>4 DEF NextRound
<1> QED BY <1>3, <1>6, <1>7, QuietAudit

\* Steps of w in private, between loading the session and saving it.
LEMMA ReadAudit ==
    ASSUME Before, AuditInv, OneAtATime', NEW w \in Workers,
           \/ LoadRow(w) \/ LoadTurns(w) \/ RefuseClosed(w) \/ Count(w)
           \/ RefuseEngaged(w) \/ FailRound(w) \/ BeginRound(w)
    PROVE  AuditInv'
<1>1. /\ loc \in [Workers -> Request] /\ loc[w] \in Request /\ Phase(w) /\ signed \in Nat
    BY DEF Before, TypeOK, SerialInv
<1>2. row' = row /\ turns' = turns /\ txn' = txn /\ signed' = signed
    BY DEF LoadRow, LoadTurns, RefuseClosed, Count, RefuseEngaged, FailRound, BeginRound
<1>3. \A v \in Workers \ {w} : loc'[v] = loc[v]
    BY <1>1 DEF LoadRow, LoadTurns, RefuseClosed, Count, RefuseEngaged, FailRound,
                BeginRound, Finish
<1>4. CASE LoadRow(w)
    <2>1. loc'[w].pc = "load_turns"
        BY <1>1, <1>4 DEF LoadRow, Idle
    <2> QED BY <1>1, <1>2, <1>3, <2>1, QuietAudit DEF Newer, NextRound
<1>5. CASE LoadTurns(w)
    <2>1. loc'[w].pc = "count" /\ loc[w].pc = "load_turns"
        BY <1>1, <1>5 DEF LoadTurns, Request
    <2> QED BY <1>1, <1>2, <1>3, <2>1, QuietAudit DEF Newer, NextRound
<1>6. CASE RefuseClosed(w) \/ RefuseEngaged(w) \/ FailRound(w)
    <2>1. loc'[w] = Idle /\ loc[w].pc # "idle"
        BY <1>1, <1>6 DEF RefuseClosed, RefuseEngaged, FailRound, Finish
    <2>2. loc'[w].pc = "idle"
        BY <2>1 DEF Idle
    <2> QED BY <1>1, <1>2, <1>3, <2>1, <2>2, QuietAudit DEF Newer, NextRound
<1>7. CASE Count(w)
    <2>1. loc'[w].pc = "act" /\ loc[w].pc = "count"
        BY <1>1, <1>7 DEF Count, Request
    <2> QED BY <1>1, <1>2, <1>3, <2>1, QuietAudit DEF Newer, NextRound
<1>8. CASE BeginRound(w)
    <2>1. loc[w].pc = "act" /\ loc[w].row = row /\ row # None /\ row \in Session
        BY <1>1, <1>8 DEF BeginRound, Phase, Reads, Before, TypeOK
    <2>2. loc'[w] = [loc[w] EXCEPT !.pc = "listen", !.row.round_no = @ + 1]
        BY <1>1, <1>8 DEF BeginRound
    <2>3. loc'[w].pc = "listen" /\ loc'[w].row.round_no = row.round_no + 1
        BY <1>1, <2>1, <2>2 DEF Request, Session
    <2> QED BY <1>1, <1>2, <1>3, <2>1, <2>3, QuietAudit DEF Newer, NextRound
<1> QED BY <1>4, <1>5, <1>6, <1>7, <1>8

\* Steps of w in which somebody speaks.
LEMMA VoiceAudit ==
    ASSUME Before, AuditInv, OneAtATime', NEW w \in Workers,
           Interject(w) \/ Advance(w) \/ Close(w) \/ EndRound(w)
    PROVE  AuditInv'
<1>1. /\ loc \in [Workers -> Request] /\ loc[w] \in Request /\ Phase(w) /\ row' = row
      /\ turns' = turns /\ txn' = txn /\ row \in Session \cup {None}
    BY DEF Before, TypeOK, SerialInv, Interject, Advance, Close, EndRound
<1>2. loc[w].pc = "act" => loc[w].row = row /\ row \in Session
    BY <1>1 DEF Phase, Reads
<1>3. "chair" \notin Seats /\ "facilitator" \notin Seats
    BY SeatingAssumption
<1>4. CASE Interject(w)
    <2>1. /\ loc[w].pc = "act" /\ loc[w].kind = "interject"
          /\ Speak(w, row, <<"chair">>, "interjection", "save_turns")
        BY <1>2, <1>4 DEF Interject
    <2>2. \A i \in DOMAIN <<"chair">> :
              "interjection" = "argument" <=> <<"chair">>[i] \in Seats
        BY <1>3
    <2>3. row \in Session /\ loc[w].kind # "round" /\ loc[w].pc # "idle"
        BY <1>2, <2>1
    <2> QED BY <1>1, <2>1, <2>2, <2>3, SpeakAudit, SpeakerTypes
<1>5. ASSUME NEW s \in Session, NEW text, text \notin {"argument", "opening"},
             loc[w].kind # "round", loc[w].pc = "act", Speak(w, s, <<"facilitator">>, text, "save_turns")
      PROVE  AuditInv'
    <2>1. \A i \in DOMAIN <<"facilitator">> : <<"facilitator">>[i] \notin Seats
        BY <1>3
    <2> QED BY <1>1, <1>5, <2>1, SpeakAudit, SpeakerTypes
<1>6. CASE Advance(w)
    <2>1. PICK st \in Stages :
              Speak(w, [row EXCEPT !.stage = st], <<"facilitator">>, "stage", "save_turns")
        BY <1>2, <1>6 DEF Advance
    <2>2. loc[w].pc = "act" /\ loc[w].kind = "advance"
        BY <1>6 DEF Advance
    <2>3. [row EXCEPT !.stage = st] \in Session
        BY <1>2, <2>2 DEF Session
    <2> QED BY <1>5, <2>1, <2>2, <2>3
<1>7. CASE Close(w)
    <2>1. /\ loc[w].pc = "act" /\ loc[w].kind = "close"
          /\ Speak(w, [row EXCEPT !.closed = TRUE], <<"facilitator">>, "closing", "save_turns")
        BY <1>2, <1>7 DEF Close
    <2>2. [row EXCEPT !.closed = TRUE] \in Session
        BY <1>2, <2>1 DEF Session
    <2> QED BY <1>5, <2>1, <2>2
<1>8. CASE EndRound(w)
    <2>1. /\ loc[w].pc = "listen"
          /\ Speak(w, loc[w].row, Seating, "argument", "save_turns")
        BY <1>8 DEF EndRound
    <2>2. loc[w].row \in Session /\ loc[w].kind = "round"
        BY <1>1, <2>1 DEF Phase, Listens, Before, RequestOK, Sane
    <2>3. loc[w].row.round_no = row.round_no + 1
        BY <2>1, <2>2 DEF AuditInv, NextRound
    <2>4. \A i \in DOMAIN Seating : Seating[i] \in Seats
        BY DEF Seats
    <2> QED BY <1>1, <2>1, <2>2, <2>3, <2>4, SpeakAudit, SpeakerTypes
<1> QED BY <1>4, <1>6, <1>7, <1>8

\* A session is opened, in memory.
LEMMA OpenAudit ==
    ASSUME Before, AuditInv, OneAtATime', NEW w \in Workers, Open(w)
    PROVE  AuditInv'
<1>1. loc \in [Workers -> Request] /\ signed \in Nat
    BY DEF Before, TypeOK
<1>2. PICK s \in Stages :
          LET r == [Idle EXCEPT !.row = [stage |-> s, round_no |-> 0, closed |-> FALSE]] IN
          loc' = [loc EXCEPT ![w] = [r EXCEPT !.new = Sign(r, <<"facilitator">>, "opening"),
                                              !.pc = "save_session"]]
    BY DEF Open
<1> DEFINE r == [Idle EXCEPT !.row = [stage |-> s, round_no |-> 0, closed |-> FALSE]]
           new == Sign(r, <<"facilitator">>, "opening")
<1>3. loc'[w] = [r EXCEPT !.new = new, !.pc = "save_session"]
      /\ \A v \in Workers \ {w} : loc'[v] = loc[v]
    BY <1>1, <1>2
<1> HIDE DEF new
<1>4. loc'[w].pc = "save_session" /\ loc'[w].kind = "open" /\ loc'[w].new = new /\ r.base = 0
    BY <1>3 DEF Idle
<1> HIDE DEF r
<1>5. /\ row' = row /\ turns' = turns /\ txn' = txn
      /\ signed' = signed + Len(<<"facilitator">>)
    BY <1>1 DEF Open
<1>7. Newer(w)' /\ signed' \in Nat /\ signed <= signed'
    <2> DEFINE who == <<"facilitator">>
               text == "opening"
    <2>1. TypeOK /\ Rises /\ r.base \in Nat /\ who \in Seq(Speakers)
        BY <1>4, SpeakerTypes DEF Before, AuditInv
    <2>2. loc'[w].new = Sign(r, who, text) /\ signed' = signed + Len(who)
        BY <1>4, <1>5 DEF new
    <2>3. \A i \in DOMAIN who : text = "argument" <=> who[i] \in Seats
        BY SeatingAssumption
    <2>4. r.row.round_no = 0
        BY DEF r
    <2> HIDE DEF who, text
    <2> QED BY <1>5, <2>1, <2>2, <2>3, <2>4, SignedNow
<1>8. NextRound(w)'
    BY <1>4 DEF NextRound
<1> QED BY <1>3, <1>4, <1>5, <1>7, <1>8, QuietAudit

\* The turns of a round are shown, and the findings filed.
LEMMA StreamAudit ==
    ASSUME Before, AuditInv, OneAtATime', NEW w \in Workers, StreamTurn(w) \/ SaveFlags(w)
    PROVE  AuditInv'
<1>1. /\ loc \in [Workers -> Request] /\ signed \in Nat /\ loc[w].pc = "stream"
      /\ row' = row /\ turns' = turns /\ signed' = signed
    BY DEF Before, TypeOK, StreamTurn, SaveFlags
<1>2. txn' = txn
    <2>1. txn = {}
        BY <1>1, TxnEmpty
    <2> QED BY <2>1 DEF StreamTurn, SaveFlags, Commit
<1>3. loc'[w].pc \in {"stream", "idle"} /\ \A v \in Workers \ {w} : loc'[v] = loc[v]
    BY <1>1 DEF StreamTurn, SaveFlags, Finish, Idle, Request
<1> QED BY <1>1, <1>2, <1>3, QuietAudit DEF Newer, NextRound

\* The rounds argued once a batch is committed.
LEMMA BatchArgued ==
    ASSUME Before, AuditInv, NEW w \in Workers, SaveTurn(w),
           loc[w].at + 1 = Len(loc[w].new)
    PROVE  RoundsCounted'
<1> DEFINE r == loc[w]
           spoken == {r.new[i].round_no : i \in {j \in DOMAIN r.new : r.new[j].speaker \in Seats}}
<1>1. /\ r \in Request /\ Phase(w) /\ r.pc = "save_turns" /\ row' = row
      /\ Rows \in Nat /\ DOMAIN turns = 0..(Rows - 1)
    BY CommittedTo DEF Before, TypeOK, SerialInv, SaveTurn
<1>2. /\ Signs(w) /\ Changes(w) /\ r.at \in Nat /\ r.ord \in Nat
      /\ DOMAIN r.new = 1..Len(r.new) /\ Len(r.new) \in Nat /\ r.at + 1 = Len(r.new)
    BY <1>1 DEF Phase, SavesTurns, Request
<1>3. /\ \A i \in 1..Len(r.new) : turns'[r.ord + i - 1] = r.new[i]
      /\ Committed = 0..(r.ord - 1) /\ Committed' = 0..(r.ord + Len(r.new) - 1)
    <2>1. /\ \A i \in 1..(r.at + 1) : turns'[r.ord + i - 1] = r.new[i]
          /\ Rows' = r.ord + r.at + 1 /\ Committed = 0..(r.ord - 1)
          /\ Committed' = 0..(Rows' - 1)
        BY SavedSoFar
    <2>2. Rows' - 1 = r.ord + Len(r.new) - 1
        <3>1. /\ Rows' = r.ord + r.at + 1 /\ r.at + 1 = Len(r.new)
              /\ r.ord \in Nat /\ r.at \in Nat
            BY <1>2, <2>1
        <3> HIDE DEF r
        <3> QED BY <3>1
    <2> QED BY <1>2, <2>1, <2>2
<1>4. \A p \in Committed : turns'[p] = turns[p]
    BY SavesNext DEF Committed
<1> HIDE DEF r
<1>5. \A p \in Committed' : p \in Committed \/ p - r.ord + 1 \in 1..Len(r.new)
    BY <1>2, <1>3
<1>6. \A p \in Committed' \ Committed : turns'[p] = r.new[p - r.ord + 1]
    <2> SUFFICES ASSUME NEW p \in Committed' \ Committed
                 PROVE  turns'[p] = r.new[p - r.ord + 1]
        OBVIOUS
    <2>1. p - r.ord + 1 \in 1..Len(r.new) /\ p \in Int
        BY <1>2, <1>3, <1>5
    <2>2. r.ord + (p - r.ord + 1) - 1 = p
        BY <1>2, <2>1
    <2> QED BY <1>3, <2>1, <2>2
<1>7. \A i \in 1..Len(r.new) : r.ord + i - 1 \in Committed'
    BY <1>2, <1>3
<1>8. Committed \subseteq Committed'
    BY <1>2, <1>3
<1>9. Argued' = Argued \cup spoken
    <2>1. ASSUME NEW n \in Argued PROVE n \in Argued'
        BY <1>4, <1>8 DEF Argued
    <2>2. ASSUME NEW n \in spoken PROVE n \in Argued'
        <3>1. PICK i \in DOMAIN r.new : r.new[i].speaker \in Seats /\ n = r.new[i].round_no
            OBVIOUS
        <3> QED BY <1>2, <1>3, <1>7, <3>1 DEF Argued
    <2>3. ASSUME NEW n \in Argued' PROVE n \in Argued \cup spoken
        <3>1. PICK p \in Committed' : turns'[p].speaker \in Seats /\ n = turns'[p].round_no
            BY DEF Argued
        <3>2. CASE p \in Committed
            BY <1>4, <3>1, <3>2 DEF Argued
        <3>3. CASE p \notin Committed
            BY <1>2, <1>5, <1>6, <3>1, <3>3
        <3> QED BY <3>2, <3>3
    <2> HIDE DEF spoken
    <2> QED BY <2>1, <2>2, <2>3
<1>10. row \in Session /\ row.round_no \in Nat
    BY <1>2 DEF Changes, Before, TypeOK, Session
<1>11. \A i \in DOMAIN r.new : Voiced(r.new[i])
    BY <1>1 DEF AuditInv, Newer, r
<1>12. CASE r.kind # "round"
    <2>1. spoken = {}
        BY <1>2, <1>11, <1>12 DEF Signs, Voiced, r
    <2>2. Argued' = Argued
        BY <1>9, <2>1
    <2> QED BY <1>1, <2>2 DEF AuditInv, RoundsCounted
<1>13. CASE r.kind = "round"
    <2>1. r.row.round_no = row.round_no + 1
        BY <1>1, <1>13 DEF AuditInv, NextRound, r
    <2>2. \A i \in DOMAIN r.new : /\ r.new[i].round_no = row.round_no + 1
                                  /\ r.new[i].speaker \in Seats
        BY <1>2, <1>11, <1>13, <2>1 DEF Signs, Voiced, r
    <2>3. 1 \in DOMAIN r.new
        BY <1>2
    <2>4. spoken = {row.round_no + 1}
        BY <2>2, <2>3
    <2>5. Argued \in {1..row.round_no, 1..(row.round_no + 1)}
        BY <1>10, NoneAssumption DEF AuditInv, RoundsCounted
    <2>6. Argued' = 1..(row.round_no + 1)
        BY <1>9, <1>10, <2>4, <2>5
    <2> QED BY <1>1, <2>6 DEF RoundsCounted
<1> QED BY <1>12, <1>13

LEMMA BatchAudit ==
    ASSUME Before, AuditInv, OneAtATime', NEW w \in Workers, SaveTurn(w)
    PROVE  AuditInv'
<1> DEFINE r == loc[w]
           t == r.new[r.at + 1]
<1>1. /\ loc \in [Workers -> Request] /\ r \in Request /\ Phase(w) /\ r.pc = "save_turns"
      /\ row' = row /\ signed' = signed /\ Rows \in Nat /\ DOMAIN turns = 0..(Rows - 1)
    BY CommittedTo DEF Before, TypeOK, SerialInv, SaveTurn
<1>2. /\ Stored(w, r.at) /\ r.at < Len(r.new) /\ Rows = r.ord + r.at
      /\ r.at \in Nat /\ r.ord \in Nat /\ r.new \in Seq(Turn)
    BY <1>1 DEF Phase, SavesTurns, Stored, Request
<1>3. /\ DOMAIN turns' = 0..Rows /\ turns'[Rows] = t
      /\ \A p \in DOMAIN turns : turns'[p] = turns[p]
    BY SavesNext
<1>4. \A o \in DOMAIN turns' : o \in DOMAIN turns \/ o = Rows
    BY <1>1, <1>3
<1>5. r.at + 1 \in DOMAIN r.new
    BY <1>2
<1>6. /\ 0 < t.sig /\ t.sig <= signed /\ Voiced(t)
      /\ \A j \in DOMAIN r.new : j < r.at + 1 => r.new[j].sig < t.sig
      /\ \A o \in DOMAIN turns : o < r.ord => turns[o].sig < t.sig
    BY <1>1, <1>5 DEF AuditInv, Newer
<1> HIDE DEF t
<1>7. ASSUME NEW p \in DOMAIN turns PROVE turns[p].sig < t.sig
    <2>1. CASE p < r.ord
        BY <1>6, <2>1
    <2>2. CASE ~(p < r.ord)
        <3> DEFINE j == p - r.ord + 1
        <3>1. j \in 1..r.at /\ r.ord + j - 1 = p
            <4>1. r.at \in Nat /\ r.ord \in Nat /\ p \in 0..(r.ord + r.at - 1) /\ r.ord <= p
                BY <1>1, <1>2, <2>2
            <4> HIDE DEF r
            <4> QED BY <4>1
        <3>2. j \in DOMAIN r.new /\ j < r.at + 1
            BY <1>2, <3>1
        <3>3. turns[r.ord + j - 1] = r.new[j]
            BY <1>2, <3>1 DEF Stored
        <3> QED BY <1>6, <3>1, <3>2, <3>3
    <2> QED BY <2>1, <2>2
<1>8. Rises'
    <2> SUFFICES ASSUME NEW o \in DOMAIN turns'
                 PROVE  /\ 0 < turns'[o].sig /\ turns'[o].sig <= signed
                        /\ \A p \in DOMAIN turns' : p < o => turns'[p].sig < turns'[o].sig
        BY <1>1 DEF Rises
    <2>1. \A p \in DOMAIN turns' : p < o => p \in DOMAIN turns
        BY <1>1, <1>3
    <2>2. CASE o = Rows
        BY <1>3, <1>6, <1>7, <2>1, <2>2
    <2>3. CASE o \in DOMAIN turns
        <3>1. /\ 0 < turns[o].sig /\ turns[o].sig <= signed
              /\ \A p \in DOMAIN turns : p < o => turns[p].sig < turns[o].sig
            BY <2>3 DEF AuditInv, Rises
        <3> QED BY <1>3, <2>1, <2>3, <3>1
    <2> QED BY <1>4, <2>2, <2>3
<1>9. \A o \in DOMAIN turns' : Voiced(turns'[o])
    BY <1>3, <1>4, <1>6 DEF AuditInv
<1>10. RoundsCounted'
    <2>1. CASE r.at + 1 = Len(r.new)
        BY <2>1, BatchArgued
    <2>2. CASE r.at + 1 # Len(r.new)
        <3>1. Committed' = Committed
            BY <2>2, SavedSoFar
        <3>2. \A p \in Committed : turns'[p] = turns[p]
            BY <1>3 DEF Committed
        <3>3. Argued' = Argued
            BY <3>1, <3>2 DEF Argued
        <3> QED BY <1>1, <3>3 DEF AuditInv, RoundsCounted
    <2> QED BY <2>1, <2>2
<1>11. \/ loc' = [loc EXCEPT ![w].at = @ + 1]
       \/ loc' = [loc EXCEPT ![w].pc = "save_session", ![w].at = 0]
       \/ loc' = [loc EXCEPT ![w] = Idle]
    BY DEF SaveTurn, Saved, Finish
<1>12. \A v \in Workers \ {w} : loc'[v] = loc[v]
    BY <1>1, <1>11
<1>13. \/ loc'[w].pc = "idle"
       \/ /\ loc'[w].pc \in {"save_turns", "save_session"} /\ loc'[w].kind = r.kind
          /\ loc'[w].new = r.new /\ loc'[w].ord = r.ord /\ loc'[w].row = r.row
    BY <1>1, <1>11 DEF Idle, Request
<1>14. Newer(w)'
    <2>1. CASE loc'[w].pc = "idle"
        BY <2>1 DEF Newer
    <2>2. CASE loc'[w].pc # "idle"
        <3>1. /\ loc'[w].new = r.new /\ loc'[w].ord = r.ord
            BY <1>13, <2>2
        <3>2. \A i \in DOMAIN r.new :
                  /\ 0 < r.new[i].sig /\ r.new[i].sig <= signed /\ Voiced(r.new[i])
                  /\ \A j \in DOMAIN r.new : j < i => r.new[j].sig < r.new[i].sig
                  /\ \A o \in DOMAIN turns : o < r.ord => turns[o].sig < r.new[i].sig
            BY <1>1 DEF AuditInv, Newer
        <3>3. \A o \in DOMAIN turns' : o < r.ord => o \in DOMAIN turns /\ turns'[o] = turns[o]
            BY <1>1, <1>2, <1>3
        <3> HIDE DEF r
        <3> QED BY <1>1, <3>1, <3>2, <3>3 DEF Newer, Voiced
    <2> QED BY <2>1, <2>2
<1>15. NextRound(w)'
    <2>1. r.kind = "round" => r.row.round_no = row.round_no + 1
        BY <1>1 DEF AuditInv, NextRound
    <2> QED BY <1>1, <1>13, <2>1 DEF NextRound
<1>16. \A v \in Workers : Newer(v)' /\ NextRound(v)'
    <2>1. \A v \in Workers \ {w} : loc'[v].pc = "idle"
        BY <1>1, <1>12, OthersIdle DEF Before
    <2> QED BY <1>14, <1>15, <2>1 DEF Newer, NextRound
<1> QED BY <1>8, <1>9, <1>10, <1>16 DEF AuditInv, Voiced

\* The row of a session that is new, or was advanced, closed or argued in.
LEMMA RowAudit ==
    ASSUME Before, AuditInv, OneAtATime', NEW w \in Workers, SaveSession(w)
    PROVE  AuditInv'
<1> DEFINE r == loc[w]
<1>1. /\ loc \in [Workers -> Request] /\ r \in Request /\ r.row \in Session
      /\ r.pc = "save_session" /\ StoreOK /\ Phase(w)
    BY DEF Before, TypeOK, SerialInv, SaveSession, RequestOK, Sane
<1>2. row' = r.row /\ txn' = {} /\ turns' = turns /\ signed' = signed
    BY DEF SaveSession, Commit
<1>3. txn = {} /\ Committed = DOMAIN turns /\ Argued' = Argued
    BY <1>1, <1>2, TxnEmpty DEF Committed, Argued
<1>4. /\ loc'[w].pc \in {"save_turns", "stream", "idle"}
      /\ loc'[w].pc = "save_turns" => /\ r.kind = "open" /\ loc'[w].kind = "open"
                                      /\ loc'[w].new = r.new /\ loc'[w].ord = r.ord
      /\ \A v \in Workers \ {w} : loc'[v] = loc[v]
    BY <1>1 DEF SaveSession, Goto, Finish, Idle, Request
<1>5. RoundsCounted'
    <2>1. CASE r.kind = "open"
        <3>1. row = None /\ r.row.round_no = 0 /\ Rows = 0
            BY <1>1, <2>1 DEF Phase, Opens, StoreOK, Contiguous
        <3>2. DOMAIN turns = {}
            BY <1>1, <3>1 DEF StoreOK, Contiguous
        <3>3. Argued = {} /\ 1..0 = {}
            BY <1>3, <3>2 DEF Argued
        <3> QED BY <1>2, <1>3, <3>1, <3>3 DEF RoundsCounted
    <2>2. CASE r.kind # "open"
        <3>1. /\ Changes(w) /\ Signs(w) /\ row \in Session /\ row.round_no \in Nat
            BY <1>1, <2>2 DEF Phase, SavesSession, Changes, Before, TypeOK, Session
        <3>2. Argued \in {1..row.round_no, 1..(row.round_no + 1)}
            BY <3>1 DEF Changes, AuditInv, RoundsCounted
        <3>3. CASE r.kind # "round"
            BY <1>2, <1>3, <3>1, <3>2, <3>3 DEF Changes, RoundsCounted
        <3>4. CASE r.kind = "round"
            <4>1. r.row.round_no = row.round_no + 1
                BY <1>1, <3>4 DEF AuditInv, NextRound
            <4>2. 1 \in DOMAIN r.new /\ 1 \in DOMAIN Seating
                BY <1>1, <3>1, SeatingAssumption DEF Signs, Request
            <4>3. /\ r.new[1].speaker = Seating[1] /\ r.new[1].round_no = row.round_no + 1
                BY <3>1, <3>4, <4>1, <4>2 DEF Signs
            <4>4. /\ r.ord + 1 - 1 \in Committed /\ turns[r.ord + 1 - 1] = r.new[1]
                BY <1>1, <2>2, <4>2, TurnsStored
            <4>5. row.round_no + 1 \in Argued
                BY <4>2, <4>3, <4>4 DEF Argued, Seats
            <4>6. Argued = 1..(row.round_no + 1)
                BY <3>1, <3>2, <4>5
            <4> QED BY <1>2, <1>3, <4>1, <4>6 DEF RoundsCounted
        <3> QED BY <3>3, <3>4
    <2> QED BY <2>1, <2>2
<1>6. Newer(w)' /\ NextRound(w)'
    <2>1. \A i \in DOMAIN r.new :
              /\ 0 < r.new[i].sig /\ r.new[i].sig <= signed /\ Voiced(r.new[i])
              /\ \A j \in DOMAIN r.new : j < i => r.new[j].sig < r.new[i].sig
              /\ \A o \in DOMAIN turns : o < r.ord => turns[o].sig < r.new[i].sig
        BY <1>1 DEF AuditInv, Newer
    <2> HIDE DEF r
    <2>2. Newer(w)'
        BY <1>2, <1>4, <2>1 DEF Newer, Voiced
    <2> QED BY <1>4, <2>2 DEF NextRound
<1>7. \A v \in Workers : Newer(v)' /\ NextRound(v)'
    <2>1. \A v \in Workers \ {w} : loc'[v].pc = "idle"
        BY <1>1, <1>4, OthersIdle DEF Before
    <2> QED BY <1>6, <2>1 DEF Newer, NextRound
<1>8. Rises' /\ \A o \in DOMAIN turns' : Voiced(turns'[o])
    BY <1>2 DEF AuditInv, Rises
<1> QED BY <1>5, <1>7, <1>8 DEF AuditInv, Voiced

LEMMA CrashAudit ==
    ASSUME Before, AuditInv, Crash
    PROVE  AuditInv'
<1>1. /\ turns' = [o \in Committed |-> turns[o]] /\ row' = row /\ signed' = signed
      /\ loc' = [w \in Workers |-> Idle] /\ Committed \subseteq DOMAIN turns
    BY DEF Crash, Committed
<1>2. Committed' = Committed /\ \A o \in Committed : turns'[o] = turns[o]
    BY CrashStep
<1>3. Argued' = Argued
    BY <1>2 DEF Argued
<1>4. RoundsCounted'
    BY <1>1, <1>3 DEF AuditInv, RoundsCounted
<1>5. Rises' /\ \A o \in DOMAIN turns' : Voiced(turns'[o])
    BY <1>1 DEF AuditInv, Rises
<1>6. \A w \in Workers : loc'[w].pc = "idle"
    BY <1>1 DEF Idle
<1>7. \A w \in Workers : Newer(w)' /\ NextRound(w)'
    BY <1>6 DEF Newer, NextRound
<1> QED BY <1>4, <1>5, <1>7 DEF AuditInv, Voiced

LEMMA AuditInit == Init => AuditInv
<1> SUFFICES ASSUME Init PROVE AuditInv
    OBVIOUS
<1>1. DOMAIN turns = {} /\ row = None /\ loc = [w \in Workers |-> Idle]
    BY DEF Init
<1>2. \A w \in Workers : loc[w].pc = "idle"
    BY <1>1 DEF Idle
<1> QED BY <1>1, <1>2 DEF AuditInv, Rises, RoundsCounted, Newer, NextRound

LEMMA AuditStep == Before /\ AuditInv /\ OneAtATime' /\ [Next]_vars => AuditInv'
<1> SUFFICES ASSUME Before, AuditInv, OneAtATime', [Next]_vars PROVE AuditInv'
    OBVIOUS
<1>1. CASE ToggleKillSwitch \/ UNCHANGED vars
    <2>1. row' = row /\ turns' = turns /\ txn' = txn /\ signed' = signed /\ loc' = loc
        BY <1>1 DEF ToggleKillSwitch, vars
    <2>2. Argued' = Argued
        BY <2>1 DEF Argued, Committed
    <2>3. Rises' /\ RoundsCounted' /\ \A o \in DOMAIN turns' : Voiced(turns'[o])
        BY <2>1, <2>2 DEF AuditInv, Rises, RoundsCounted
    <2>4. \A w \in Workers : Newer(w)' /\ NextRound(w)'
        BY <2>1 DEF AuditInv, Newer, NextRound, Voiced
    <2> QED BY <2>3, <2>4 DEF AuditInv, Voiced
<1>2. ASSUME NEW w \in Workers, Handle(w) PROVE AuditInv'
    BY <1>2, ReadAudit, VoiceAudit, BatchAudit, SomethingToSave, RowAudit, StreamAudit
        DEF Handle, Save
<1> QED BY <1>1, <1>2, OpenAudit, ReadAudit, CrashAudit DEF Next

\* Where requests do not overlap, the invariant holds for ever.
LEMMA Audited ==
    Spec /\ []OneAtATime => [](TypeOK /\ SerialInv /\ AuditInv)
<1>1. Before /\ AuditInv /\ [Next]_vars /\ OneAtATime' => AuditInv'
    BY AuditStep
<1>2. TypeOK /\ RequestOK /\ SerialInv /\ OneAtATime => Before
    BY DEF Before
<1> QED BY <1>1, <1>2, Serial, AuditInit, PTL DEF Spec

\* What is stored between two requests is a chained record.
LEMMA StoredIsChained ==
    ASSUME TypeOK, SerialInv, AuditInv
    PROVE  /\ Chained(Transcript(turns))
           /\ Transcript(turns) = [i \in 1..Rows |-> turns[i - 1]] /\ Rows \in Nat
<1>1. Rows \in Nat /\ DOMAIN turns = 0..(Rows - 1)
    BY CommittedTo
<1> DEFINE rec == [i \in 1..Rows |-> turns[i - 1]]
<1>2. Transcript(turns) = rec
    BY <1>1, ReadInOrder
<1>3. \A i \in 1..Rows : i - 1 \in DOMAIN turns /\ rec[i] = turns[i - 1]
    BY <1>1
<1>4. rec \in [1..Rows -> Turn]
    BY <1>3 DEF TypeOK
<1>5. rec \in Seq(Turn) /\ Len(rec) = Rows
    BY <1>1, <1>4
<1> HIDE DEF rec
<1>6. ASSUME NEW i \in 1..Rows
      PROVE  /\ rec[i].turn_id = i - 1 /\ Follows(rec, i) /\ 0 < rec[i].sig
             /\ \A j \in 1..(i - 1) : rec[j].sig < rec[i].sig
    <2>1. /\ turns[i - 1].turn_id = i - 1 /\ turns[i - 1].prev_sig = SigBefore(i - 1)
        BY <1>3 DEF SerialInv, StoreOK, Linked
    <2>2. i # 1 => i - 1 \in 1..Rows
        BY <1>1
    <2>3. SigBefore(i - 1) = IF i = 1 THEN GENESIS ELSE rec[i - 1].sig
        BY <1>3, <2>2 DEF SigBefore
    <2>4. 0 < rec[i].sig
        BY <1>3 DEF AuditInv, Rises
    <2>5. ASSUME NEW j \in 1..(i - 1) PROVE rec[j].sig < rec[i].sig
        <3>1. j \in 1..Rows /\ j - 1 < i - 1
            BY <1>1
        <3> QED BY <1>3, <3>1 DEF AuditInv, Rises
    <2> QED BY <1>3, <2>1, <2>3, <2>4, <2>5 DEF Follows
<1> QED BY <1>1, <1>2, <1>5, <1>6 DEF Chained, rec

\* The record of any session verifies, and whatever turn is reworded, given to
\* another speaker, removed or swapped with a later one, verify reports every
\* turn from there to the end.
THEOREM EditsAreEvident == Spec /\ []OneAtATime => []TamperEvident
<1>1. TypeOK /\ SerialInv /\ AuditInv => TamperEvident
    BY StoredIsChained, EditsReported
<1> QED BY <1>1, Audited, PTL

\* Between two requests the chamber replays the rounds of the session row, and at
\* most one more, from the first and with no gap.
THEOREM ChamberStaysComplete == Spec /\ []OneAtATime => []ChamberComplete
<1>1. ASSUME TypeOK, SerialInv, AuditInv, AtRest, row # None
      PROVE  \E n \in {row.round_no, row.round_no + 1} :
                 ChamberRounds(Transcript(turns)) = 1..n
    <2> DEFINE rec == Transcript(turns)
    <2>1. rec = [i \in 1..Rows |-> turns[i - 1]] /\ Rows \in Nat
        BY <1>1, StoredIsChained
    <2>2. DOMAIN turns = 0..(Rows - 1)
        BY <1>1, CommittedTo
    <2>3. Committed = DOMAIN turns
        BY <1>1 DEF AtRest, SerialInv, TxnOfBatch, Committed
    <2> HIDE DEF rec
    <2>4. \A i \in DOMAIN rec : i - 1 \in Committed /\ rec[i] = turns[i - 1]
        BY <2>1, <2>2, <2>3
    <2>5. \A o \in Committed : o + 1 \in DOMAIN rec /\ rec[o + 1] = turns[o]
        BY <2>1, <2>2, <2>3
    <2>6. ChamberRounds(rec) = Argued
        <3>1. ASSUME NEW n \in ChamberRounds(rec) PROVE n \in Argued
            <4>1. PICK i \in DOMAIN rec : rec[i].speaker \in Seats /\ n = rec[i].round_no
                BY DEF ChamberRounds
            <4> QED BY <2>4, <4>1 DEF Argued
        <3>2. ASSUME NEW n \in Argued PROVE n \in ChamberRounds(rec)
            <4>1. PICK o \in Committed : turns[o].speaker \in Seats /\ n = turns[o].round_no
                BY DEF Argued
            <4> QED BY <2>5, <4>1 DEF ChamberRounds
        <3> QED BY <3>1, <3>2
    <2> QED BY <1>1, <2>6 DEF AuditInv, RoundsCounted, rec
<1>2. TypeOK /\ SerialInv /\ AuditInv => ChamberComplete
    BY <1>1 DEF ChamberComplete
<1> QED BY <1>2, Audited, PTL

-----------------------------------------------------------------------------
(* What the seats are told.                                                *)

\* Numbering the members of a finite set of numbers by how many are not above them
\* is one to one, in order, and reaches every number up to their count.
UpTo(S, p) == {o \in S : o <= p}
Place(S, p) == Cardinality(UpTo(S, p))

LEMMA UpToIs ==
    ASSUME NEW S \in SUBSET Nat, IsFiniteSet(S), NEW p \in S
    PROVE  /\ UpTo(S, p) \in SUBSET S /\ IsFiniteSet(UpTo(S, p))
           /\ Cardinality(S) \in Nat /\ Place(S, p) \in 1..Cardinality(S)
<1> DEFINE n == Cardinality(S)
           k == Place(S, p)
<1>1. UpTo(S, p) \in SUBSET S /\ p \in UpTo(S, p)
    BY DEF UpTo
<1>2. n \in Nat /\ IsFiniteSet(UpTo(S, p)) /\ k <= n
    BY <1>1, FS_CardinalityType, FS_Subset DEF Place
<1>3. k \in Nat /\ k # 0
    BY <1>1, <1>2, FS_CardinalityType, FS_EmptySet DEF Place
<1> HIDE DEF n, k
<1>4. k \in 1..n
    BY <1>2, <1>3
<1> QED BY <1>1, <1>2, <1>4 DEF n, k

LEMMA PlacesDiffer ==
    ASSUME NEW S \in SUBSET Nat, IsFiniteSet(S), NEW p \in S, NEW o \in S, p < o
    PROVE  Place(S, p) # Place(S, o)
<1>1. p \in Nat /\ o \in Nat /\ \A x \in S : x \in Nat
    OBVIOUS
<1>2. ASSUME NEW x \in UpTo(S, p) PROVE x \in UpTo(S, o)
    <2>1. x \in S /\ x <= p
        BY DEF UpTo
    <2>2. x <= o
        BY <1>1, <2>1
    <2> QED BY <2>1, <2>2 DEF UpTo
<1>3. o \in UpTo(S, o) /\ o \notin UpTo(S, p)
    BY <1>1 DEF UpTo
<1>4. UpTo(S, p) \in SUBSET UpTo(S, o)
    BY <1>2
<1> QED BY <1>3, <1>4, UpToIs, FS_Subset DEF Place

LEMMA PlacesReached ==
    ASSUME NEW S \in SUBSET Nat, IsFiniteSet(S), NEW i \in 1..Cardinality(S)
    PROVE  \E p \in S : Place(S, p) = i
<1> DEFINE n == Cardinality(S)
           count == [p \in S |-> Place(S, p)]
<1>1. \A p \in S : Place(S, p) \in 1..n
    BY UpToIs
<1>2. \A p, o \in S : Place(S, p) = Place(S, o) => p = o
    BY PlacesDiffer
<1>3. n \in Nat
    BY FS_CardinalityType
<1> HIDE DEF n
<1>4. count \in Injection(S, 1..n)
    BY <1>1, <1>2 DEF Injection, IsInjective
<1>5. IsFiniteSet(1..n) /\ Cardinality(1..n) = n
    BY <1>3, FS_Interval
<1>6. count \in Surjection(S, 1..n)
    BY <1>4, <1>5, FS_Injection DEF n
<1> QED BY <1>6 DEF Surjection, n

\* The turns at some places of a record: each is there, at the number of its place.
LEMMA TurnsAtIs ==
    ASSUME NEW rec \in Seq(Turn), NEW S \in SUBSET DOMAIN rec
    PROVE  /\ S \in SUBSET Nat /\ IsFiniteSet(S) /\ Cardinality(S) \in Nat
           /\ TurnsAt(rec, S) \in Seq(Turn) /\ Len(TurnsAt(rec, S)) = Cardinality(S)
           /\ \A p \in S : /\ Place(S, p) \in 1..Cardinality(S)
                           /\ TurnsAt(rec, S)[Place(S, p)] = rec[p]
           /\ \A i \in 1..Cardinality(S) : \E p \in S : Place(S, p) = i
<1> DEFINE n == Cardinality(S)
           at(i) == CHOOSE p \in S : Cardinality({q \in S : q <= p}) = i
           list == TurnsAt(rec, S)
<1>1. DOMAIN rec = 1..Len(rec) /\ Len(rec) \in Int /\ 1 \in Int
    OBVIOUS
<1>2. IsFiniteSet(DOMAIN rec)
    BY <1>1, FS_Interval, Zenon
<1>3. S \in SUBSET Nat /\ IsFiniteSet(S)
    BY <1>1, <1>2, FS_Subset
<1>4. n \in Nat
    BY <1>3, FS_CardinalityType
<1>5. \A i \in 1..n : \E p \in S : Place(S, p) = i
    BY <1>3, PlacesReached
<1>6. \A i \in 1..n : at(i) \in S /\ Place(S, at(i)) = i
    <2> TAKE i \in 1..n
    <2>1. \E p \in S : Cardinality({q \in S : q <= p}) = i
        BY <1>5 DEF Place, UpTo
    <2> QED BY <2>1 DEF Place, UpTo
<1>7. \A p \in S : Place(S, p) \in 1..n
    BY <1>3, UpToIs
<1>8. \A p \in S : at(Place(S, p)) = p
    <2> TAKE p \in S
    <2> DEFINE q == at(Place(S, p))
    <2>1. q \in S /\ Place(S, q) = Place(S, p)
        BY <1>6, <1>7
    <2> HIDE DEF q
    <2>2. p \in Nat /\ q \in Nat
        BY <1>3, <2>1
    <2>3. ~(p < q) /\ ~(q < p)
        BY <1>3, <2>1, PlacesDiffer
    <2>4. p = q
        BY <2>2, <2>3
    <2> QED BY <2>4 DEF q
<1>9. list = [i \in 1..n |-> rec[at(i)]]
    BY DEF TurnsAt
<1>10. \A p \in S : rec[p] \in Turn
    OBVIOUS
<1> HIDE DEF n, at, list
<1>11. list \in [1..n -> Turn]
    BY <1>6, <1>9, <1>10
<1>12. list \in Seq(Turn) /\ Len(list) = n
    BY <1>4, <1>11
<1>13. \A p \in S : list[Place(S, p)] = rec[p]
    BY <1>7, <1>8, <1>9
<1> QED BY <1>3, <1>4, <1>5, <1>7, <1>12, <1>13 DEF n, list

\* A record in which no turn is twice, and two lists that have no turn in common.
Distinct(q) == \A i, j \in DOMAIN q : q[i] = q[j] => i = j

LEMMA ChainedOnce ==
    ASSUME NEW rec, Chained(rec)
    PROVE  Distinct(rec)
<1>1. /\ DOMAIN rec = 1..Len(rec) /\ Len(rec) \in Nat
      /\ \A i \in 1..Len(rec) : rec[i].turn_id = i - 1
    BY DEF Chained
<1> SUFFICES ASSUME NEW i \in 1..Len(rec), NEW j \in 1..Len(rec), rec[i] = rec[j]
             PROVE  i = j
    BY <1>1 DEF Distinct
<1>2. i - 1 = j - 1
    BY <1>1
<1> QED BY <1>1, <1>2

LEMMA TurnsAtOnce ==
    ASSUME NEW rec \in Seq(Turn), Distinct(rec), NEW S \in SUBSET DOMAIN rec
    PROVE  Distinct(TurnsAt(rec, S)) /\ ToSet(TurnsAt(rec, S)) = {rec[p] : p \in S}
<1> DEFINE list == TurnsAt(rec, S)
           n == Cardinality(S)
<1>1. /\ n \in Nat /\ DOMAIN list = 1..n
      /\ \A p \in S : Place(S, p) \in 1..n /\ list[Place(S, p)] = rec[p]
      /\ \A i \in 1..n : \E p \in S : Place(S, p) = i
    BY TurnsAtIs
<1> HIDE DEF list, n
<1>2. \A i \in 1..n : \E p \in S : Place(S, p) = i /\ list[i] = rec[p]
    BY <1>1
<1>3. Distinct(list)
    <2> SUFFICES ASSUME NEW i \in 1..n, NEW j \in 1..n, list[i] = list[j] PROVE i = j
        BY <1>1 DEF Distinct
    <2>1. PICK p \in S : Place(S, p) = i /\ list[i] = rec[p]
        BY <1>2
    <2>2. PICK o \in S : Place(S, o) = j /\ list[j] = rec[o]
        BY <1>2
    <2>3. p = o
        BY <2>1, <2>2 DEF Distinct
    <2> QED BY <2>1, <2>2, <2>3
<1>4. ToSet(list) = {rec[p] : p \in S}
    <2>1. ASSUME NEW t \in ToSet(list) PROVE t \in {rec[p] : p \in S}
        <3>1. PICK i \in 1..n : t = list[i]
            BY <1>1 DEF ToSet
        <3> QED BY <1>2, <3>1
    <2>2. ASSUME NEW p \in S PROVE rec[p] \in ToSet(list)
        BY <1>1 DEF ToSet
    <2> QED BY <2>1, <2>2
<1> QED BY <1>3, <1>4 DEF list

LEMMA JoinedOnce ==
    ASSUME NEW a \in Seq(Turn), NEW b \in Seq(Turn), Distinct(a), Distinct(b),
           ToSet(a) \cap ToSet(b) = {}
    PROVE  /\ a \o b \in Seq(Turn) /\ Distinct(a \o b)
           /\ ToSet(a \o b) = ToSet(a) \cup ToSet(b)
<1> DEFINE c == a \o b
           n == Len(a)
           m == Len(b)
<1>1. n \in Nat /\ m \in Nat /\ DOMAIN a = 1..n /\ DOMAIN b = 1..m
    OBVIOUS
<1>2. c \in Seq(Turn) /\ Len(c) = n + m
    OBVIOUS
<1>3. DOMAIN c = 1..(n + m)
    BY <1>1, <1>2
<1>4. /\ \A i \in 1..n : c[i] = a[i]
      /\ \A j \in 1..m : c[n + j] = b[j]
    BY <1>1
<1> HIDE DEF c, n, m
<1>5. \A i \in 1..(n + m) : i \in 1..n \/ i - n \in 1..m
    BY <1>1
<1>6. \A i \in 1..(n + m) : \/ i \in 1..n /\ c[i] = a[i]
                            \/ i - n \in 1..m /\ c[i] = b[i - n]
    <2> TAKE i \in 1..(n + m)
    <2>1. CASE i \in 1..n
        BY <1>4, <2>1
    <2>2. CASE i - n \in 1..m
        <3>1. n + (i - n) = i
            BY <1>1
        <3>2. c[n + (i - n)] = b[i - n]
            BY <1>4, <2>2
        <3> QED BY <2>2, <3>1, <3>2
    <2> QED BY <1>5, <2>1, <2>2
<1>7. ToSet(a) = {a[i] : i \in 1..n} /\ ToSet(b) = {b[i] : i \in 1..m}
    BY <1>1 DEF ToSet
<1>8. Distinct(c)
    <2> SUFFICES ASSUME NEW i \in 1..(n + m), NEW j \in 1..(n + m), c[i] = c[j] PROVE i = j
        BY <1>3 DEF Distinct
    <2>1. CASE i \in 1..n /\ c[i] = a[i] /\ j \in 1..n /\ c[j] = a[j]
        BY <1>1, <2>1 DEF Distinct
    <2>2. CASE i - n \in 1..m /\ c[i] = b[i - n] /\ j - n \in 1..m /\ c[j] = b[j - n]
        <3>1. i - n = j - n
            BY <1>1, <2>2 DEF Distinct
        <3> QED BY <1>1, <3>1
    <2>3. \A k \in 1..n, l \in 1..m : a[k] # b[l]
        BY <1>7
    <2> QED BY <1>6, <2>1, <2>2, <2>3
<1>9. ToSet(c) = ToSet(a) \cup ToSet(b)
    <2>1. ASSUME NEW t \in ToSet(c) PROVE t \in ToSet(a) \cup ToSet(b)
        <3>1. PICK i \in 1..(n + m) : t = c[i]
            BY <1>3 DEF ToSet
        <3> QED BY <1>6, <1>7, <3>1
    <2>2. ASSUME NEW i \in 1..n PROVE a[i] \in ToSet(c)
        <3>1. i \in 1..(n + m)
            BY <1>1
        <3> QED BY <1>3, <1>4, <3>1 DEF ToSet
    <2>3. ASSUME NEW j \in 1..m PROVE b[j] \in ToSet(c)
        <3>1. n + j \in 1..(n + m)
            BY <1>1
        <3> QED BY <1>3, <1>4, <3>1 DEF ToSet
    <2> QED BY <1>7, <2>1, <2>2, <2>3
<1> QED BY <1>2, <1>8, <1>9 DEF c

\* The end of a list from some place on.
LEMMA EndOf ==
    ASSUME NEW q \in Seq(Turn), Distinct(q), NEW d \in Nat, d <= Len(q)
    PROVE  /\ SubSeq(q, d + 1, Len(q)) \in Seq(Turn) /\ Distinct(SubSeq(q, d + 1, Len(q)))
           /\ ToSet(SubSeq(q, d + 1, Len(q))) = {q[i] : i \in {j \in DOMAIN q : d < j}}
<1> DEFINE n == Len(q)
           e == SubSeq(q, d + 1, n)
<1>1. n \in Nat /\ DOMAIN q = 1..n /\ d <= n
    OBVIOUS
<1>2. e \in Seq(Turn) /\ Len(e) = n - d
    OBVIOUS
<1>3. \A i \in 1..(n - d) : e[i] = q[i + d]
    OBVIOUS
<1> HIDE DEF n, e
<1>4. n - d \in Nat
    BY <1>1
<1>5. DOMAIN e = 1..(n - d)
    BY <1>2, <1>4
<1>6. \A i \in 1..(n - d) : i + d \in 1..n /\ d < i + d
    BY <1>1
<1>7. Distinct(e)
    <2> SUFFICES ASSUME NEW i \in 1..(n - d), NEW j \in 1..(n - d), e[i] = e[j] PROVE i = j
        BY <1>5 DEF Distinct
    <2>1. i + d = j + d
        BY <1>1, <1>3, <1>6 DEF Distinct
    <2> QED BY <1>1, <2>1
<1>8. ToSet(e) = {q[i] : i \in {j \in 1..n : d < j}}
    <2>1. ASSUME NEW t \in ToSet(e) PROVE t \in {q[i] : i \in {j \in 1..n : d < j}}
        <3>1. PICK i \in 1..(n - d) : t = e[i]
            BY <1>5 DEF ToSet
        <3> QED BY <1>3, <1>6, <3>1
    <2>2. ASSUME NEW j \in 1..n, d < j PROVE q[j] \in ToSet(e)
        <3>1. j - d \in 1..(n - d) /\ (j - d) + d = j
            BY <1>1, <2>2
        <3>2. e[j - d] = q[j]
            BY <1>3, <3>1
        <3> QED BY <1>5, <3>1, <3>2 DEF ToSet
    <2> QED BY <2>1, <2>2
<1> QED BY <1>1, <1>2, <1>7, <1>8 DEF n, e

\* What is behind a member of such a set is what its number leaves.
LEMMA Behind ==
    ASSUME NEW S \in SUBSET Nat, IsFiniteSet(S), NEW p \in S
    PROVE  Cardinality({o \in S : p < o}) = Cardinality(S) - Place(S, p)
<1> DEFINE after == {o \in S : p < o}
<1>1. \A o \in S : o \in Nat
    OBVIOUS
<1>2. UpTo(S, p) \cup after = S /\ UpTo(S, p) \cap after = {}
    <2>1. \A o \in S : p < o <=> ~(o <= p)
        BY <1>1
    <2>2. after = S \ UpTo(S, p) /\ UpTo(S, p) \subseteq S
        BY <2>1 DEF UpTo
    <2> HIDE DEF after
    <2> QED BY <2>2
<1>3. IsFiniteSet(after) /\ IsFiniteSet(UpTo(S, p)) /\ after \in SUBSET S
    BY FS_Subset, UpToIs
<1>4. /\ Cardinality(after) \in Nat /\ Cardinality(UpTo(S, p)) \in Nat
      /\ Cardinality(S) \in Nat /\ Cardinality({}) = 0
    BY <1>3, FS_CardinalityType, FS_EmptySet
<1> HIDE DEF after
<1>5. Cardinality(UpTo(S, p) \cup after)
          = Cardinality(UpTo(S, p)) + Cardinality(after) - Cardinality(UpTo(S, p) \cap after)
    BY <1>3, FS_Union
<1>6. Cardinality(S) = Cardinality(UpTo(S, p)) + Cardinality(after) - 0
    BY <1>2, <1>4, <1>5
<1>7. Cardinality(after) = Cardinality(S) - Cardinality(UpTo(S, p))
    BY <1>4, <1>6
<1> QED BY <1>7 DEF after, Place

\* The summary has only earlier turns, each once, and the last of them.
LEMMA BriefIs ==
    ASSUME NEW rec \in Seq(Turn), Distinct(rec), NEW n \in Nat
    PROVE  LET E == Earlier(rec, n) IN
           /\ Brief(rec, n) \in Seq(Turn) /\ Distinct(Brief(rec, n))
           /\ ToSet(Brief(rec, n)) \subseteq {rec[p] : p \in E}
           /\ \A p \in E : Cardinality({o \in E : p < o}) < SUMMARY_TURNS =>
                 rec[p] \in ToSet(Brief(rec, n))
<1> DEFINE E == Earlier(rec, n)
           list == TurnsAt(rec, E)
           c == Cardinality(E)
           d == IF c > SUMMARY_TURNS THEN c - SUMMARY_TURNS ELSE 0
           brief == Brief(rec, n)
<1>1. E \in SUBSET DOMAIN rec
    BY DEF Earlier
<1> HIDE DEF E
<1>2. /\ E \in SUBSET Nat /\ IsFiniteSet(E) /\ c \in Nat
      /\ list \in Seq(Turn) /\ Len(list) = c
      /\ \A p \in E : Place(E, p) \in 1..c /\ list[Place(E, p)] = rec[p]
    BY <1>1, TurnsAtIs
<1>3. Distinct(list) /\ ToSet(list) = {rec[p] : p \in E}
    BY <1>1, TurnsAtOnce
<1>4. brief = SubSeq(list, (IF Len(list) > SUMMARY_TURNS THEN Len(list) - SUMMARY_TURNS ELSE 0) + 1,
                     Len(list))
    BY Zenon DEF Brief, E
<1>5. \A p \in E : Cardinality({o \in E : p < o}) = c - Place(E, p)
    BY <1>2, Behind
<1> HIDE DEF list, c, brief
<1>6. brief = SubSeq(list, d + 1, Len(list))
    BY <1>2, <1>4
<1>7. SUMMARY_TURNS \in Nat
    BY HistoryAssumption
<1>8. d \in Nat /\ d <= c /\ \A k \in 1..c : c - k < SUMMARY_TURNS => d < k
    BY <1>2, <1>7
<1> HIDE DEF d
<1>9. /\ brief \in Seq(Turn) /\ Distinct(brief)
      /\ ToSet(brief) = {list[i] : i \in {j \in DOMAIN list : d < j}}
    BY <1>2, <1>3, <1>6, <1>8, EndOf
<1>10. ToSet(brief) \subseteq ToSet(list)
    BY <1>9 DEF ToSet
<1>11. DOMAIN list = 1..c
    BY <1>2
<1>12. ASSUME NEW p \in E, Cardinality({o \in E : p < o}) < SUMMARY_TURNS
       PROVE  rec[p] \in ToSet(brief)
    <2>1. c - Place(E, p) < SUMMARY_TURNS
        BY <1>5, <1>12
    <2>2. Place(E, p) \in DOMAIN list /\ d < Place(E, p)
        BY <1>2, <1>8, <1>11, <2>1
    <2> QED BY <1>2, <1>9, <2>2
<1> QED BY <1>3, <1>9, <1>10, <1>12 DEF E, brief

\* What the seats of a round are told of a record whose seats argued in rounds from
\* the first on, and whose opening came before them.
LEMMA ToldIs ==
    ASSUME NEW rec \in Seq(Turn), Distinct(rec), NEW n \in Nat,
           \A p \in DOMAIN rec :
               /\ rec[p].speaker \in Seats => 0 < rec[p].round_no
               /\ rec[p].text = "opening" => rec[p].round_no = 0
    PROVE  LET told == ToSet(History(rec, n).clipped) \cup ToSet(History(rec, n).full)
               argued == {p \in DOMAIN rec : rec[p].speaker \in Seats}
               Since(p) == Cardinality({q \in argued : p < q})
           IN
           /\ SUMMARY_TURNS >= Len(Seating) =>
                 \A p \in argued : Since(p) < Len(Seating) => rec[p] \in told
           /\ \A i \in DOMAIN rec : rec[i].text = "opening" => rec[i] \in told
           /\ IsInjective(History(rec, n).clipped \o History(rec, n).full)
<1> DEFINE cutoff == IF n > HISTORY_ROUNDS THEN n - HISTORY_ROUNDS ELSE 0
           Z == {p \in DOMAIN rec : rec[p].round_no = 0}
           E == Earlier(rec, n)
           F == {p \in DOMAIN rec : rec[p].round_no > cutoff}
           A == {p \in DOMAIN rec : rec[p].speaker \in Seats}
           brief == Brief(rec, n)
           opening == TurnsAt(rec, Z)
           clipped == opening \o brief
           full == TurnsAt(rec, F)
<1>1. History(rec, n) = [clipped |-> clipped, full |-> full]
    BY Zenon DEF History
<1>2. HISTORY_ROUNDS \in Nat /\ SUMMARY_TURNS \in Nat /\ Len(Seating) \in Nat
    BY HistoryAssumption, SeatingAssumption
<1>3. cutoff \in Nat /\ \A p \in DOMAIN rec : rec[p].round_no \in Nat
    <2>1. cutoff \in Nat
        BY <1>2
    <2>2. \A p \in DOMAIN rec : rec[p] \in Turn
        OBVIOUS
    <2> QED BY <2>1, <2>2 DEF Turn
<1>4. /\ Z \in SUBSET DOMAIN rec /\ E \in SUBSET DOMAIN rec /\ F \in SUBSET DOMAIN rec
      /\ A \in SUBSET DOMAIN rec /\ E \in SUBSET A
    BY DEF Earlier
<1>5. Z \cap E = {} /\ Z \cap F = {} /\ E \cap F = {} /\ A \subseteq E \cup F
    <2>1. ASSUME NEW p \in DOMAIN rec
          PROVE  /\ ~(p \in Z /\ p \in E) /\ ~(p \in Z /\ p \in F) /\ ~(p \in E /\ p \in F)
                 /\ p \in A => p \in E \/ p \in F
        <3>1. rec[p].round_no \in Nat /\ (rec[p].speaker \in Seats => 0 < rec[p].round_no)
            BY <1>3
        <3> QED BY <1>2, <3>1 DEF Earlier
    <2> QED BY <1>4, <2>1
<1> HIDE DEF cutoff
<1>6. \A p \in DOMAIN rec : rec[p].text = "opening" => p \in Z
    OBVIOUS
<1> HIDE DEF E, F, Z
<1>7. /\ opening \in Seq(Turn) /\ Distinct(opening) /\ ToSet(opening) = {rec[p] : p \in Z}
      /\ full \in Seq(Turn) /\ Distinct(full) /\ ToSet(full) = {rec[p] : p \in F}
    BY <1>4, TurnsAtIs, TurnsAtOnce
<1>8. /\ brief \in Seq(Turn) /\ Distinct(brief) /\ ToSet(brief) \subseteq {rec[p] : p \in E}
      /\ \A p \in E : Cardinality({o \in E : p < o}) < SUMMARY_TURNS => rec[p] \in ToSet(brief)
    BY BriefIs DEF E
<1>9. \A S, T : S \in SUBSET DOMAIN rec /\ T \in SUBSET DOMAIN rec /\ S \cap T = {} =>
          {rec[p] : p \in S} \cap {rec[p] : p \in T} = {}
    BY DEF Distinct
<1> HIDE DEF brief, opening, full
<1>10. /\ clipped \in Seq(Turn) /\ Distinct(clipped)
       /\ ToSet(clipped) = ToSet(opening) \cup ToSet(brief)
    <2>1. ToSet(opening) \cap ToSet(brief) = {}
        BY <1>4, <1>5, <1>7, <1>8, <1>9
    <2> QED BY <1>7, <1>8, <2>1, JoinedOnce
<1> HIDE DEF clipped
<1>11. Distinct(clipped \o full)
    <2>1. ToSet(clipped) \cap ToSet(full) = {}
        BY <1>4, <1>5, <1>7, <1>8, <1>9, <1>10
    <2> QED BY <1>7, <1>10, <2>1, JoinedOnce
<1>12. IsInjective(clipped \o full)
    BY <1>11 DEF IsInjective, Distinct
<1>13. \A i \in DOMAIN rec : rec[i].text = "opening" => rec[i] \in ToSet(clipped)
    BY <1>6, <1>7, <1>10
<1>14. ASSUME SUMMARY_TURNS >= Len(Seating), NEW p \in A,
              Cardinality({q \in A : p < q}) < Len(Seating)
       PROVE  rec[p] \in ToSet(clipped) \cup ToSet(full)
    <2>1. CASE p \in F
        BY <1>7, <2>1
    <2>2. CASE p \in E
        <3>1. {o \in E : p < o} \in SUBSET {q \in A : p < q}
            BY <1>4
        <3>2. IsFiniteSet(A) /\ {q \in A : p < q} \in SUBSET A
            BY <1>4, TurnsAtIs
        <3>3. IsFiniteSet({q \in A : p < q})
            BY <3>2, FS_Subset
        <3>4. /\ Cardinality({o \in E : p < o}) <= Cardinality({q \in A : p < q})
              /\ Cardinality({o \in E : p < o}) \in Nat /\ Cardinality({q \in A : p < q}) \in Nat
            BY <3>1, <3>3, FS_Subset, FS_CardinalityType
        <3>5. Cardinality({o \in E : p < o}) < SUMMARY_TURNS
            BY <1>2, <1>14, <3>4
        <3> QED BY <1>8, <1>10, <2>2, <3>5
    <2> QED BY <1>5, <2>1, <2>2
<1>15. History(rec, n).clipped = clipped /\ History(rec, n).full = full
    BY <1>1
<1> QED BY <1>12, <1>13, <1>14, <1>15

\* While the seats of a round are asked, they are told the arguments of the last round
\* that was argued, as far as the summary is long enough for a round, and the opening,
\* and no turn twice, however long the record is (Facilitator._history).
THEOREM LastArgumentsAreTold == Spec /\ []OneAtATime => []LastArgumentsReach
<1>1. ASSUME TypeOK, OneAtATime, SerialInv, AuditInv PROVE LastArgumentsReach
    <2> SUFFICES ASSUME NEW w \in Listening
                 PROVE  LET rec == Transcript(turns)
                            told == ToSet(Given(w).clipped) \cup ToSet(Given(w).full)
                            argued == {p \in DOMAIN rec : rec[p].speaker \in Seats}
                            Since(p) == Cardinality({q \in argued : p < q})
                        IN
                        /\ SUMMARY_TURNS >= Len(Seating) =>
                              \A p \in argued : Since(p) < Len(Seating) => rec[p] \in told
                        /\ \A i \in DOMAIN rec : rec[i].text = "opening" => rec[i] \in told
                        /\ IsInjective(Given(w).clipped \o Given(w).full)
        BY Zenon DEF LastArgumentsReach
    <2> DEFINE rec == Transcript(turns)
               n == loc[w].row.round_no
    <2>1. w \in Workers /\ loc[w].pc = "listen" /\ Phase(w)
        BY <1>1 DEF Listening, SerialInv
    <2>2. row # None /\ row \in Session /\ n = row.round_no + 1
        BY <1>1, <2>1 DEF Phase, Listens, Changes, TypeOK, AuditInv, NextRound
    <2>3. n \in Nat /\ row.round_no \in Nat
        BY <2>2 DEF Session
    <2>4. Chained(rec) /\ rec = [i \in 1..Rows |-> turns[i - 1]] /\ Rows \in Nat
        BY <1>1, StoredIsChained
    <2>5. DOMAIN turns = 0..(Rows - 1)
        BY <1>1, CommittedTo
    <2>6. Committed = DOMAIN turns
        <3>1. txn = {}
            BY <1>1, <2>1 DEF SerialInv, TxnOfBatch, OneAtATime
        <3> QED BY <3>1 DEF Committed
    <2> HIDE DEF rec
    <2>7. \A i \in DOMAIN rec : i - 1 \in Committed /\ rec[i] = turns[i - 1]
        BY <2>4, <2>5, <2>6
    <2>8. Argued \in {1..row.round_no, 1..(row.round_no + 1)}
        BY <1>1, <2>2 DEF AuditInv, RoundsCounted
    <2>9. \A k \in Argued : 0 < k
        BY <2>3, <2>8
    <2>10. ASSUME NEW p \in DOMAIN rec
           PROVE  /\ rec[p].speaker \in Seats => 0 < rec[p].round_no
                  /\ rec[p].text = "opening" => rec[p].round_no = 0
        <3>1. rec[p].speaker \in Seats => rec[p].round_no \in Argued
            BY <2>7 DEF Argued
        <3>2. rec[p].text = "opening" => rec[p].round_no = 0
            BY <1>1, <2>6, <2>7 DEF AuditInv, Voiced
        <3> QED BY <2>9, <3>1, <3>2
    <2>11. rec \in Seq(Turn) /\ Distinct(rec)
        BY <2>4, ChainedOnce DEF Chained
    <2>12. Given(w) = History(rec, n)
        BY DEF Given, rec
    <2> HIDE DEF n
    <2> QED BY <2>3, <2>10, <2>11, <2>12, ToldIs DEF rec
<1> QED BY <1>1, Audited, PTL

=============================================================================
