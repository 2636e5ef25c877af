--------------------------- MODULE BoardroomProofs ---------------------------
(***************************************************************************)
(* Proofs about Boardroom.  The first part is for every set of handlers,   *)
(* seats and stages and every interleaving of the handlers.  The second is *)
(* what is promised of the record while no two handlers are at work at     *)
(* once, with crashes at any step: the chain, what clients were shown, the *)
(* session row, whole rounds, the Auditor's findings, finality, and that   *)
(* the store keeps a SignedRecord.                                         *)
(***************************************************************************)
EXTENDS BoardroomRecord, FiniteSetTheorems, TLAPS

-----------------------------------------------------------------------------
(* The operators the actions are built from.                               *)

\* The turns a handler signs are turns.
LEMMA SignType ==
    ASSUME NEW r \in Request, r.row \in Session, NEW speakers \in Seq(Speakers),
           NEW text \in Texts, signed \in Nat
    PROVE  /\ Sign(r, speakers, text) \in Seq(Turn)
           /\ Len(Sign(r, speakers, text)) = Len(speakers)
<1> DEFINE t(i) == [turn_id |-> r.base + i - 1, round_no |-> r.row.round_no,
                    stage |-> r.row.stage, speaker |-> speakers[i], text |-> text,
                    prev_sig |-> IF i = 1 THEN r.tail ELSE signed + i - 1,
                    sig |-> signed + i]
<1>1. DOMAIN speakers = 1..Len(speakers) /\ Len(speakers) \in Nat
    OBVIOUS
<1>2. ASSUME NEW i \in 1..Len(speakers) PROVE t(i) \in Turn
    <2>1. r.base + i - 1 \in Nat /\ signed + i \in Nat /\ signed + i - 1 \in Nat
        BY <1>1 DEF Request
    <2>2. r.row.round_no \in Nat /\ r.row.stage \in Stages
        BY DEF Session
    <2>3. r.tail \in Nat /\ speakers[i] \in Speakers
        BY DEF Request
    <2> QED BY <2>1, <2>2, <2>3 DEF Turn
<1>3. Sign(r, speakers, text) = [i \in 1..Len(speakers) |-> t(i)]
    BY <1>1 DEF Sign
<1> HIDE DEF t
<1>4. Sign(r, speakers, text) \in [1..Len(speakers) -> Turn]
    BY <1>2, <1>3
<1> QED BY <1>1, <1>4

\* INSERT OR IGNORE adds at most the row it is given and changes no other.
LEMMA InsertEffect ==
    ASSUME NEW table, NEW o, NEW t
    PROVE  /\ DOMAIN table \subseteq DOMAIN Insert(table, o, t)
           /\ DOMAIN Insert(table, o, t) \subseteq DOMAIN table \cup {o}
           /\ \A p \in DOMAIN table : Insert(table, o, t)[p] = table[p]
           /\ \A p \in DOMAIN Insert(table, o, t) \ DOMAIN table :
                 p = o /\ Insert(table, o, t)[p] = t
BY DEF Insert

\* A batch has only turns its handler signed, in their order.
LEMMA BatchType ==
    ASSUME NEW r \in Request, r.base <= r.ord
    PROVE  /\ Batch(r) \in Seq(Turn)
           /\ \A i \in DOMAIN Batch(r) : \E j \in DOMAIN r.new : Batch(r)[i] = r.new[j]
<1> DEFINE m == r.ord - r.base + 1
<1>1. r.new \in Seq(Turn) /\ r.ord \in Nat /\ r.base \in Nat /\ m \in Nat /\ m >= 1
    BY DEF Request
<1>2. CASE r.kind \in {"advance", "close"}
    <2>1. Batch(r) = SubSeq(r.new, m, Len(r.new))
        BY <1>2 DEF Batch
    <2> HIDE DEF m
    <2> QED BY <1>1, <2>1
<1>3. CASE r.kind \notin {"advance", "close"}
    BY <1>1, <1>3 DEF Batch
<1> QED BY <1>2, <1>3

\* The signature at the end of a table of turns is a number.
LEMMA LastSigType ==
    ASSUME TypeOK
    PROVE  LastSig(turns) \in Nat
<1> DEFINE last == {o \in DOMAIN turns : \A p \in DOMAIN turns : p <= o}
<1>1. CASE last = {}
    BY <1>1 DEF LastSig, GENESIS
<1>2. CASE last # {}
    <2>1. (CHOOSE o \in last : TRUE) \in DOMAIN turns
        BY <1>2
    <2> QED BY <1>2, <2>1 DEF LastSig, TypeOK, Turn
<1> QED BY <1>1, <1>2

-----------------------------------------------------------------------------
(* Type correctness.                                                       *)

\* Rows stay where they are while a process lives, so a count never shrinks.
LEMMA CountGrows ==
    ASSUME TypeOK, IsFiniteSet(DOMAIN turns'), DOMAIN turns \subseteq DOMAIN turns'
    PROVE  /\ Cardinality(DOMAIN turns) \in Nat
           /\ Cardinality(DOMAIN turns)' \in Nat
           /\ Cardinality(DOMAIN turns) <= Cardinality(DOMAIN turns)'
BY FS_Subset, FS_CardinalityType DEF TypeOK

\* One handler moves to r: all of them are sane again if r is.
LEMMA LocUpdate ==
    ASSUME TypeOK, RequestOK, NEW w \in Workers, NEW r \in Request,
           IsFiniteSet(DOMAIN turns'), DOMAIN turns \subseteq DOMAIN turns',
           loc' = [loc EXCEPT ![w] = r], Sane(r, Cardinality(DOMAIN turns)')
    PROVE  loc' \in [Workers -> Request] /\ RequestOK'
<1>1. loc \in [Workers -> Request]
    BY DEF TypeOK
<1>2. loc' \in [Workers -> Request] /\ loc'[w] = r
    BY <1>1
<1>3. ASSUME NEW v \in Workers PROVE Sane(loc'[v], Cardinality(DOMAIN turns)')
    <2>1. CASE v = w
        BY <2>1, <1>2
    <2>2. CASE v # w
        <3>1. loc'[v] = loc[v] /\ loc[v] \in Request
            BY <1>1, <2>2
        <3>2. Sane(loc[v], Cardinality(DOMAIN turns))
            BY DEF RequestOK
        <3>3. loc[v].base \in Nat
            BY <3>1 DEF Request
        <3> QED BY <3>1, <3>2, <3>3, CountGrows DEF Sane
    <2> QED BY <2>1, <2>2
<1> QED BY <1>2, <1>3 DEF RequestOK

\* The same for a handler that goes back to waiting for a request.
LEMMA FinishOK ==
    ASSUME TypeOK, RequestOK, NEW w \in Workers, Finish(w),
           IsFiniteSet(DOMAIN turns'), DOMAIN turns \subseteq DOMAIN turns'
    PROVE  loc' \in [Workers -> Request] /\ RequestOK'
<1>1. Idle \in Request
    <2>1. <<>> \in Seq(Turn)
        OBVIOUS
    <2> QED BY <2>1 DEF Idle, Request, Phases, Kinds, GENESIS
<1>2. Sane(Idle, Cardinality(DOMAIN turns)')
    BY DEF Idle, Sane
<1> QED BY <1>1, <1>2, LocUpdate DEF Finish

\* A handler that speaks: what it signs is typed, and it goes on sanely.
LEMMA SpeakOK ==
    ASSUME TypeOK, RequestOK, NEW w \in Workers, NEW s \in Session,
           NEW speakers \in Seq(Speakers), NEW text \in Texts,
           loc[w].pc \in {"act", "listen"}, Speak(w, s, speakers, text, "save_turns"),
           UNCHANGED turns
    PROVE  loc' \in [Workers -> Request] /\ RequestOK' /\ signed' \in Nat
<1> DEFINE r == [loc[w] EXCEPT !.row = s]
           r2 == [r EXCEPT !.new = Sign(r, speakers, text), !.pc = "save_turns"]
<1>1. loc[w] \in Request /\ signed \in Nat /\ IsFiniteSet(DOMAIN turns)
    BY DEF TypeOK
<1>2. r \in Request /\ r.row \in Session
    BY <1>1 DEF Request
<1>3. Sign(r, speakers, text) \in Seq(Turn)
    BY <1>1, <1>2, SignType
<1>4. r2 \in Request
    BY <1>2, <1>3 DEF Request, Phases
<1>5. loc[w].base <= loc[w].ord
    BY DEF RequestOK, Sane
<1>6. Sane(r2, Cardinality(DOMAIN turns)')
    <2>1. r2.pc = "save_turns" /\ r2.row = s /\ r2.base = loc[w].base /\ r2.ord = loc[w].ord
        BY <1>1 DEF Request
    <2> QED BY <2>1, <1>5 DEF Sane
<1>7. loc' = [loc EXCEPT ![w] = r2] /\ signed' = signed + Len(speakers)
    BY DEF Speak
<1> HIDE DEF r, r2
<1>8. loc' \in [Workers -> Request] /\ RequestOK'
    BY <1>1, <1>4, <1>6, <1>7, LocUpdate
<1> QED BY <1>1, <1>7, <1>8

\* The same for its next phase, when nothing but the phase and "at" change.
LEMMA GotoOK ==
    ASSUME TypeOK, RequestOK, NEW w \in Workers, NEW pc \in Phases, NEW at \in Nat,
           loc[w].pc \in {"save_turns", "save_session", "stream"},
           pc \in {"save_turns", "save_session", "stream"},
           loc' = [loc EXCEPT ![w] = [loc[w] EXCEPT !.pc = pc, !.at = at]],
           IsFiniteSet(DOMAIN turns'), DOMAIN turns \subseteq DOMAIN turns'
    PROVE  loc' \in [Workers -> Request] /\ RequestOK'
<1> DEFINE r == [loc[w] EXCEPT !.pc = pc, !.at = at]
<1>1. loc[w] \in Request /\ Sane(loc[w], Cardinality(DOMAIN turns))
    BY DEF TypeOK, RequestOK
<1>2. r \in Request
    BY <1>1 DEF Request
<1>3. Sane(r, Cardinality(DOMAIN turns)')
    BY <1>1 DEF Sane, Request
<1> HIDE DEF r
<1> QED BY <1>2, <1>3, LocUpdate DEF r

\* Everyone who speaks is a speaker, so what is signed for them is typed.
LEMMA SpeakerTypes ==
    /\ <<"chair">> \in Seq(Speakers) /\ <<"facilitator">> \in Seq(Speakers)
    /\ Seating \in Seq(Speakers)
<1>1. Seating \in Seq(STRING) /\ DOMAIN Seating = 1..Len(Seating) /\ Len(Seating) \in Nat
    BY SeatingAssumption
<1>2. \A i \in 1..Len(Seating) : Seating[i] \in Speakers
    BY <1>1 DEF Speakers, Seats
<1>3. Seating \in [1..Len(Seating) -> Speakers]
    BY <1>1, <1>2
<1>4. Seating \in Seq(Speakers)
    BY <1>1, <1>3
<1> QED BY <1>4 DEF Speakers

\* A row saved by w, with the rest of SaveTurn's effect on the tables.
LEMMA SaveTurnTables ==
    ASSUME TypeOK, RequestOK, NEW w \in Workers, SaveTurn(w)
    PROVE  /\ DOMAIN turns \subseteq DOMAIN turns'
           /\ IsFiniteSet(DOMAIN turns')
           /\ DOMAIN turns' \in SUBSET Nat
           /\ \A o \in DOMAIN turns' : turns'[o] \in Turn
           /\ \A o \in DOMAIN turns : turns'[o] = turns[o]
<1> DEFINE r == loc[w]
           b == Batch(r)
           o == r.ord + r.at
           t == b[r.at + 1]
<1>1. r \in Request /\ r.ord \in Nat /\ r.at \in Nat /\ r.base <= r.ord
    BY DEF TypeOK, RequestOK, Sane, Request, SaveTurn
<1>2. b \in Seq(Turn)
    BY <1>1, BatchType
<1>3. t \in Turn
    BY <1>1, <1>2 DEF SaveTurn
<1>4. turns' = Insert(turns, o, t)
    BY DEF SaveTurn
<1>5. o \in Nat
    BY <1>1
<1> HIDE DEF o, t
<1>6. /\ DOMAIN turns \subseteq DOMAIN turns'
      /\ DOMAIN turns' \subseteq DOMAIN turns \cup {o}
      /\ \A p \in DOMAIN turns : turns'[p] = turns[p]
      /\ \A p \in DOMAIN turns' \ DOMAIN turns : p = o /\ turns'[p] = t
    BY <1>4, InsertEffect
<1>7. IsFiniteSet(DOMAIN turns')
    <2>1. IsFiniteSet(DOMAIN turns \cup {o})
        BY FS_AddElement DEF TypeOK
    <2> QED BY <2>1, <1>6, FS_Subset
<1> QED BY <1>3, <1>5, <1>6, <1>7 DEF TypeOK

\* The signatures of the turns a handler holds are numbers.
LEMMA InMemoryType ==
    ASSUME TypeOK, NEW w \in Workers
    PROVE  InMemory(w) \in SUBSET Nat
<1>1. loc[w].new \in Seq(Turn)
    BY DEF TypeOK, Request
<1>2. \A i \in DOMAIN loc[w].new : loc[w].new[i] \in Turn
    BY <1>1
<1> QED BY <1>2 DEF InMemory, Turn

\* What follows save_turns leaves the handler typed and sane.
LEMMA SavedOK ==
    ASSUME TypeOK, RequestOK, NEW w \in Workers, Saved(w),
           loc[w].pc = "save_turns",
           IsFiniteSet(DOMAIN turns'), DOMAIN turns \subseteq DOMAIN turns'
    PROVE  loc' \in [Workers -> Request] /\ RequestOK' /\ acked' \in SUBSET Nat
<1>1. CASE loc[w].kind \in {"round", "advance", "close"}
    <2>1. /\ loc' = [loc EXCEPT ![w].pc = "save_session", ![w].at = 0]
          /\ UNCHANGED acked
        BY <1>1 DEF Saved
    <2>2. loc' = [loc EXCEPT ![w] = [loc[w] EXCEPT !.pc = "save_session", !.at = 0]]
        BY <2>1 DEF TypeOK, Request
    <2> QED BY <2>1, <2>2, GotoOK DEF Phases, TypeOK
<1>2. CASE loc[w].kind \notin {"round", "advance", "close"}
    <2>1. Finish(w) /\ acked' = acked \cup InMemory(w)
        BY <1>2 DEF Saved, InMemory
    <2> QED BY <2>1, FinishOK, InMemoryType DEF TypeOK
<1> QED BY <1>1, <1>2

\* The empty database and idle handlers are typed.
LEMMA TypeInit == Init => TypeOK /\ RequestOK
<1> SUFFICES ASSUME Init PROVE TypeOK /\ RequestOK
    OBVIOUS
<1>1. Idle \in Request
    <2>1. <<>> \in Seq(Turn)
        OBVIOUS
    <2> QED BY <2>1 DEF Idle, Request, Phases, Kinds, GENESIS
<1>2. DOMAIN turns = {} /\ IsFiniteSet({})
    BY FS_EmptySet DEF Init
<1>3. TypeOK
    BY <1>1, <1>2 DEF Init, TypeOK
<1>4. RequestOK
    BY DEF Init, RequestOK, Sane, Idle
<1> QED BY <1>3, <1>4

\* Every step keeps the state typed and the handlers sane.
LEMMA TypeStep == TypeOK /\ RequestOK /\ [Next]_vars => TypeOK' /\ RequestOK'
<1> SUFFICES ASSUME TypeOK, RequestOK, [Next]_vars PROVE TypeOK' /\ RequestOK'
    OBVIOUS
<1> DEFINE Grown == /\ DOMAIN turns \subseteq DOMAIN turns'
                    /\ IsFiniteSet(DOMAIN turns')
           LocOK == loc' \in [Workers -> Request] /\ RequestOK'
<1>0. /\ IsFiniteSet(DOMAIN turns) /\ signed \in Nat /\ loc \in [Workers -> Request]
      /\ Cardinality(DOMAIN turns) \in Nat
      /\ UNCHANGED turns => Grown
    BY FS_CardinalityType DEF TypeOK
<1>1. ASSUME NEW w \in Workers, Open(w) PROVE TypeOK' /\ RequestOK'
    <2>1. PICK s \in Stages :
            loc' = [loc EXCEPT ![w] =
                [[Idle EXCEPT !.row = [stage |-> s, round_no |-> 0, closed |-> FALSE]]
                    EXCEPT !.new = Sign([Idle EXCEPT !.row =
                                [stage |-> s, round_no |-> 0, closed |-> FALSE]],
                                <<"facilitator">>, "opening"),
                           !.pc = "save_session"]]
        BY <1>1 DEF Open
    <2> DEFINE row0 == [stage |-> s, round_no |-> 0, closed |-> FALSE]
               r == [Idle EXCEPT !.row = row0]
               r2 == [r EXCEPT !.new = Sign(r, <<"facilitator">>, "opening"),
                               !.pc = "save_session"]
    <2>2. row0 \in Session
        BY DEF Session
    <2>3. r \in Request /\ r.row = row0
        <3>1. <<>> \in Seq(Turn)
            OBVIOUS
        <3> QED BY <2>2, <3>1 DEF Idle, Request, Phases, Kinds, GENESIS
    <2>4. Sign(r, <<"facilitator">>, "opening") \in Seq(Turn)
        BY <1>0, <2>2, <2>3, SignType, SpeakerTypes DEF Texts
    <2>5. r2 \in Request
        BY <2>3, <2>4 DEF Request, Phases
    <2>6. Sane(r2, Cardinality(DOMAIN turns)')
        BY <2>2 DEF Sane, Idle
    <2>7. loc' = [loc EXCEPT ![w] = r2]
        BY <2>1
    <2> HIDE DEF r, r2
    <2>8. LocOK
        BY <1>0, <1>1, <2>5, <2>6, <2>7, LocUpdate DEF Open
    <2> QED BY <1>0, <1>1, <2>8 DEF Open, TypeOK
<1>2. ASSUME NEW w \in Workers, LoadRow(w) PROVE TypeOK' /\ RequestOK'
    <2>1. PICK k \in Kinds : loc' = [loc EXCEPT ![w] =
                [Idle EXCEPT !.pc = "load_turns", !.kind = k, !.row = row]]
        BY <1>2 DEF LoadRow
    <2> DEFINE r == [Idle EXCEPT !.pc = "load_turns", !.kind = k, !.row = row]
    <2>2. row \in Session
        BY <1>2 DEF LoadRow, TypeOK
    <2>3. r \in Request
        <3>1. <<>> \in Seq(Turn)
            OBVIOUS
        <3> QED BY <2>2, <3>1 DEF Idle, Request, Phases, Kinds, GENESIS
    <2>4. Sane(r, Cardinality(DOMAIN turns)')
        BY <2>2 DEF Sane, Idle
    <2> HIDE DEF r
    <2>5. LocOK
        BY <1>0, <1>2, <2>1, <2>3, <2>4, LocUpdate DEF r, LoadRow
    <2> QED BY <1>2, <2>5 DEF LoadRow, TypeOK
<1>3. ASSUME NEW w \in Workers, LoadTurns(w) PROVE TypeOK' /\ RequestOK'
    <2> DEFINE r == [loc[w] EXCEPT !.pc = "count", !.base = Cardinality(DOMAIN turns),
                                   !.tail = LastSig(turns)]
    <2>1. loc' = [loc EXCEPT ![w] = r] /\ UNCHANGED turns
        BY <1>0, <1>3 DEF LoadTurns
    <2>2. loc[w] \in Request /\ loc[w].row \in Session
        BY <1>0, <1>3 DEF LoadTurns, RequestOK, Sane
    <2>3. r \in Request
        BY <1>0, <2>2, LastSigType DEF Request, Phases
    <2>4. Sane(r, Cardinality(DOMAIN turns)')
        BY <1>0, <2>1, <2>2 DEF Sane, Request
    <2> HIDE DEF r
    <2>5. LocOK
        BY <1>0, <2>1, <2>3, <2>4, LocUpdate
    <2> QED BY <1>3, <2>5 DEF LoadTurns, TypeOK
<1>4. ASSUME NEW w \in Workers, Count(w) PROVE TypeOK' /\ RequestOK'
    <2> DEFINE r == [loc[w] EXCEPT !.pc = "act", !.ord = Cardinality(DOMAIN turns)]
    <2>1. loc' = [loc EXCEPT ![w] = r] /\ UNCHANGED turns
        BY <1>0, <1>4 DEF Count
    <2>2. /\ loc[w] \in Request /\ loc[w].row \in Session
          /\ loc[w].base <= Cardinality(DOMAIN turns)
        BY <1>0, <1>4 DEF Count, RequestOK, Sane
    <2>3. r \in Request
        BY <1>0, <2>2 DEF Request, Phases
    <2>4. Sane(r, Cardinality(DOMAIN turns)')
        BY <1>0, <2>1, <2>2 DEF Sane, Request
    <2> HIDE DEF r
    <2>5. LocOK
        BY <1>0, <2>1, <2>3, <2>4, LocUpdate
    <2> QED BY <1>4, <2>5 DEF Count, TypeOK
<1>5. ASSUME NEW w \in Workers, RefuseClosed(w) \/ RefuseEngaged(w) \/ FailRound(w)
      PROVE  TypeOK' /\ RequestOK'
    <2>1. Finish(w) /\ UNCHANGED turns
        BY <1>5 DEF RefuseClosed, RefuseEngaged, FailRound
    <2>2. LocOK
        BY <1>0, <2>1, FinishOK
    <2> QED BY <1>5, <2>2 DEF RefuseClosed, RefuseEngaged, FailRound, TypeOK
<1>6. ASSUME NEW w \in Workers, Interject(w) PROVE TypeOK' /\ RequestOK'
    <2>1. loc[w].row \in Session
        BY <1>6 DEF Interject, RequestOK, Sane
    <2>2. LocOK /\ signed' \in Nat
        BY <1>6, <2>1, SpeakOK, SpeakerTypes DEF Interject, Texts
    <2> QED BY <1>6, <2>2 DEF Interject, TypeOK
<1>7. ASSUME NEW w \in Workers, Advance(w) PROVE TypeOK' /\ RequestOK'
    <2>1. PICK s \in Stages : Speak(w, [loc[w].row EXCEPT !.stage = s],
                                    <<"facilitator">>, "stage", "save_turns")
        BY <1>7 DEF Advance
    <2>2. [loc[w].row EXCEPT !.stage = s] \in Session
        BY <1>7 DEF Advance, RequestOK, Sane, Session
    <2>3. LocOK /\ signed' \in Nat
        BY <1>7, <2>1, <2>2, SpeakOK, SpeakerTypes DEF Advance, Texts
    <2> QED BY <1>7, <2>3 DEF Advance, TypeOK
<1>8. ASSUME NEW w \in Workers, Close(w) PROVE TypeOK' /\ RequestOK'
    <2>1. [loc[w].row EXCEPT !.closed = TRUE] \in Session
        BY <1>8 DEF Close, RequestOK, Sane, Session
    <2>2. LocOK /\ signed' \in Nat
        BY <1>8, <2>1, SpeakOK, SpeakerTypes DEF Close, Texts
    <2> QED BY <1>8, <2>2 DEF Close, TypeOK
<1>9. ASSUME NEW w \in Workers, BeginRound(w) PROVE TypeOK' /\ RequestOK'
    <2> DEFINE s == [loc[w].row EXCEPT !.round_no = @ + 1]
               r == [loc[w] EXCEPT !.pc = "listen", !.row = s]
    <2>1. /\ loc[w] \in Request /\ loc[w].row \in Session /\ UNCHANGED turns
          /\ loc[w].base <= loc[w].ord
        BY <1>0, <1>9 DEF BeginRound, RequestOK, Sane
    <2>2. loc' = [loc EXCEPT ![w] = r]
        BY <1>0, <1>9, <2>1 DEF BeginRound, Request, Session
    <2>3. s \in Session
        BY <2>1 DEF Session
    <2> HIDE DEF s
    <2>4. r \in Request
        BY <2>1, <2>3 DEF Request, Phases
    <2>5. Sane(r, Cardinality(DOMAIN turns)')
        BY <2>1, <2>3 DEF Sane, Request
    <2> HIDE DEF r
    <2>6. LocOK
        BY <1>0, <2>1, <2>2, <2>4, <2>5, LocUpdate
    <2> QED BY <1>9, <2>6 DEF BeginRound, TypeOK
<1>10. ASSUME NEW w \in Workers, EndRound(w) PROVE TypeOK' /\ RequestOK'
    <2>1. loc[w].row \in Session
        BY <1>10 DEF EndRound, RequestOK, Sane
    <2>2. LocOK /\ signed' \in Nat
        BY <1>10, <2>1, SpeakOK, SpeakerTypes DEF EndRound, Texts
    <2> QED BY <1>10, <2>2 DEF EndRound, TypeOK
<1>11. ASSUME NEW w \in Workers, SaveTurn(w) PROVE TypeOK' /\ RequestOK'
    <2>1. /\ Grown /\ DOMAIN turns' \in SUBSET Nat
          /\ \A o \in DOMAIN turns' : turns'[o] \in Turn
        BY <1>11, SaveTurnTables
    <2>2. loc[w] \in Request /\ loc[w].pc = "save_turns"
        BY <1>0, <1>11 DEF SaveTurn
    <2>3. lock' \in Workers \cup {None}
        BY <1>11 DEF SaveTurn, Holder
    <2>4. LocOK /\ txn' \in SUBSET DOMAIN turns' /\ acked' \in SUBSET Nat
        <3>1. CASE txn' = {} /\ Saved(w)
            BY <2>1, <2>2, <3>1, SavedOK
        <3>2. CASE /\ txn' = Pending(turns') /\ UNCHANGED acked
                   /\ loc' = [loc EXCEPT ![w].at = @ + 1]
            <4>1. loc' = [loc EXCEPT ![w] = [loc[w] EXCEPT !.pc = "save_turns",
                                                           !.at = loc[w].at + 1]]
                BY <1>0, <2>2, <3>2 DEF Request
            <4>2. loc[w].at + 1 \in Nat
                BY <2>2 DEF Request
            <4>3. LocOK
                BY <2>1, <2>2, <4>1, <4>2, GotoOK DEF Phases
            <4> QED BY <2>1, <3>2, <4>3 DEF Pending, TypeOK
        <3> QED BY <1>11, <3>1, <3>2 DEF SaveTurn, Commit
    <2>5. left' \in SUBSET flags' /\ flags' = flags
        BY <1>11 DEF SaveTurn, Commit, TypeOK
    <2> QED BY <1>11, <2>1, <2>3, <2>4, <2>5 DEF SaveTurn, TypeOK
<1>12. ASSUME NEW w \in Workers, SaveNothing(w) PROVE TypeOK' /\ RequestOK'
    <2>1. Saved(w) /\ UNCHANGED turns /\ loc[w].pc = "save_turns"
        BY <1>12 DEF SaveNothing
    <2>2. LocOK /\ acked' \in SUBSET Nat
        BY <1>0, <2>1, SavedOK
    <2> QED BY <1>12, <2>2 DEF SaveNothing, Commit, TypeOK
<1>13. ASSUME NEW w \in Workers, SaveSession(w) PROVE TypeOK' /\ RequestOK'
    <2>1. loc[w] \in Request /\ loc[w].row \in Session /\ loc[w].pc = "save_session"
        BY <1>0, <1>13 DEF SaveSession, RequestOK, Sane
    <2>2. LocOK /\ acked' \in SUBSET Nat
        <3>1. CASE UNCHANGED acked /\ \E pc \in {"save_turns", "stream"} : Goto(w, pc)
            <4>1. PICK pc \in {"save_turns", "stream"} : Goto(w, pc)
                BY <3>1
            <4>2. loc' = [loc EXCEPT ![w] = [loc[w] EXCEPT !.pc = pc, !.at = loc[w].at]]
                BY <1>0, <2>1, <4>1 DEF Goto, Request
            <4>3. pc \in Phases /\ loc[w].at \in Nat
                BY <2>1 DEF Request, Phases
            <4> QED BY <1>0, <1>13, <2>1, <3>1, <4>2, <4>3, GotoOK DEF SaveSession, TypeOK
        <3>2. CASE Finish(w) /\ acked' = acked \cup InMemory(w)
            BY <1>0, <1>13, <3>2, FinishOK, InMemoryType DEF SaveSession, TypeOK
        <3> QED BY <1>13, <3>1, <3>2 DEF SaveSession, InMemory
    <2> QED BY <1>13, <2>1, <2>2 DEF SaveSession, Commit, TypeOK
<1>14. ASSUME NEW w \in Workers, StreamTurn(w) PROVE TypeOK' /\ RequestOK'
    <2>1. loc[w] \in Request /\ loc[w].pc = "stream" /\ UNCHANGED turns
        BY <1>0, <1>14 DEF StreamTurn
    <2>2. /\ loc' = [loc EXCEPT ![w] = [loc[w] EXCEPT !.pc = "stream", !.at = loc[w].at + 1]]
          /\ loc[w].at + 1 \in Nat
        <3>1. loc[w].at + 1 \in Nat
            BY <2>1 DEF Request
        <3>2. [loc[w] EXCEPT !.at = @ + 1]
                  = [loc[w] EXCEPT !.pc = "stream", !.at = loc[w].at + 1]
            BY <2>1 DEF Request
        <3>3. loc' = [loc EXCEPT ![w] = [loc[w] EXCEPT !.at = @ + 1]]
            BY <1>0, <1>14 DEF StreamTurn
        <3>4. loc' = [loc EXCEPT ![w] = [loc[w] EXCEPT !.pc = "stream",
                                                       !.at = loc[w].at + 1]]
            BY <3>2, <3>3, Zenon
        <3> QED BY <3>1, <3>4, Zenon
    <2>3. LocOK
        BY <1>0, <2>1, <2>2, GotoOK DEF Phases
    <2>4. acked' \in SUBSET Nat
        <3>1. loc[w].new[loc[w].at + 1].sig \in Nat
            <4>1. loc[w].new \in Seq(Turn) /\ loc[w].at \in Nat
                BY <2>1 DEF Request
            <4>2. loc[w].at + 1 \in DOMAIN loc[w].new
                BY <1>14, <4>1 DEF StreamTurn
            <4>3. loc[w].new[loc[w].at + 1] \in Turn
                BY <4>1, <4>2
            <4> QED BY <4>3 DEF Turn
        <3> QED BY <1>14, <3>1 DEF StreamTurn, TypeOK
    <2> QED BY <1>14, <2>3, <2>4 DEF StreamTurn, TypeOK
<1>15. ASSUME NEW w \in Workers, SaveFlags(w) PROVE TypeOK' /\ RequestOK'
    <2>1. Finish(w) /\ UNCHANGED turns
        BY <1>15 DEF SaveFlags
    <2>2. LocOK
        BY <1>0, <2>1, FinishOK
    <2>3. loc[w].new \in Seq(Turn)
        BY <1>0 DEF Request
    <2>4. Findings(loc[w]) \in SUBSET Nat
        <3>1. \A i \in DOMAIN loc[w].new : loc[w].new[i] \in Turn
            BY <2>3
        <3> QED BY <3>1 DEF Findings, Turn
    <2>5. flags' \in SUBSET Nat /\ left' \in SUBSET flags'
        BY <1>15, <2>4 DEF SaveFlags, Commit, TypeOK
    <2> QED BY <1>15, <2>2, <2>5 DEF SaveFlags, Commit, TypeOK
<1>16. CASE ToggleKillSwitch
    BY <1>16 DEF ToggleKillSwitch, TypeOK, RequestOK
<1>17. CASE Crash
    <2>1. DOMAIN turns' = DOMAIN turns \ txn /\ \A o \in DOMAIN turns' : turns'[o] = turns[o]
        BY <1>17 DEF Crash
    <2>2. IsFiniteSet(DOMAIN turns')
        BY <1>0, <2>1, FS_Subset
    <2>3. Idle \in Request
        <3>1. <<>> \in Seq(Turn)
            OBVIOUS
        <3> QED BY <3>1 DEF Idle, Request, Phases, Kinds, GENESIS
    <2>4. RequestOK'
        BY <1>17 DEF Crash, RequestOK, Sane, Idle
    <2> QED BY <1>17, <2>1, <2>2, <2>3, <2>4 DEF Crash, Commit, TypeOK
<1>18. CASE UNCHANGED vars
    BY <1>18 DEF vars, TypeOK, RequestOK
<1> QED BY <1>1, <1>2, <1>3, <1>4, <1>5, <1>6, <1>7, <1>8, <1>9, <1>10, <1>11,
           <1>12, <1>13, <1>14, <1>15, <1>16, <1>17, <1>18 DEF Next, Handle, Save

\* The state of the store and of every handler has its type, and handlers are
\* sane, in every reachable state.
THEOREM TypeCorrect == Spec => [](TypeOK /\ RequestOK)
BY TypeInit, TypeStep, PTL DEF Spec

\* A handler of a closed or forgotten request holds no turns, frames or fan-out.
THEOREM HandlersSane == Spec => []RequestOK
BY TypeCorrect, PTL

-----------------------------------------------------------------------------
(* The record is append-only.                                              *)

\* Only a save adds rows and only a crash drops some, of the open transaction.
LEMMA TurnsStep ==
    ASSUME TypeOK, RequestOK, [Next]_vars
    PROVE  \/ UNCHANGED turns
           \/ \E w \in Workers : SaveTurn(w)
           \/ Crash
BY DEF Next, Handle, Save, Open, LoadRow, LoadTurns, RefuseClosed, Count,
       RefuseEngaged, Interject, Advance, Close, BeginRound, EndRound, FailRound,
       SaveNothing, SaveSession, StreamTurn, SaveFlags, ToggleKillSwitch, vars

\* A committed turn is never changed or removed, whatever else the handlers,
\* the clients and crashes do (store.save_turns, INSERT OR IGNORE).
THEOREM RecordAppendOnly == Spec => AppendOnly
<1>1. TypeOK /\ RequestOK /\ [Next]_vars =>
          [\A o \in Committed : o \in DOMAIN turns' /\ turns'[o] = turns[o]]_vars
    <2> SUFFICES ASSUME TypeOK, RequestOK, [Next]_vars, NEW o \in Committed
                 PROVE  o \in DOMAIN turns' /\ turns'[o] = turns[o]
        OBVIOUS
    <2>1. o \in DOMAIN turns /\ o \notin txn
        BY DEF Committed
    <2>2. CASE UNCHANGED turns
        BY <2>1, <2>2
    <2>3. ASSUME NEW w \in Workers, SaveTurn(w)
          PROVE  o \in DOMAIN turns' /\ turns'[o] = turns[o]
        BY <2>1, <2>3, SaveTurnTables
    <2>4. CASE Crash
        BY <2>1, <2>4 DEF Crash
    <2> QED BY <2>2, <2>3, <2>4, TurnsStep
<1> QED BY <1>1, TypeCorrect, PTL DEF Spec, AppendOnly

-----------------------------------------------------------------------------
(* The open transaction is the lock holder's, and no half is published.    *)

\* Every signature is made once, and the handlers hold different ones.
SigsFresh ==
    /\ \A o \in DOMAIN turns : turns[o].sig <= signed
    /\ \A w \in Workers : \A s \in InMemory(w) : s <= signed
    /\ \A v, w \in Workers : v # w => InMemory(v) \cap InMemory(w) = {}

\* The two halves of TransactionIsHolders: the turns of the open transaction, and
\* the findings.
OwnTransaction ==
    /\ lock = None => txn = {}
    /\ \A o \in txn : turns[o].sig \in InMemory(lock)
    /\ \A w \in Workers : Unsaved(w) =>
          \A o \in Committed : turns[o].sig \notin InMemory(w)

FlagsStored == \A f \in flags : \E o \in Committed : turns[o].turn_id = f

HolderInv == OwnTransaction /\ HolderSaves /\ SigsFresh

\* A step of w that is not taken in the middle of a batch: it leaves the turns
\* and the lock alone, may commit when the lock is free, and w keeps, drops or
\* freshly signs the turns it holds.
Private(w) ==
    /\ loc[w].pc # "save_turns"
    /\ UNCHANGED <<turns, lock>>
    /\ txn' = txn \/ (MayWrite(w) /\ txn' = {})
    /\ \A v \in Workers \ {w} : loc'[v] = loc[v]
    /\ \/ signed' = signed /\ InMemory(w)' \subseteq InMemory(w) /\ (Unsaved(w)' => Unsaved(w))
       \/ /\ signed' \in Nat /\ signed <= signed'
          /\ \A s \in InMemory(w)' : signed < s /\ s <= signed'

\* What a handler signs is newer than everything signed before.
LEMMA SignFresh ==
    ASSUME signed \in Nat, NEW r, NEW speakers \in Seq(Speakers), NEW text,
           signed' = signed + Len(speakers)
    PROVE  /\ signed' \in Nat /\ signed <= signed'
           /\ \A i \in DOMAIN Sign(r, speakers, text) :
                 /\ signed < Sign(r, speakers, text)[i].sig
                 /\ Sign(r, speakers, text)[i].sig <= signed'
<1>1. Len(speakers) \in Nat /\ DOMAIN speakers = 1..Len(speakers)
    OBVIOUS
<1>2. DOMAIN Sign(r, speakers, text) = DOMAIN speakers
    BY DEF Sign
<1>3. \A i \in DOMAIN speakers : Sign(r, speakers, text)[i].sig = signed + i
    BY DEF Sign
<1> QED BY <1>1, <1>2, <1>3

\* Only the steps of save_turns are anything else.
LEMMA PrivateSteps ==
    ASSUME TypeOK, NEW w \in Workers,
           \/ Open(w) \/ LoadRow(w) \/ LoadTurns(w) \/ RefuseClosed(w) \/ Count(w)
           \/ RefuseEngaged(w) \/ Interject(w) \/ Advance(w) \/ Close(w)
           \/ BeginRound(w) \/ EndRound(w) \/ FailRound(w)
           \/ SaveSession(w) \/ StreamTurn(w) \/ SaveFlags(w)
    PROVE  Private(w)
<1>0. loc \in [Workers -> Request] /\ loc[w] \in Request /\ signed \in Nat
    BY DEF TypeOK
<1>a. Idle.new = <<>> /\ Idle.pc = "idle"
    BY DEF Idle
<1>1. CASE RefuseClosed(w) \/ RefuseEngaged(w) \/ FailRound(w) \/ SaveFlags(w)
    <2>1. /\ loc[w].pc # "save_turns"
          /\ UNCHANGED <<turns, lock, signed>>
          /\ txn' = txn \/ (MayWrite(w) /\ txn' = {})
          /\ loc' = [loc EXCEPT ![w] = Idle]
        BY <1>0, <1>1 DEF RefuseClosed, RefuseEngaged, FailRound, SaveFlags, Finish, Commit
    <2>2. loc'[w] = Idle /\ \A v \in Workers \ {w} : loc'[v] = loc[v]
        BY <1>0, <2>1
    <2>3. InMemory(w)' = {}
        BY <1>a, <2>2 DEF InMemory
    <2>4. ~Unsaved(w)'
        BY <1>a, <2>2 DEF Unsaved
    <2> QED BY <2>1, <2>2, <2>3, <2>4 DEF Private
<1>2. CASE LoadRow(w)
    <2>1. PICK k \in Kinds : loc' = [loc EXCEPT ![w] = [Idle EXCEPT !.pc = "load_turns",
                                                   !.kind = k, !.row = row]]
        BY <1>2 DEF LoadRow
    <2>2. loc'[w] = [Idle EXCEPT !.pc = "load_turns", !.kind = k, !.row = row]
        BY <1>0, <2>1
    <2>3. loc'[w].new = <<>> /\ loc'[w].pc = "load_turns"
        BY <2>2 DEF Idle
    <2>4. \A v \in Workers \ {w} : loc'[v] = loc[v]
        BY <1>0, <2>1
    <2>5. loc[w].pc # "save_turns" /\ UNCHANGED <<turns, txn, lock, signed>>
        BY <1>2 DEF LoadRow
    <2> QED BY <1>0, <2>3, <2>4, <2>5 DEF Private, InMemory, Unsaved
<1>3. CASE LoadTurns(w) \/ Count(w) \/ BeginRound(w) \/ StreamTurn(w)
    <2>1. /\ loc[w].pc # "save_turns"
          /\ UNCHANGED <<turns, txn, lock, signed>>
          /\ \A v \in Workers \ {w} : loc'[v] = loc[v]
        BY <1>0, <1>3 DEF LoadTurns, Count, BeginRound, StreamTurn
    <2>2. loc'[w].new = loc[w].new /\ loc'[w].pc \in {"count", "act", "listen", "stream"}
        BY <1>0, <1>3 DEF LoadTurns, Count, BeginRound, StreamTurn, Request
    <2> QED BY <2>1, <2>2 DEF Private, InMemory, Unsaved
<1>4. CASE SaveSession(w)
    <2>1. /\ loc[w].pc = "save_session" /\ MayWrite(w) /\ txn' = {}
          /\ UNCHANGED <<turns, lock, signed>>
        BY <1>4 DEF SaveSession, Commit
    <2>2. CASE loc[w].kind = "open"
        <3>1. loc' = [loc EXCEPT ![w].pc = "save_turns"]
            BY <1>4, <2>2 DEF SaveSession, Goto
        <3>2. loc'[w].new = loc[w].new /\ \A v \in Workers \ {w} : loc'[v] = loc[v]
            BY <1>0, <3>1 DEF Request
        <3> QED BY <2>1, <2>2, <3>2 DEF Private, InMemory, Unsaved
    <2>3. CASE loc[w].kind = "round"
        <3>1. loc' = [loc EXCEPT ![w].pc = "stream"]
            BY <1>4, <2>3 DEF SaveSession, Goto
        <3>2. loc'[w].new = loc[w].new /\ loc'[w].pc = "stream"
              /\ \A v \in Workers \ {w} : loc'[v] = loc[v]
            BY <1>0, <3>1 DEF Request
        <3> QED BY <2>1, <3>2 DEF Private, InMemory, Unsaved
    <2>4. CASE loc[w].kind \notin {"open", "round"}
        <3>1. loc' = [loc EXCEPT ![w] = Idle]
            BY <1>4, <2>4 DEF SaveSession, Finish
        <3>2. loc'[w] = Idle /\ \A v \in Workers \ {w} : loc'[v] = loc[v]
            BY <1>0, <3>1
        <3> QED BY <1>a, <2>1, <3>2 DEF Private, InMemory, Unsaved
    <2> QED BY <2>2, <2>3, <2>4
<1>5. ASSUME NEW r, NEW speakers \in Seq(Speakers), NEW text,
             /\ loc[w].pc # "save_turns"
             /\ UNCHANGED <<turns, txn, lock>>
             /\ loc'[w].new = Sign(r, speakers, text)
             /\ \A v \in Workers \ {w} : loc'[v] = loc[v]
             /\ signed' = signed + Len(speakers)
      PROVE  Private(w)
    <2>1. /\ signed' \in Nat /\ signed <= signed'
          /\ \A s \in InMemory(w)' : signed < s /\ s <= signed'
        BY <1>0, <1>5, SignFresh DEF InMemory
    <2> QED BY <1>5, <2>1 DEF Private
<1>6. ASSUME NEW s, NEW speakers \in Seq(Speakers), NEW text,
             Speak(w, s, speakers, text, "save_turns"), loc[w].pc # "save_turns",
             UNCHANGED <<turns, txn, lock>>
      PROVE  Private(w)
    <2> DEFINE r == [loc[w] EXCEPT !.row = s]
    <2>1. /\ loc' = [loc EXCEPT ![w] = [r EXCEPT !.new = Sign(r, speakers, text),
                                                 !.pc = "save_turns"]]
          /\ signed' = signed + Len(speakers)
        BY <1>6 DEF Speak
    <2>2. loc'[w] = [r EXCEPT !.new = Sign(r, speakers, text), !.pc = "save_turns"]
          /\ \A v \in Workers \ {w} : loc'[v] = loc[v]
        BY <1>0, <2>1
    <2>3. loc'[w].new = Sign(r, speakers, text)
        BY <1>0, <2>2 DEF Request
    <2> QED BY <1>5, <1>6, <2>1, <2>2, <2>3
<1>7. CASE Open(w)
    <2>1. PICK s \in Stages :
              LET r == [Idle EXCEPT !.row = [stage |-> s, round_no |-> 0, closed |-> FALSE]] IN
              loc' = [loc EXCEPT ![w] = [r EXCEPT !.new = Sign(r, <<"facilitator">>, "opening"),
                                                  !.pc = "save_session"]]
        BY <1>7 DEF Open
    <2> DEFINE r == [Idle EXCEPT !.row = [stage |-> s, round_no |-> 0, closed |-> FALSE]]
    <2>2. loc'[w] = [r EXCEPT !.new = Sign(r, <<"facilitator">>, "opening"),
                              !.pc = "save_session"]
          /\ \A v \in Workers \ {w} : loc'[v] = loc[v]
        BY <1>0, <2>1
    <2>3. loc'[w].new = Sign(r, <<"facilitator">>, "opening")
        BY <2>2 DEF Idle
    <2>4. /\ loc[w].pc # "save_turns" /\ UNCHANGED <<turns, txn, lock>>
          /\ signed' = signed + Len(<<"facilitator">>)
        BY <1>7 DEF Open
    <2> QED BY <1>5, <2>2, <2>3, <2>4, SpeakerTypes
<1>8. CASE Interject(w) \/ Advance(w) \/ Close(w) \/ EndRound(w)
    BY <1>6, <1>8, SpeakerTypes DEF Interject, Advance, Close, EndRound
<1> QED BY <1>1, <1>2, <1>3, <1>4, <1>7, <1>8

\* Nobody holds the lock of a new process, and nothing has been signed.
LEMMA HolderInit == Init => HolderInv
BY DEF Init, HolderInv, OwnTransaction, HolderSaves, SigsFresh, InMemory,
       Unsaved, Committed, Idle

\* A step outside save_turns keeps the invariant.
LEMMA PrivateHolder ==
    ASSUME TypeOK, HolderInv, NEW w \in Workers, Private(w)
    PROVE  HolderInv'
<1>0. loc \in [Workers -> Request] /\ signed \in Nat
    BY DEF TypeOK
<1>1. lock # w /\ UNCHANGED <<turns, txn, lock>>
    BY NoneAssumption DEF HolderInv, HolderSaves, OwnTransaction, Private, MayWrite
<1>2. lock # None => lock \in Workers \ {w} /\ loc'[lock] = loc[lock]
    BY <1>1 DEF Private, HolderInv, HolderSaves
<1>3. HolderSaves'
    BY <1>1, <1>2 DEF HolderInv, HolderSaves
<1>4. \A v \in Workers \ {w} : InMemory(v)' = InMemory(v) /\ (Unsaved(v)' <=> Unsaved(v))
    BY DEF Private, InMemory, Unsaved
<1>5. Committed' = Committed /\ \A o \in Committed : o \in DOMAIN turns
    BY <1>1 DEF Committed
<1>6. \A v \in Workers : InMemory(v) \in SUBSET Nat
    BY InMemoryType
<1>7. \A o \in DOMAIN turns : turns[o].sig \in Nat
    BY DEF TypeOK, Turn
<1>8. CASE /\ signed' = signed /\ InMemory(w)' \subseteq InMemory(w)
           /\ (Unsaved(w)' => Unsaved(w))
    <2>1. SigsFresh'
        BY <1>1, <1>4, <1>8 DEF HolderInv, SigsFresh
    <2>2. OwnTransaction'
        <3>1. ASSUME NEW o \in txn PROVE turns[o].sig \in InMemory(lock)'
            <4>1. lock # None /\ turns[o].sig \in InMemory(lock)
                BY <3>1 DEF HolderInv, OwnTransaction
            <4> QED BY <1>1, <1>2, <4>1 DEF InMemory
        <3>2. ASSUME NEW v \in Workers, Unsaved(v)', NEW o \in Committed
              PROVE  turns[o].sig \notin InMemory(v)'
            BY <1>4, <1>8, <3>2 DEF HolderInv, OwnTransaction
        <3>3. lock = None => txn = {}
            BY DEF HolderInv, OwnTransaction
        <3> QED BY <1>1, <1>5, <3>1, <3>2, <3>3 DEF OwnTransaction
    <2> QED BY <1>3, <2>1, <2>2 DEF HolderInv
<1>9. CASE /\ signed' \in Nat /\ signed <= signed'
           /\ \A s \in InMemory(w)' : signed < s /\ s <= signed'
    <2>2. SigsFresh'
        <3>1. \A o \in DOMAIN turns : turns[o].sig <= signed'
            BY <1>0, <1>7, <1>9 DEF HolderInv, SigsFresh
        <3>2. ASSUME NEW v \in Workers PROVE \A s \in InMemory(v)' : s <= signed'
            BY <1>0, <1>4, <1>6, <1>9 DEF HolderInv, SigsFresh
        <3>3. \A v \in Workers \ {w} : InMemory(v) \cap InMemory(w)' = {}
            BY <1>0, <1>6, <1>9 DEF HolderInv, SigsFresh
        <3>4. ASSUME NEW u \in Workers, NEW v \in Workers, u # v
              PROVE  InMemory(u)' \cap InMemory(v)' = {}
            <4>1. CASE u # w /\ v # w
                BY <1>4, <3>4, <4>1 DEF HolderInv, SigsFresh
            <4>2. CASE u = w \/ v = w
                BY <1>4, <3>3, <3>4, <4>2
            <4> QED BY <4>1, <4>2
        <3> QED BY <1>1, <3>1, <3>2, <3>4 DEF SigsFresh
    <2>3. OwnTransaction'
        <3>1. ASSUME NEW o \in txn PROVE turns[o].sig \in InMemory(lock)'
            <4>1. lock # None /\ turns[o].sig \in InMemory(lock)
                BY <3>1 DEF HolderInv, OwnTransaction
            <4> QED BY <1>1, <1>2, <4>1 DEF InMemory
        <3>2. ASSUME NEW v \in Workers, Unsaved(v)', NEW o \in Committed
              PROVE  turns[o].sig \notin InMemory(v)'
            <4>1. CASE v = w
                BY <1>0, <1>5, <1>7, <1>9, <4>1 DEF HolderInv, SigsFresh
            <4>2. CASE v # w
                BY <1>4, <3>2, <4>2 DEF HolderInv, OwnTransaction
            <4> QED BY <4>1, <4>2
        <3>3. lock = None => txn = {}
            BY DEF HolderInv, OwnTransaction
        <3> QED BY <1>1, <1>5, <3>1, <3>2, <3>3 DEF OwnTransaction
    <2> QED BY <1>3, <2>2, <2>3 DEF HolderInv
<1> QED BY <1>8, <1>9 DEF Private

\* A handler in the middle of a batch, that saves the next row or the last.
LEMMA SaveTurnHolder ==
    ASSUME TypeOK, RequestOK, HolderInv, NEW w \in Workers, SaveTurn(w)
    PROVE  HolderInv'
<1> DEFINE r == loc[w]
           b == Batch(r)
           last == r.at + 1 = Len(b)
<1>0. loc \in [Workers -> Request] /\ signed \in Nat
    BY DEF TypeOK
<1>1. /\ r \in Request /\ r.pc = "save_turns" /\ r.base <= r.ord
      /\ lock \in {None, w} /\ r.at \in Nat /\ r.at < Len(b)
    BY <1>0 DEF SaveTurn, RequestOK, Sane, MayWrite, Request
<1>2. /\ DOMAIN turns \subseteq DOMAIN turns'
      /\ \A o \in DOMAIN turns : turns'[o] = turns[o]
      /\ \A o \in DOMAIN turns' : turns'[o] \in Turn
    BY SaveTurnTables
<1>3. \A o \in DOMAIN turns' \ DOMAIN turns : turns'[o].sig \in InMemory(w)
    <2>1. turns' = Insert(turns, r.ord + r.at, b[r.at + 1])
        BY DEF SaveTurn
    <2>2. \A o \in DOMAIN turns' \ DOMAIN turns : turns'[o] = b[r.at + 1]
        BY <2>1, InsertEffect
    <2>3. b \in Seq(Turn) /\ r.at + 1 \in DOMAIN b
        BY <1>1, BatchType
    <2>4. \E j \in DOMAIN r.new : b[r.at + 1] = r.new[j]
        BY <1>1, <2>3, BatchType
    <2> QED BY <2>2, <2>4 DEF InMemory
<1>4. \A o \in txn : turns[o].sig \in InMemory(w)
    BY <1>1 DEF HolderInv, OwnTransaction
<1>5. Unsaved(w)
    BY <1>1 DEF Unsaved
<1>6. \A v \in Workers \ {w} : loc'[v] = loc[v]
    BY <1>0 DEF SaveTurn, Saved, Finish
<1>7. \A v \in Workers \ {w} : InMemory(v)' = InMemory(v) /\ (Unsaved(v)' <=> Unsaved(v))
    BY <1>6 DEF InMemory, Unsaved
<1>8. InMemory(w)' \subseteq InMemory(w)
    <2>1. loc'[w].new = r.new \/ loc'[w].new = <<>>
        BY <1>0, <1>1 DEF SaveTurn, Saved, Finish, Idle, Request
    <2> QED BY <2>1 DEF InMemory
<1>9. SigsFresh'
    <2>1. signed' = signed
        BY DEF SaveTurn
    <2>2. ASSUME NEW o \in DOMAIN turns' PROVE turns'[o].sig <= signed
        BY <1>2, <1>3, <2>2 DEF HolderInv, SigsFresh
    <2> QED BY <1>7, <1>8, <2>1, <2>2 DEF HolderInv, SigsFresh
<1>10. \A v \in Workers \ {w} : Unsaved(v)' =>
           \A o \in DOMAIN turns' : o \in Committed \/ o \in txn \/ o \notin DOMAIN turns =>
               turns'[o].sig \notin InMemory(v)'
    <2> SUFFICES ASSUME NEW v \in Workers \ {w}, Unsaved(v)', NEW o \in DOMAIN turns'
                 PROVE  turns'[o].sig \notin InMemory(v)
        BY <1>7
    <2>1. CASE o \in Committed
        BY <1>2, <1>7, <2>1 DEF HolderInv, OwnTransaction, Committed
    <2>2. CASE o \notin Committed
        <3>1. turns'[o].sig \in InMemory(w)
            BY <1>2, <1>3, <1>4, <2>2 DEF Committed
        <3> QED BY <3>1 DEF HolderInv, SigsFresh
    <2> QED BY <2>1, <2>2
<1>11. CASE last
    <2>1. txn' = {} /\ lock' = None /\ Saved(w)
        BY <1>11 DEF SaveTurn, Holder, Commit
    <2>2. ~Unsaved(w)'
        BY <1>0, <1>1, <2>1 DEF Saved, Finish, Unsaved, Idle, Request
    <2>3. HolderSaves'
        BY <2>1 DEF HolderSaves
    <2>4. \A v \in Workers : Unsaved(v)' => \A o \in Committed' : turns'[o].sig \notin InMemory(v)'
        BY <1>10, <2>2 DEF Committed
    <2> QED BY <1>9, <2>1, <2>3, <2>4 DEF HolderInv, OwnTransaction
<1>12. CASE ~last
    <2>1. /\ txn' = txn \cup (DOMAIN turns' \ DOMAIN turns) /\ lock' = w
          /\ loc' = [loc EXCEPT ![w].at = @ + 1]
        BY <1>12 DEF SaveTurn, Holder, Pending
    <2>2. /\ loc'[w].pc = "save_turns" /\ loc'[w].new = r.new
          /\ Batch(loc'[w]) = b
        BY <1>0, <1>1, <2>1 DEF Request, Batch
    <2>3. b # <<>>
        BY <1>1
    <2>4. HolderSaves'
        BY <2>1, <2>2, <2>3 DEF HolderSaves
    <2>5. InMemory(w)' = InMemory(w)
        BY <2>2 DEF InMemory
    <2>6. \A o \in txn' : turns'[o].sig \in InMemory(w)'
        BY <1>2, <1>3, <1>4, <2>1, <2>5 DEF TypeOK
    <2>7. Committed' = Committed
        BY <1>2, <2>1 DEF Committed, TypeOK
    <2>8. \A v \in Workers : Unsaved(v)' => \A o \in Committed' : turns'[o].sig \notin InMemory(v)'
        <3>1. \A o \in Committed : turns'[o].sig \notin InMemory(w)'
            BY <1>2, <1>5, <2>5 DEF HolderInv, OwnTransaction, Committed
        <3> QED BY <1>2, <1>10, <2>7, <3>1 DEF Committed
    <2> QED BY <1>9, <2>1, <2>4, <2>6, <2>8, NoneAssumption DEF HolderInv, OwnTransaction
<1> QED BY <1>11, <1>12

\* Every step keeps the open transaction its holder's own.
LEMMA HolderStep ==
    TypeOK /\ RequestOK /\ HolderInv /\ [Next]_vars => HolderInv'
<1> SUFFICES ASSUME TypeOK, RequestOK, HolderInv, [Next]_vars
             PROVE  HolderInv'
    OBVIOUS
<1>1. ASSUME NEW w \in Workers, SaveNothing(w)
      PROVE  HolderInv'
    <2>1. /\ lock \in {None, w} /\ loc[w].pc = "save_turns" /\ Batch(loc[w]) = <<>>
          /\ UNCHANGED <<turns, lock, signed>> /\ txn' = {} /\ Saved(w)
        BY <1>1 DEF SaveNothing, MayWrite, Commit
    <2>2. lock = None /\ txn = {}
        BY <2>1, NoneAssumption DEF HolderInv, HolderSaves, OwnTransaction
    <2>3. loc \in [Workers -> Request]
        BY DEF TypeOK
    <2>4. \A v \in Workers \ {w} : loc'[v] = loc[v]
        BY <2>1, <2>3 DEF Saved, Finish
    <2>5. \A v \in Workers \ {w} : InMemory(v)' = InMemory(v) /\ (Unsaved(v)' <=> Unsaved(v))
        BY <2>4 DEF InMemory, Unsaved
    <2>6. InMemory(w)' \subseteq InMemory(w)
        <3>1. loc'[w].new = loc[w].new \/ loc'[w].new = <<>>
            BY <2>1, <2>3 DEF Saved, Finish, Idle, Request
        <3> QED BY <3>1 DEF InMemory
    <2>7. ~Unsaved(w)'
        BY <2>1, <2>3 DEF Saved, Finish, Unsaved, Idle, Request
    <2>8. SigsFresh'
        BY <2>1, <2>5, <2>6 DEF HolderInv, SigsFresh
    <2>9. OwnTransaction'
        BY <2>1, <2>2, <2>5, <2>7 DEF HolderInv, OwnTransaction, Committed
    <2> QED BY <2>1, <2>2, <2>8, <2>9 DEF HolderInv, HolderSaves
<1>2. CASE ToggleKillSwitch \/ UNCHANGED vars
    <2>1. UNCHANGED <<turns, txn, lock, loc, signed>>
        BY <1>2 DEF ToggleKillSwitch, vars
    <2>2. /\ Committed' = Committed
          /\ \A w : InMemory(w)' = InMemory(w) /\ (Unsaved(w)' <=> Unsaved(w))
        BY <2>1 DEF Committed, InMemory, Unsaved
    <2>3. OwnTransaction'
        BY <2>1, <2>2 DEF HolderInv, OwnTransaction
    <2>4. HolderSaves' /\ SigsFresh'
        BY <2>1, <2>2 DEF HolderInv, HolderSaves, SigsFresh
    <2> QED BY <2>3, <2>4 DEF HolderInv
<1>3. CASE Crash
    <2>1. /\ turns' = [o \in DOMAIN turns \ txn |-> turns[o]]
          /\ txn' = {} /\ lock' = None /\ signed' = signed
          /\ loc' = [w \in Workers |-> Idle]
        BY <1>3 DEF Crash, Commit
    <2>2. \A w \in Workers : InMemory(w)' = {} /\ ~Unsaved(w)'
        BY <2>1 DEF InMemory, Unsaved, Idle
    <2> QED BY <2>1, <2>2 DEF HolderInv, OwnTransaction, HolderSaves, SigsFresh
<1> QED BY <1>1, <1>2, <1>3, PrivateSteps, PrivateHolder, SaveTurnHolder DEF Next, Handle, Save

\* What is committed stays committed and unchanged, whatever step is taken.
LEMMA CommittedKept ==
    ASSUME TypeOK, RequestOK, HolderInv, [Next]_vars
    PROVE  \A o \in Committed : o \in Committed' /\ turns'[o] = turns[o]
<1> SUFFICES ASSUME NEW o \in Committed
             PROVE  o \in DOMAIN turns' \ txn' /\ turns'[o] = turns[o]
    BY DEF Committed
<1>1. o \in DOMAIN turns /\ o \notin txn
    BY DEF Committed
<1>2. ASSUME NEW w \in Workers, SaveTurn(w)
      PROVE  o \in DOMAIN turns' \ txn' /\ turns'[o] = turns[o]
    <2>1. txn' = {} \/ txn' = txn \cup (DOMAIN turns' \ DOMAIN turns)
        BY <1>2 DEF SaveTurn, Commit, Pending
    <2> QED BY <1>1, <1>2, <2>1, SaveTurnTables
<1>3. CASE Crash
    BY <1>1, <1>3 DEF Crash, Commit
<1>4. CASE UNCHANGED turns /\ txn' \in {txn, {}}
    BY <1>1, <1>4
<1>5. ASSUME NEW w \in Workers, SaveNothing(w)
      PROVE  UNCHANGED turns /\ txn' \in {txn, {}}
    BY <1>5 DEF SaveNothing, Commit
<1>6. CASE ToggleKillSwitch \/ UNCHANGED vars
    BY <1>4, <1>6 DEF ToggleKillSwitch, vars
<1>7. ASSUME NEW w \in Workers, Private(w)
      PROVE  UNCHANGED turns /\ txn' \in {txn, {}}
    BY <1>7 DEF Private
<1> QED BY <1>2, <1>3, <1>4, <1>5, <1>6, <1>7, PrivateSteps DEF Next, Handle, Save

\* Findings are filed by save_flags alone, of turns that a commit has made safe: it
\* has WRITE_LOCK, and no turn waits in the transaction when the lock was free.
LEMMA FlagsStep ==
    ASSUME TypeOK, RequestOK, HolderInv, FlagsStored, [Next]_vars
    PROVE  FlagsStored'
<1>1. \A o \in Committed : o \in Committed' /\ turns'[o] = turns[o]
    BY CommittedKept
<1>2. CASE flags' \subseteq flags
    BY <1>1, <1>2 DEF FlagsStored
<1>3. ASSUME NEW w \in Workers, SaveFlags(w) PROVE FlagsStored'
    <2> DEFINE found == Findings(loc[w])
               missing == found \ TurnIds(turns)
    <2>1. CASE flags' = flags
        BY <1>2, <2>1
    <2>2. CASE MayWrite(w) /\ flags' = flags \cup {f \in found : \A m \in missing : f < m}
        <3>1. lock # w
            BY <1>3, NoneAssumption DEF SaveFlags, HolderInv, HolderSaves
        <3>2. txn = {}
            BY <2>2, <3>1 DEF MayWrite, HolderInv, OwnTransaction
        <3>3. found \in SUBSET Nat
            <4>1. loc[w].new \in Seq(Turn)
                BY DEF TypeOK, Request
            <4>2. \A i \in DOMAIN loc[w].new : loc[w].new[i] \in Turn
                BY <4>1
            <4> QED BY <4>2 DEF Findings, Turn
        <3>4. \A f \in flags' \ flags : f \in found /\ f \notin missing
            BY <2>2, <3>3
        <3>5. \A f \in flags' \ flags : \E o \in Committed : turns[o].turn_id = f
            BY <3>2, <3>4 DEF TurnIds, Committed
        <3> QED BY <1>1, <3>5 DEF FlagsStored
    <2> QED BY <1>3, <2>1, <2>2 DEF SaveFlags
<1>4. CASE Crash
    BY <1>2, <1>4 DEF Crash
<1>5. CASE ToggleKillSwitch \/ UNCHANGED vars
    BY <1>2, <1>5 DEF ToggleKillSwitch, vars
<1>6. ASSUME NEW w \in Workers,
             \/ Open(w) \/ LoadRow(w) \/ LoadTurns(w) \/ RefuseClosed(w) \/ Count(w)
             \/ RefuseEngaged(w) \/ Interject(w) \/ Advance(w) \/ Close(w)
             \/ BeginRound(w) \/ EndRound(w) \/ FailRound(w)
             \/ SaveTurn(w) \/ SaveNothing(w) \/ SaveSession(w) \/ StreamTurn(w)
      PROVE  flags' = flags
    BY <1>6 DEF Open, LoadRow, LoadTurns, RefuseClosed, Count, RefuseEngaged, Interject,
        Advance, Close, BeginRound, EndRound, FailRound, SaveTurn, SaveNothing,
        SaveSession, StreamTurn
<1> QED BY <1>2, <1>3, <1>4, <1>5, <1>6 DEF Next, Handle, Save

\* No commit publishes half of a batch of turns, another handler's or one's own, and no
\* finding is about a turn that can be rolled back.
THEOREM TransactionSafety == Spec => []TransactionIsHolders
<1>1. HolderInv /\ FlagsStored => TransactionIsHolders
    BY DEF HolderInv, OwnTransaction, FlagsStored, TransactionIsHolders
<1>2. Init => FlagsStored
    BY DEF Init, FlagsStored
<1>3. TypeOK /\ RequestOK /\ HolderInv /\ FlagsStored /\ [Next]_vars => FlagsStored'
    BY FlagsStep
<1> QED BY <1>1, <1>2, <1>3, TypeCorrect, HolderInit, HolderStep, PTL DEF Spec

\* WRITE_LOCK is never held by a handler that has gone on to other work
\* (store.save_turns: with WRITE_LOCK, write).
THEOREM HolderIsSaving == Spec => []HolderSaves
<1>1. HolderInv => HolderSaves
    BY DEF HolderInv
<1> QED BY <1>1, TypeCorrect, HolderInit, HolderStep, PTL DEF Spec

-----------------------------------------------------------------------------
(* Requests that do not overlap.                                           *)

\* No two requests for the session overlap.
OneAtATime ==
    \A v, w \in Workers : loc[v].pc # "idle" /\ loc[w].pc # "idle" => v = w

Rows == Cardinality(DOMAIN turns)

\* The signature that a turn at ordinal o chains from.
SigBefore(o) == IF o = 0 THEN GENESIS ELSE turns[o - 1].sig

-----------------------------------------------------------------------------
(* The store, whatever the handler is doing.                               *)

\* Ordinals leave no gap, and there are no turns before there is a session.
Contiguous ==
    /\ DOMAIN turns = 0..(Rows - 1)
    /\ row = None => Rows = 0

\* ChainIntact, with the turn before in place of the end of the rows before.
Linked ==
    \A o \in DOMAIN turns :
        turns[o].turn_id = o /\ turns[o].prev_sig = SigBefore(o)

StoreOK ==
    /\ Contiguous /\ Linked
    /\ RowBehindRecord /\ ShownIsStored /\ RoundsWhole /\ FlagsTruthful

-----------------------------------------------------------------------------
(* The handler at work, by phase.                                          *)

\* What w signed is what its kind says, and chains to the turn it loaded last.
Signs(w) ==
    LET r == loc[w] IN
    /\ r.base = r.ord /\ r.tail = SigBefore(r.ord) /\ Len(r.new) > 0
    /\ \A i \in DOMAIN r.new :
          /\ r.new[i].turn_id = r.ord + i - 1
          /\ r.new[i].prev_sig = IF i = 1 THEN r.tail ELSE r.new[i - 1].sig
          /\ r.new[i].text = "argument" <=> r.kind = "round"
          /\ r.kind = "close" => r.new[i].text = "closing"
          /\ r.kind = "round" =>
                r.new[i].speaker = Seating[i] /\ r.new[i].round_no = r.row.round_no
    /\ r.kind = "round" => Len(r.new) = Len(Seating)

\* The first k turns of w are stored, at the end of the table.
Stored(w, k) ==
    /\ Rows = loc[w].ord + k
    /\ \A i \in 1..k : turns[loc[w].ord + i - 1] = loc[w].new[i]

\* How the Session object of w may differ from the row it was loaded from.
Changes(w) ==
    LET r == loc[w] IN
    /\ row # None
    /\ r.kind = "round" => ~row.closed /\ ~r.row.closed
    /\ r.kind # "round" => r.row.round_no = row.round_no
    /\ r.kind # "close" => r.row.closed = row.closed
    /\ r.kind = "close" => r.row.closed

Reads(w) ==
    LET r == loc[w] IN
    /\ r.kind # "open" /\ row # None /\ r.row = row /\ r.at = 0
    /\ r.pc # "load_turns" => r.base = Rows /\ r.tail = SigBefore(Rows)
    /\ r.pc = "act" => r.ord = Rows /\ (r.kind = "round" => ~row.closed)

Listens(w) ==
    LET r == loc[w] IN
    /\ r.kind = "round" /\ r.at = 0 /\ Changes(w)
    /\ r.base = r.ord /\ r.ord = Rows /\ r.tail = SigBefore(Rows)

Opens(w) ==
    LET r == loc[w] IN
    /\ row = None /\ ~r.row.closed /\ r.row.round_no = 0
    /\ r.ord = 0 /\ r.at = 0 /\ Signs(w)

SavesTurns(w) ==
    LET r == loc[w] IN
    /\ Signs(w) /\ Changes(w) /\ r.at < Len(r.new) /\ Stored(w, r.at)
    /\ txn = r.ord..(Rows - 1)

SavesSession(w) ==
    LET r == loc[w] IN
    /\ r.kind \in {"round", "advance", "close"}
    /\ Signs(w) /\ Changes(w) /\ r.at = 0 /\ Stored(w, Len(r.new))

Streams(w) ==
    LET r == loc[w] IN
    /\ r.kind = "round" /\ Signs(w) /\ r.at <= Len(r.new) /\ Stored(w, Len(r.new))

Phase(w) ==
    /\ loc[w].pc \in {"load_turns", "count", "act"} => Reads(w)
    /\ loc[w].pc = "listen" => Listens(w)
    /\ loc[w].pc = "save_turns" => SavesTurns(w)
    /\ loc[w].pc = "save_session" =>
          IF loc[w].kind = "open" THEN Opens(w) ELSE SavesSession(w)
    /\ loc[w].pc = "stream" => Streams(w)

\* A transaction is open only in the middle of a batch.
TxnOfBatch == txn # {} => \E w \in Workers : loc[w].pc = "save_turns"

SerialInv == StoreOK /\ TxnOfBatch /\ \A w \in Workers : Phase(w)

\* What the proof of a step may assume of the state it starts in.
Before == TypeOK /\ RequestOK /\ OneAtATime /\ SerialInv

\* The variables StoreOK is about, and those a handler may change in private.
stored == <<row, turns, txn, flags, acked>>

-----------------------------------------------------------------------------
(* The store.                                                              *)

\* The rows of a table without gaps are counted by the next ordinal.
LEMMA CountTo ==
    ASSUME NEW n \in Nat
    PROVE  Cardinality(0..(n - 1)) = n
BY FS_Interval

\* The last signature of a table without gaps is the one before its end.
LEMMA LastOfTable ==
    ASSUME NEW n \in Nat, NEW table, DOMAIN table = 0..(n - 1)
    PROVE  LastSig(table) = IF n = 0 THEN GENESIS ELSE table[n - 1].sig
<1> DEFINE last == {o \in DOMAIN table : \A p \in DOMAIN table : p <= o}
<1>1. CASE n = 0
    <2>1. last = {}
        BY <1>1
    <2> QED BY <1>1, <2>1 DEF LastSig
<1>2. CASE n > 0
    <2>1. last = {n - 1}
        <3>1. n - 1 \in DOMAIN table /\ \A o \in DOMAIN table : o <= n - 1
            BY <1>2
        <3>2. \A o \in last : o \in DOMAIN table /\ n - 1 <= o /\ o \in Int
            BY <3>1
        <3>3. \A o \in last : o = n - 1
            BY <3>1, <3>2
        <3> QED BY <3>1, <3>3
    <2>2. (CHOOSE o \in last : TRUE) = n - 1
        BY <2>1
    <2> HIDE DEF last
    <2> QED BY <1>2, <2>1, <2>2 DEF LastSig, last
<1> QED BY <1>1, <1>2

\* A handler that is at work and not saving turns finds no transaction open,
\* and so does one that finds nobody at work.
LEMMA TxnEmpty ==
    ASSUME Before,
           \/ \A w \in Workers : loc[w].pc = "idle"
           \/ \E w \in Workers : loc[w].pc \notin {"idle", "save_turns"}
    PROVE  txn = {} /\ Committed = DOMAIN turns
<1>1. \A v \in Workers : loc[v].pc # "save_turns"
    BY DEF Before, OneAtATime
<1> QED BY <1>1 DEF Before, SerialInv, TxnOfBatch, Committed

\* What is committed are the first turns of the record.
LEMMA CommittedTo ==
    ASSUME TypeOK, SerialInv
    PROVE  /\ Cardinality(Committed) \in 0..Rows
           /\ Committed = 0..(Cardinality(Committed) - 1)
           /\ Rows \in Nat /\ DOMAIN turns = 0..(Rows - 1)
<1>1. Rows \in Nat /\ DOMAIN turns = 0..(Rows - 1)
    BY FS_CardinalityType DEF TypeOK, Rows, SerialInv, StoreOK, Contiguous
<1>2. CASE txn = {}
    <2>1. Committed = 0..(Rows - 1)
        BY <1>1, <1>2 DEF Committed
    <2> QED BY <1>1, <2>1, CountTo
<1>3. CASE txn # {}
    <2>1. PICK w \in Workers : loc[w].pc = "save_turns"
        BY <1>3 DEF SerialInv, TxnOfBatch
    <2>2. /\ Rows = loc[w].ord + loc[w].at
          /\ txn = loc[w].ord..(Rows - 1)
        BY <2>1 DEF SerialInv, Phase, SavesTurns, Stored
    <2>3. loc[w].ord \in Nat /\ loc[w].at \in Nat
        BY DEF TypeOK, Request
    <2>4. Committed = 0..(loc[w].ord - 1)
        BY <1>1, <2>2, <2>3 DEF Committed
    <2>5. Cardinality(Committed) = loc[w].ord
        BY <2>3, <2>4, CountTo
    <2> QED BY <1>1, <2>2, <2>3, <2>4, <2>5
<1> QED BY <1>2, <1>3

\* The chain is intact where every turn is linked to the one before it.
LEMMA LinkedChain ==
    ASSUME TypeOK, SerialInv
    PROVE  ChainIntact
<1>1. Rows \in Nat /\ DOMAIN turns = 0..(Rows - 1)
    BY CommittedTo
<1> SUFFICES ASSUME NEW o \in DOMAIN turns
             PROVE  /\ turns[o].turn_id = o
                    /\ turns[o].prev_sig =
                          LastSig([p \in {q \in DOMAIN turns : q < o} |-> turns[p]])
    BY DEF ChainIntact
<1> DEFINE before == [p \in {q \in DOMAIN turns : q < o} |-> turns[p]]
<1>2. o \in Nat /\ DOMAIN before = 0..(o - 1)
    BY <1>1
<1>3. o > 0 => before[o - 1] = turns[o - 1]
    BY <1>1, <1>2
<1>4. LastSig(before) = IF o = 0 THEN GENESIS ELSE before[o - 1].sig
    <2> HIDE DEF before
    <2> QED BY <1>2, LastOfTable
<1>5. turns[o].turn_id = o /\ turns[o].prev_sig = SigBefore(o)
    BY DEF SerialInv, StoreOK, Linked
<1> QED BY <1>2, <1>3, <1>4, <1>5 DEF SigBefore

-----------------------------------------------------------------------------
(* Steps in the private memory of the handler at work.                     *)

\* The handlers beside w are waiting for a request, before the step and after.
LEMMA OthersIdle ==
    ASSUME OneAtATime, OneAtATime', NEW w \in Workers,
           loc[w].pc # "idle" \/ loc'[w].pc # "idle",
           \A v \in Workers \ {w} : loc'[v] = loc[v]
    PROVE  \A v \in Workers \ {w} : loc[v].pc = "idle" /\ Phase(v)'
<1> SUFFICES ASSUME NEW v \in Workers \ {w} PROVE loc[v].pc = "idle" /\ Phase(v)'
    OBVIOUS
<1>1. loc[v].pc = "idle" /\ loc'[v].pc = "idle"
    BY DEF OneAtATime
<1> QED BY <1>1 DEF Phase

\* The store is right whatever happens to the rest of the state.
LEMMA StoreKept ==
    ASSUME StoreOK, UNCHANGED stored
    PROVE  StoreOK'
<1>1. row' = row /\ turns' = turns /\ txn' = txn /\ flags' = flags /\ acked' = acked
    BY DEF stored
<1>2. Rows' = Rows /\ Committed' = Committed
    BY <1>1 DEF Rows, Committed
<1>3. Contiguous' /\ Linked'
    BY <1>1, <1>2 DEF StoreOK, Contiguous, Linked, SigBefore
<1>4. RowBehindRecord' /\ ShownIsStored' /\ RoundsWhole' /\ FlagsTruthful'
    BY <1>1, <1>2 DEF StoreOK, RowBehindRecord, ShownIsStored, RoundsWhole, FlagsTruthful
<1> QED BY <1>3, <1>4 DEF StoreOK

\* A step of w that leaves the store alone keeps the invariant if it takes w to
\* a phase of which the invariant is true.
LEMMA QuietStep ==
    ASSUME Before, OneAtATime', NEW w \in Workers, UNCHANGED stored,
           loc[w].pc # "save_turns",
           loc[w].pc # "idle" \/ loc'[w].pc # "idle",
           \A v \in Workers \ {w} : loc'[v] = loc[v], Phase(w)'
    PROVE  SerialInv'
<1>1. StoreOK'
    BY StoreKept DEF Before, SerialInv
<1>2. \A v \in Workers \ {w} : loc[v].pc = "idle" /\ Phase(v)'
    BY OthersIdle DEF Before
<1>3. txn = {}
    BY <1>2 DEF Before, SerialInv, TxnOfBatch
<1>4. TxnOfBatch'
    BY <1>3 DEF TxnOfBatch, stored
<1> QED BY <1>1, <1>2, <1>4 DEF SerialInv

\* A handler that gives up leaves nothing behind.
LEMMA GiveUp ==
    ASSUME Before, OneAtATime', NEW w \in Workers, Finish(w), UNCHANGED stored,
           loc[w].pc \notin {"idle", "save_turns"}
    PROVE  SerialInv'
<1>1. loc'[w] = Idle /\ \A v \in Workers \ {w} : loc'[v] = loc[v]
    BY DEF Finish, Before, TypeOK
<1>2. Phase(w)'
    BY <1>1 DEF Phase, Idle
<1> QED BY <1>1, <1>2, QuietStep

\* A handler that loaded the whole record and speaks has a batch to save that
\* chains to the end of the record.
LEMMA SpeakStep ==
    ASSUME Before, OneAtATime', NEW w \in Workers, NEW s \in Session,
           NEW speakers \in Seq(Speakers), NEW text \in Texts, Len(speakers) > 0,
           Speak(w, s, speakers, text, "save_turns"), UNCHANGED stored,
           loc[w].pc \in {"act", "listen"}, loc[w].at = 0, row # None,
           loc[w].base = loc[w].ord, loc[w].ord = Rows, loc[w].tail = SigBefore(Rows),
           text = "argument" <=> loc[w].kind = "round",
           loc[w].kind = "round" => speakers = Seating /\ ~row.closed /\ ~s.closed,
           loc[w].kind = "close" => text = "closing" /\ s.closed,
           loc[w].kind # "round" => s.round_no = row.round_no,
           loc[w].kind # "close" => s.closed = row.closed
    PROVE  SerialInv'
<1> DEFINE r == [loc[w] EXCEPT !.row = s]
           new == Sign(r, speakers, text)
<1>1. /\ loc \in [Workers -> Request] /\ loc[w] \in Request /\ signed \in Nat
      /\ Rows \in Nat /\ DOMAIN turns = 0..(Rows - 1)
    BY CommittedTo DEF Before, TypeOK
<1>2. r \in Request /\ r.row = s
    BY <1>1 DEF Request
<1>3. new \in Seq(Turn) /\ Len(new) = Len(speakers)
    BY <1>1, <1>2, SignType
<1>4. loc' = [loc EXCEPT ![w] = [r EXCEPT !.new = new, !.pc = "save_turns"]]
    BY DEF Speak
<1>5. /\ loc'[w] = [r EXCEPT !.new = new, !.pc = "save_turns"]
      /\ \A v \in Workers \ {w} : loc'[v] = loc[v]
    BY <1>1, <1>4
<1>6. /\ loc'[w].pc = "save_turns" /\ loc'[w].kind = loc[w].kind /\ loc'[w].row = s
      /\ loc'[w].base = loc[w].base /\ loc'[w].tail = loc[w].tail
      /\ loc'[w].ord = loc[w].ord /\ loc'[w].new = new /\ loc'[w].at = 0
    BY <1>1, <1>5 DEF Request
<1>7. DOMAIN new = 1..Len(speakers) /\ Len(speakers) \in Nat
    BY <1>3
<1>8. \A i \in DOMAIN new :
        /\ new[i].turn_id = loc[w].base + i - 1 /\ new[i].text = text
        /\ new[i].prev_sig = IF i = 1 THEN loc[w].tail ELSE signed + i - 1
        /\ new[i].sig = signed + i /\ new[i].speaker = speakers[i]
        /\ new[i].round_no = s.round_no
    BY <1>1 DEF Sign, Request
<1> HIDE DEF new, r
<1>9. \A i \in DOMAIN new :
        new[i].prev_sig = IF i = 1 THEN loc[w].tail ELSE new[i - 1].sig
    BY <1>1, <1>7, <1>8
<1>10. row' = row /\ turns' = turns /\ txn' = {} /\ Rows' = Rows
    BY TxnEmpty DEF stored, Rows
<1>11. Signs(w)'
    BY <1>3, <1>6, <1>7, <1>8, <1>9, <1>10 DEF Signs, SigBefore
<1>12. Changes(w)'
    BY <1>6, <1>10 DEF Changes
<1>13. Stored(w, 0)' /\ loc'[w].ord = Rows'
    BY <1>1, <1>6, <1>10 DEF Stored
<1>14. SavesTurns(w)'
    BY <1>1, <1>3, <1>6, <1>10, <1>11, <1>12, <1>13 DEF SavesTurns, Stored
<1>15. Phase(w)'
    BY <1>6, <1>14 DEF Phase
<1> QED BY <1>5, <1>15, QuietStep

\* Opening a session: nobody else has it, and it is saved first.
LEMMA OpenStep ==
    ASSUME Before, OneAtATime', NEW w \in Workers, Open(w)
    PROVE  SerialInv'
<1>1. loc \in [Workers -> Request] /\ signed \in Nat
    BY DEF Before, TypeOK
<1>2. PICK s \in Stages :
          LET r == [Idle EXCEPT !.row = [stage |-> s, round_no |-> 0, closed |-> FALSE]] IN
          loc' = [loc EXCEPT ![w] = [r EXCEPT !.new = Sign(r, <<"facilitator">>, "opening"),
                                              !.pc = "save_session"]]
    BY DEF Open
<1> DEFINE r == [Idle EXCEPT !.row = [stage |-> s, round_no |-> 0, closed |-> FALSE]]
           new == Sign(r, <<"facilitator">>, "opening")
<1>3. loc'[w] = [r EXCEPT !.new = new, !.pc = "save_session"]
      /\ \A v \in Workers \ {w} : loc'[v] = loc[v]
    BY <1>1, <1>2
<1>4. /\ loc'[w].pc = "save_session" /\ loc'[w].kind = "open" /\ loc'[w].new = new
      /\ loc'[w].row.closed = FALSE /\ loc'[w].row.round_no = 0
      /\ loc'[w].base = 0 /\ loc'[w].ord = 0 /\ loc'[w].tail = GENESIS /\ loc'[w].at = 0
    BY <1>3 DEF Idle
<1>5. DOMAIN new = {1} /\ Len(new) = 1
    BY DEF Sign
<1>6. /\ new[1].turn_id = 0 /\ new[1].text = "opening" /\ new[1].prev_sig = GENESIS
    BY DEF Sign, Idle
<1> HIDE DEF new, r
<1>7. Signs(w)'
    BY <1>4, <1>5, <1>6 DEF Signs, SigBefore
<1>8. UNCHANGED stored /\ row' = None /\ loc[w].pc = "idle"
    BY DEF Open, stored
<1>9. Phase(w)'
    BY <1>4, <1>7, <1>8 DEF Phase, Opens
<1> QED BY <1>3, <1>4, <1>8, <1>9, QuietStep

\* Loading the session in three queries, of which nothing is missed.
LEMMA LoadSteps ==
    ASSUME Before, OneAtATime', NEW w \in Workers,
           LoadRow(w) \/ LoadTurns(w) \/ RefuseClosed(w) \/ Count(w)
    PROVE  SerialInv'
<1>1. /\ loc \in [Workers -> Request] /\ loc[w] \in Request /\ Phase(w)
      /\ Rows \in Nat /\ DOMAIN turns = 0..(Rows - 1)
    BY CommittedTo DEF Before, TypeOK, SerialInv
<1>2. UNCHANGED stored /\ row' = row /\ turns' = turns /\ Rows' = Rows
    BY DEF LoadRow, LoadTurns, RefuseClosed, Count, stored, Rows
<1>3. CASE LoadRow(w)
    <2>1. PICK k \in Kinds \ {"open"} : loc' = [loc EXCEPT ![w] =
              [Idle EXCEPT !.pc = "load_turns", !.kind = k, !.row = row]]
        BY <1>3 DEF LoadRow
    <2>2. /\ loc'[w] = [Idle EXCEPT !.pc = "load_turns", !.kind = k, !.row = row]
          /\ \A v \in Workers \ {w} : loc'[v] = loc[v]
        BY <1>1, <2>1
    <2>3. /\ loc'[w].pc = "load_turns" /\ loc'[w].kind = k /\ loc'[w].row = row
          /\ loc'[w].at = 0
        BY <2>2 DEF Idle
    <2>4. row # None /\ loc[w].pc = "idle"
        BY <1>3 DEF LoadRow
    <2>5. Phase(w)'
        BY <1>2, <2>3, <2>4 DEF Phase, Reads
    <2> QED BY <1>2, <2>2, <2>3, <2>4, <2>5, QuietStep
<1>4. CASE LoadTurns(w)
    <2>1. /\ loc'[w] = [loc[w] EXCEPT !.pc = "count", !.base = Rows, !.tail = LastSig(turns)]
          /\ \A v \in Workers \ {w} : loc'[v] = loc[v]
        BY <1>1, <1>4 DEF LoadTurns, Rows
    <2>2. /\ loc'[w].pc = "count" /\ loc'[w].kind = loc[w].kind /\ loc'[w].row = loc[w].row
          /\ loc'[w].base = Rows /\ loc'[w].tail = LastSig(turns) /\ loc'[w].at = loc[w].at
        BY <1>1, <2>1 DEF Request
    <2>3. LastSig(turns) = SigBefore(Rows)
        BY <1>1, LastOfTable DEF SigBefore
    <2>4. loc[w].pc = "load_turns" /\ Reads(w)
        BY <1>1, <1>4 DEF LoadTurns, Phase
    <2>5. Reads(w)'
        BY <1>2, <2>2, <2>3, <2>4 DEF Reads, SigBefore
    <2>6. Phase(w)'
        BY <2>2, <2>5 DEF Phase
    <2> QED BY <1>2, <2>1, <2>4, <2>6, QuietStep
<1>5. CASE RefuseClosed(w)
    BY <1>2, <1>5, GiveUp DEF RefuseClosed
<1>6. CASE Count(w)
    <2>1. /\ loc'[w] = [loc[w] EXCEPT !.pc = "act", !.ord = Rows]
          /\ \A v \in Workers \ {w} : loc'[v] = loc[v]
        BY <1>1, <1>6 DEF Count, Rows
    <2>2. /\ loc'[w].pc = "act" /\ loc'[w].kind = loc[w].kind /\ loc'[w].row = loc[w].row
          /\ loc'[w].base = loc[w].base /\ loc'[w].tail = loc[w].tail
          /\ loc'[w].ord = Rows /\ loc'[w].at = loc[w].at
        BY <1>1, <2>1 DEF Request
    <2>3. loc[w].pc = "count" /\ Reads(w) /\ ~(loc[w].kind = "round" /\ loc[w].row.closed)
        BY <1>1, <1>6 DEF Count, Phase
    <2>4. Reads(w)'
        BY <1>2, <2>2, <2>3 DEF Reads, SigBefore
    <2>5. Phase(w)'
        BY <2>2, <2>4 DEF Phase
    <2> QED BY <1>2, <2>1, <2>3, <2>5, QuietStep
<1> QED BY <1>3, <1>4, <1>5, <1>6

\* The Facilitator acts on what was loaded.
LEMMA ActSteps ==
    ASSUME Before, OneAtATime', NEW w \in Workers,
           \/ RefuseEngaged(w) \/ Interject(w) \/ Advance(w) \/ Close(w)
           \/ BeginRound(w) \/ EndRound(w) \/ FailRound(w)
    PROVE  SerialInv'
<1>1. /\ loc \in [Workers -> Request] /\ loc[w] \in Request /\ Phase(w)
      /\ Rows \in Nat /\ Sane(loc[w], Rows)
    BY CommittedTo DEF Before, TypeOK, RequestOK, SerialInv, Rows
<1>2. UNCHANGED stored /\ row' = row /\ turns' = turns /\ Rows' = Rows
    BY DEF RefuseEngaged, Interject, Advance, Close, BeginRound, EndRound, FailRound,
           stored, Rows
<1>3. loc[w].pc = "act" => loc[w].row = row /\ row # None /\ row \in Session
    BY <1>1 DEF Phase, Reads, Sane
<1>4. loc[w].pc = "act" =>
          /\ loc[w].at = 0 /\ loc[w].base = Rows /\ loc[w].ord = Rows
          /\ loc[w].tail = SigBefore(Rows) /\ loc[w].kind # "open"
          /\ loc[w].kind = "round" => ~row.closed
    BY <1>1 DEF Phase, Reads
<1>5. CASE RefuseEngaged(w)
    BY <1>2, <1>5, GiveUp DEF RefuseEngaged
<1>6. CASE FailRound(w)
    BY <1>2, <1>6, GiveUp DEF FailRound
<1>7. CASE Interject(w)
    <2>1. /\ loc[w].pc = "act" /\ loc[w].kind = "interject"
          /\ Speak(w, row, <<"chair">>, "interjection", "save_turns")
        BY <1>3, <1>7 DEF Interject
    <2>2. "interjection" \in Texts /\ <<"chair">> \in Seq(Speakers) /\ Len(<<"chair">>) > 0
        BY SpeakerTypes DEF Texts
    <2> QED BY <1>2, <1>3, <1>4, <2>1, <2>2, SpeakStep
<1>8. CASE Advance(w)
    <2>1. PICK st \in Stages :
              Speak(w, [row EXCEPT !.stage = st], <<"facilitator">>, "stage", "save_turns")
        BY <1>3, <1>8 DEF Advance
    <2>2. loc[w].pc = "act" /\ loc[w].kind = "advance"
        BY <1>8 DEF Advance
    <2> DEFINE s == [row EXCEPT !.stage = st]
    <2>3. s \in Session /\ s.closed = row.closed /\ s.round_no = row.round_no
        BY <1>3, <2>2 DEF Session
    <2>4. Speak(w, s, <<"facilitator">>, "stage", "save_turns")
        BY <2>1
    <2> HIDE DEF s
    <2>5. "stage" \in Texts /\ <<"facilitator">> \in Seq(Speakers) /\ Len(<<"facilitator">>) > 0
        BY SpeakerTypes DEF Texts
    <2> QED BY <1>2, <1>3, <1>4, <2>2, <2>3, <2>4, <2>5, SpeakStep
<1>9. CASE Close(w)
    <2> DEFINE s == [row EXCEPT !.closed = TRUE]
    <2>1. /\ loc[w].pc = "act" /\ loc[w].kind = "close"
          /\ Speak(w, s, <<"facilitator">>, "closing", "save_turns")
        BY <1>3, <1>9 DEF Close
    <2>2. s \in Session /\ s.closed /\ s.round_no = row.round_no
        BY <1>3, <2>1 DEF Session
    <2> HIDE DEF s
    <2> QED BY <1>2, <1>3, <1>4, <2>1, <2>2, SpeakStep, SpeakerTypes DEF Texts
<1>10. CASE BeginRound(w)
    <2>1. loc[w].pc = "act" /\ loc[w].kind = "round" /\ ~loc[w].row.closed
        BY <1>10 DEF BeginRound
    <2>2. /\ loc'[w] = [loc[w] EXCEPT !.pc = "listen", !.row.round_no = @ + 1]
          /\ \A v \in Workers \ {w} : loc'[v] = loc[v]
        BY <1>1, <1>10 DEF BeginRound
    <2>3. /\ loc'[w].pc = "listen" /\ loc'[w].kind = "round" /\ loc'[w].at = loc[w].at
          /\ loc'[w].base = loc[w].base /\ loc'[w].tail = loc[w].tail
          /\ loc'[w].ord = loc[w].ord /\ loc'[w].row.closed = loc[w].row.closed
        BY <1>1, <1>3, <2>1, <2>2 DEF Request, Session
    <2>4. Listens(w)'
        BY <1>2, <1>3, <1>4, <2>1, <2>3 DEF Listens, Changes, SigBefore
    <2>5. Phase(w)'
        BY <2>3, <2>4 DEF Phase
    <2> QED BY <1>2, <2>1, <2>2, <2>5, QuietStep
<1>11. CASE EndRound(w)
    <2>1. /\ loc[w].pc = "listen"
          /\ Speak(w, loc[w].row, Seating, "argument", "save_turns")
        BY <1>11 DEF EndRound
    <2>2. Listens(w) /\ loc[w].row \in Session
        BY <1>1, <2>1 DEF Phase, Sane
    <2>3. Len(Seating) > 0
        BY SeatingAssumption
    <2> QED BY <1>2, <2>1, <2>2, <2>3, SpeakStep, SpeakerTypes DEF Listens, Changes, Texts
<1> QED BY <1>5, <1>6, <1>7, <1>8, <1>9, <1>10, <1>11

-----------------------------------------------------------------------------
(* Saving.                                                                 *)

\* Where no record was added since it was loaded, the batch is all w signed.
LEMMA WholeBatch ==
    ASSUME NEW r \in Request, r.base = r.ord
    PROVE  Batch(r) = r.new
<1>1. r.new \in Seq(Turn) /\ r.ord \in Nat /\ r.ord - r.base + 1 = 1
    BY DEF Request
<1>2. SubSeq(r.new, 1, Len(r.new)) = r.new
    BY <1>1
<1> QED BY <1>1, <1>2 DEF Batch

\* A turn with the next ordinal and the next turn_id is really inserted.
LEMMA InsertNext ==
    ASSUME NEW n \in Nat, NEW table, NEW t, DOMAIN table = 0..(n - 1),
           \A p \in DOMAIN table : table[p].turn_id = p, t.turn_id = n
    PROVE  /\ DOMAIN Insert(table, n, t) = 0..n
           /\ Insert(table, n, t)[n] = t
           /\ \A p \in DOMAIN table : Insert(table, n, t)[p] = table[p]
<1>1. n \notin DOMAIN table /\ ~\E p \in DOMAIN table : table[p].turn_id = t.turn_id
    OBVIOUS
<1>2. Insert(table, n, t) = [p \in DOMAIN table \cup {n} |-> IF p = n THEN t ELSE table[p]]
    BY <1>1 DEF Insert
<1>3. DOMAIN table \cup {n} = 0..n
    OBVIOUS
<1> QED BY <1>1, <1>2, <1>3

\* While the committed turns stay, what they show is shown.
LEMMA StillShown ==
    ASSUME RowBehindRecord, FlagsTruthful, ShownIsStored,
           row' = row, flags' \subseteq flags, Committed \subseteq Committed',
           \A o \in Committed : turns'[o] = turns[o]
    PROVE  /\ RowBehindRecord' /\ FlagsTruthful'
           /\ \A s \in acked : \E o \in Committed' : turns'[o].sig = s
<1>1. RowBehindRecord'
    BY DEF RowBehindRecord
<1>2. FlagsTruthful'
    BY DEF FlagsTruthful
<1> QED BY <1>1, <1>2 DEF ShownIsStored

\* What the handler saves: the next of its turns, at the end of the record.
LEMMA SavesNext ==
    ASSUME Before, NEW w \in Workers, SaveTurn(w)
    PROVE  /\ DOMAIN turns' = 0..Rows /\ Rows' = Rows + 1
           /\ turns'[Rows] = loc[w].new[loc[w].at + 1]
           /\ \A p \in DOMAIN turns : turns'[p] = turns[p]
           /\ Batch(loc[w]) = loc[w].new
<1> DEFINE r == loc[w]
           t == r.new[r.at + 1]
<1>1. /\ r \in Request /\ Phase(w) /\ r.pc = "save_turns"
      /\ Rows \in Nat /\ DOMAIN turns = 0..(Rows - 1)
    BY CommittedTo DEF Before, TypeOK, SerialInv, SaveTurn
<1>2. /\ Signs(w) /\ r.at < Len(r.new) /\ Rows = r.ord + r.at
      /\ r.at \in Nat /\ r.ord \in Nat /\ r.new \in Seq(Turn)
    BY <1>1 DEF Phase, SavesTurns, Stored, Request
<1>3. Batch(r) = r.new
    BY <1>1, <1>2, WholeBatch DEF Signs
<1>4. r.at + 1 \in DOMAIN r.new
    BY <1>2
<1>5. t.turn_id = Rows
    BY <1>2, <1>4 DEF Signs
<1>6. turns' = Insert(turns, Rows, t)
    BY <1>2, <1>3 DEF SaveTurn
<1>7. \A p \in DOMAIN turns : turns[p].turn_id = p
    BY DEF Before, SerialInv, StoreOK, Linked
<1> HIDE DEF t
<1>8. /\ DOMAIN turns' = 0..Rows /\ turns'[Rows] = t
      /\ \A p \in DOMAIN turns : turns'[p] = turns[p]
    BY <1>1, <1>5, <1>6, <1>7, InsertNext
<1>9. Rows' = Rows + 1
    <2>1. Cardinality(0..((Rows + 1) - 1)) = Rows + 1
        BY <1>1, CountTo
    <2>2. 0..((Rows + 1) - 1) = 0..Rows
        BY <1>1
    <2> QED BY <1>8, <2>1, <2>2 DEF Rows
<1> QED BY <1>3, <1>8, <1>9 DEF t

\* The turns of a batch are all in the table when the last row is in it, and
\* until then the committed ones are those that were there before the batch.
LEMMA SavedSoFar ==
    ASSUME Before, NEW w \in Workers, SaveTurn(w)
    PROVE  LET r == loc[w]
               last == r.at + 1 = Len(r.new)
           IN  /\ \A i \in 1..(r.at + 1) : turns'[r.ord + i - 1] = r.new[i]
               /\ Rows' = r.ord + r.at + 1
               /\ Committed = 0..(r.ord - 1)
               /\ last => txn' = {} /\ Committed' = 0..(Rows' - 1) /\ Saved(w)
               /\ ~last => /\ txn' = r.ord..(Rows' - 1) /\ Committed' = Committed
                           /\ loc' = [loc EXCEPT ![w].at = @ + 1]
                           /\ acked' = acked
               /\ Linked'
<1> DEFINE r == loc[w]
           last == r.at + 1 = Len(r.new)
<1>1. /\ r \in Request /\ Phase(w) /\ r.pc = "save_turns"
      /\ Rows \in Nat /\ DOMAIN turns = 0..(Rows - 1)
    BY CommittedTo DEF Before, TypeOK, SerialInv, SaveTurn
<1>2. /\ Signs(w) /\ Stored(w, r.at) /\ r.at < Len(r.new) /\ Rows = r.ord + r.at
      /\ txn = r.ord..(Rows - 1)
      /\ r.at \in Nat /\ r.ord \in Nat /\ r.new \in Seq(Turn)
    BY <1>1 DEF Phase, SavesTurns, Stored, Request
<1>3. /\ DOMAIN turns' = 0..Rows /\ Rows' = Rows + 1 /\ turns'[Rows] = r.new[r.at + 1]
      /\ \A p \in DOMAIN turns : turns'[p] = turns[p]
      /\ Batch(r) = r.new
    BY SavesNext
<1>4. ASSUME NEW i \in 1..(r.at + 1) PROVE turns'[r.ord + i - 1] = r.new[i]
    <2>1. CASE i = r.at + 1
        <3>1. r.ord + i - 1 = Rows
            BY <1>2, <2>1
        <3> QED BY <1>3, <2>1, <3>1
    <2>2. CASE i # r.at + 1
        <3> HIDE DEF r, last
        <3>1. i \in 1..r.at
            <4>1. r.at \in Nat
                BY <1>2
            <4> QED BY <2>2, <4>1
        <3>2. r.ord + i - 1 \in DOMAIN turns
            <4>1. /\ Rows = r.ord + r.at /\ r.at \in Nat /\ r.ord \in Nat
                  /\ DOMAIN turns = 0..(Rows - 1)
                BY <1>1, <1>2
            <4> QED BY <3>1, <4>1
        <3> QED BY <1>2, <1>3, <3>1, <3>2 DEF Stored, r
    <2> QED BY <2>1, <2>2
<1>5. Committed = 0..(r.ord - 1)
    BY <1>1, <1>2 DEF Committed
<1>6. last => txn' = {} /\ Committed' = 0..(Rows' - 1) /\ Saved(w)
    <2>1. last => txn' = {} /\ Saved(w)
        BY <1>3 DEF SaveTurn, Commit
    <2>2. 0..Rows = 0..(Rows' - 1)
        BY <1>1, <1>3
    <2> QED BY <1>3, <2>1, <2>2 DEF Committed
<1>7. ~last => /\ txn' = r.ord..(Rows' - 1) /\ Committed' = Committed
               /\ loc' = [loc EXCEPT ![w].at = @ + 1] /\ acked' = acked
    <2> SUFFICES ASSUME ~last
                 PROVE  /\ txn' = r.ord..(Rows' - 1) /\ Committed' = Committed
                        /\ loc' = [loc EXCEPT ![w].at = @ + 1] /\ acked' = acked
        OBVIOUS
    <2>1. /\ txn' = txn \cup (DOMAIN turns' \ DOMAIN turns)
          /\ loc' = [loc EXCEPT ![w].at = @ + 1] /\ acked' = acked
        BY <1>3 DEF SaveTurn, Pending
    <2>2. DOMAIN turns' \ DOMAIN turns = {Rows}
        BY <1>1, <1>3
    <2>3. txn' = r.ord..(Rows' - 1)
        BY <1>1, <1>2, <1>3, <2>1, <2>2
    <2>4. Committed' = 0..(r.ord - 1)
        BY <1>1, <1>2, <1>3, <2>3 DEF Committed
    <2> QED BY <1>5, <2>1, <2>3, <2>4
<1>8. Linked'
    <2> SUFFICES ASSUME NEW o \in 0..Rows
                 PROVE  turns'[o].turn_id = o /\ turns'[o].prev_sig = SigBefore(o)'
        BY <1>3 DEF Linked
    <2>1. o > 0 => turns'[o - 1] = turns[o - 1]
        BY <1>1, <1>3
    <2>2. SigBefore(o)' = SigBefore(o)
        BY <2>1 DEF SigBefore
    <2>3. CASE o < Rows
        <3>1. o \in DOMAIN turns /\ turns'[o] = turns[o]
            BY <1>1, <1>3, <2>3
        <3> QED BY <2>2, <3>1 DEF Before, SerialInv, StoreOK, Linked
    <2>4. CASE o = Rows
        <3>1. PICK k \in DOMAIN r.new : k = r.at + 1 /\ turns'[o] = r.new[k]
            BY <1>2, <1>3, <2>4
        <3>2. turns'[o].turn_id = o
            BY <1>2, <2>4, <3>1 DEF Signs
        <3>3. turns'[o].prev_sig = IF r.at = 0 THEN SigBefore(r.ord) ELSE r.new[r.at].sig
            <4>1. turns'[o].prev_sig = IF k = 1 THEN SigBefore(r.ord) ELSE r.new[k - 1].sig
                BY <1>2, <3>1 DEF Signs
            <4>2. k - 1 = r.at /\ (k = 1 <=> r.at = 0)
                BY <1>2, <3>1
            <4> QED BY <4>1, <4>2
        <3>4. CASE r.at = 0
            BY <1>2, <2>2, <2>4, <3>2, <3>3, <3>4
        <3>5. CASE r.at > 0
            <4>1. r.at \in 1..r.at
                BY <1>2, <3>5
            <4>2. turns[r.ord + r.at - 1] = r.new[r.at]
                BY <1>2, <4>1 DEF Stored
            <4>3. SigBefore(o) = turns[r.ord + r.at - 1].sig
                BY <1>2, <2>4, <3>5 DEF SigBefore
            <4> QED BY <1>2, <2>2, <3>2, <3>3, <3>5, <4>2, <4>3
        <3> QED BY <1>2, <3>4, <3>5
    <2> QED BY <1>1, <2>3, <2>4
<1> QED BY <1>2, <1>3, <1>4, <1>5, <1>6, <1>7, <1>8

\* The batch of a round is the round, and nobody sits in two seats.
LEMMA RoundsStayWhole ==
    ASSUME Before, NEW w \in Workers, SaveTurn(w)
    PROVE  RoundsWhole'
<1> DEFINE r == loc[w]
           last == r.at + 1 = Len(r.new)
<1>1. /\ r \in Request /\ Phase(w) /\ r.pc = "save_turns" /\ RoundsWhole
      /\ Rows \in Nat /\ DOMAIN turns = 0..(Rows - 1)
    BY CommittedTo DEF Before, TypeOK, SerialInv, StoreOK, SaveTurn
<1>2. /\ Signs(w) /\ Rows = r.ord + r.at
      /\ r.at \in Nat /\ r.ord \in Nat /\ r.new \in Seq(Turn) /\ Len(r.new) \in Nat
    BY <1>1 DEF Phase, SavesTurns, Stored, Request
<1>3. \A p \in DOMAIN turns : turns'[p] = turns[p]
    BY SavesNext
<1>4. \A p \in Committed : p \in DOMAIN turns
    BY DEF Committed
<1>5. CASE ~last
    <2>1. Committed' = Committed
        BY <1>5, SavedSoFar
    <2> QED BY <1>1, <1>3, <1>4, <2>1 DEF RoundsWhole
<1>6. CASE last
    <2>1. /\ \A i \in 1..Len(r.new) : turns'[r.ord + i - 1] = r.new[i]
          /\ Committed = 0..(r.ord - 1) /\ Committed' = 0..(r.ord + Len(r.new) - 1)
        BY <1>2, <1>6, SavedSoFar
    <2> SUFFICES ASSUME NEW o \in Committed', NEW i \in DOMAIN Seating,
                        turns'[o].text = "argument", turns'[o].speaker = Seating[i],
                        NEW j \in DOMAIN Seating
                 PROVE  /\ o - i + j \in Committed'
                        /\ turns'[o - i + j].speaker = Seating[j]
                        /\ turns'[o - i + j].round_no = turns'[o].round_no
        BY DEF RoundsWhole
    <2>2. CASE o \in Committed
        <3>1. /\ o - i + j \in Committed /\ turns[o - i + j].speaker = Seating[j]
              /\ turns[o - i + j].round_no = turns[o].round_no
            BY <1>1, <1>3, <1>4, <2>2 DEF RoundsWhole
        <3>2. turns'[o - i + j] = turns[o - i + j] /\ turns'[o] = turns[o]
            BY <1>3, <1>4, <2>2, <3>1
        <3>3. o - i + j \in Committed'
            BY <1>2, <2>1, <3>1
        <3> QED BY <3>1, <3>2, <3>3
    <2>3. CASE o \notin Committed
        <3>1. PICK k \in DOMAIN r.new : o = r.ord + k - 1 /\ turns'[o] = r.new[k]
            <4> DEFINE k == o - r.ord + 1
            <4>1. k \in DOMAIN r.new /\ k \in 1..Len(r.new) /\ o = r.ord + k - 1
                <5>1. o \in Int /\ r.ord <= o /\ o < r.ord + Len(r.new)
                    BY <1>2, <2>1, <2>3
                <5>2. k \in 1..Len(r.new) /\ o = r.ord + k - 1
                    BY <1>2, <5>1
                <5> QED BY <1>2, <5>2
            <4> HIDE DEF k
            <4>2. turns'[r.ord + k - 1] = r.new[k]
                BY <2>1, <4>1
            <4> QED BY <4>1, <4>2
        <3>2. r.kind = "round" /\ Len(r.new) = Len(Seating)
            BY <1>2, <3>1 DEF Signs
        <3>3. DOMAIN r.new = 1..Len(Seating) /\ DOMAIN Seating = 1..Len(Seating)
              /\ Len(Seating) \in Nat
            BY <1>2, <3>2, SeatingAssumption
        <3>4. \A n \in DOMAIN r.new :
                  r.new[n].speaker = Seating[n] /\ r.new[n].round_no = r.row.round_no
            BY <1>2, <3>2 DEF Signs
        <3>5. k = i
            BY <3>1, <3>3, <3>4, SeatingAssumption
        <3>6. o - i + j = r.ord + j - 1
            BY <1>2, <3>1, <3>3, <3>5
        <3>7. r.ord + j - 1 \in Committed' /\ turns'[r.ord + j - 1] = r.new[j]
            <4>1. j \in 1..Len(r.new)
                BY <3>2, <3>3
            <4>2. r.ord + j - 1 \in 0..(r.ord + Len(r.new) - 1)
                BY <1>2, <4>1
            <4> QED BY <2>1, <4>1, <4>2
        <3> QED BY <3>1, <3>3, <3>4, <3>6, <3>7
    <2> QED BY <2>2, <2>3
<1> QED BY <1>5, <1>6

\* One row of a batch, or its last with the commit.
LEMMA SaveTurnStep ==
    ASSUME Before, OneAtATime', NEW w \in Workers, SaveTurn(w)
    PROVE  SerialInv'
<1> DEFINE r == loc[w]
           last == r.at + 1 = Len(r.new)
<1>1. /\ loc \in [Workers -> Request] /\ r \in Request /\ Phase(w) /\ r.pc = "save_turns"
      /\ Rows \in Nat /\ DOMAIN turns = 0..(Rows - 1) /\ row' = row /\ flags' = flags
    BY CommittedTo DEF Before, TypeOK, SerialInv, SaveTurn
<1>2. /\ Signs(w) /\ Changes(w) /\ r.at < Len(r.new) /\ Rows = r.ord + r.at
      /\ r.at \in Nat /\ r.ord \in Nat /\ r.new \in Seq(Turn) /\ Len(r.new) \in Nat
    BY <1>1 DEF Phase, SavesTurns, Stored, Request
<1>3. /\ DOMAIN turns' = 0..Rows /\ Rows' = Rows + 1
      /\ \A p \in DOMAIN turns : turns'[p] = turns[p]
    BY SavesNext
<1>4. /\ \A i \in 1..(r.at + 1) : turns'[r.ord + i - 1] = r.new[i]
      /\ Rows' = r.ord + r.at + 1 /\ Committed = 0..(r.ord - 1) /\ Linked'
    BY SavedSoFar
<1>5. last => /\ txn' = {} /\ Committed' = 0..(Rows' - 1) /\ Saved(w)
              /\ \A i \in DOMAIN r.new : /\ turns'[r.ord + i - 1] = r.new[i]
                                        /\ r.ord + i - 1 \in Committed'
    <2>1. last => txn' = {} /\ Committed' = 0..(Rows' - 1) /\ Saved(w)
        BY SavedSoFar
    <2>2. DOMAIN r.new = 1..Len(r.new)
        BY <1>2
    <2>3. last => \A i \in DOMAIN r.new : turns'[r.ord + i - 1] = r.new[i]
        BY <1>4, <2>2
    <2>4. ASSUME last, NEW i \in DOMAIN r.new PROVE r.ord + i - 1 \in 0..(Rows' - 1)
        <3>1. Rows' = r.ord + Len(r.new)
            <4>1. Rows' = r.ord + r.at + 1 /\ r.at + 1 = Len(r.new)
                BY <1>4, <2>4
            <4>2. r.ord \in Nat /\ r.at \in Nat
                BY <1>2
            <4> HIDE DEF r, last
            <4> QED BY <4>1, <4>2
        <3>2. i \in 1..Len(r.new) /\ r.ord \in Nat /\ Len(r.new) \in Nat
            BY <1>2, <2>2
        <3> HIDE DEF r, last
        <3> QED BY <3>1, <3>2
    <2> HIDE DEF r, last
    <2> QED BY <2>1, <2>3, <2>4
<1>6. ~last => /\ txn' = r.ord..(Rows' - 1) /\ Committed' = Committed
               /\ loc' = [loc EXCEPT ![w].at = @ + 1] /\ acked' = acked
    BY SavedSoFar
<1>7. Contiguous'
    <2>1. Rows \in Nat /\ Rows' = Rows + 1
        BY <1>1, <1>3
    <2>2. 0..Rows = 0..(Rows' - 1)
        BY <2>1
    <2>3. row' # None
        BY <1>1, <1>2 DEF Changes
    <2>4. DOMAIN turns' = 0..(Rows' - 1)
        BY <1>3, <2>2
    <2> QED BY <2>3, <2>4 DEF Contiguous
<1>8. /\ RowBehindRecord' /\ FlagsTruthful'
      /\ \A s \in acked : \E o \in Committed' : turns'[o].sig = s
    <2>1. Committed \subseteq Committed'
        BY <1>2, <1>4, <1>5, <1>6
    <2>2. \A o \in Committed : turns'[o] = turns[o]
        BY <1>3 DEF Committed
    <2> QED BY <1>1, <2>1, <2>2, StillShown DEF Before, SerialInv, StoreOK
<1>9. /\ \A v \in Workers \ {w} : loc'[v] = loc[v]
      /\ loc'[w].new = r.new \/ loc'[w] = Idle
    BY <1>1, <1>5, <1>6 DEF Saved, Finish, Request
<1>10. ShownIsStored'
    <2>1. CASE ~last
        BY <1>6, <1>8, <2>1 DEF ShownIsStored
    <2>2. CASE last
        <3>1. acked' = acked \/ acked' = acked \cup {r.new[i].sig : i \in DOMAIN r.new}
            BY <1>5, <2>2 DEF Saved
        <3>2. ASSUME NEW i \in DOMAIN r.new
              PROVE  \E o \in Committed' : turns'[o].sig = r.new[i].sig
            BY <1>5, <2>2, <3>2
        <3> QED BY <1>8, <3>1, <3>2 DEF ShownIsStored
    <2> QED BY <2>1, <2>2
<1>11. StoreOK'
    BY <1>4, <1>7, <1>8, <1>10, RoundsStayWhole DEF StoreOK
<1>12. CASE ~last
    <2>1. /\ loc'[w].pc = "save_turns" /\ loc'[w].kind = r.kind /\ loc'[w].row = r.row
          /\ loc'[w].base = r.base /\ loc'[w].tail = r.tail /\ loc'[w].ord = r.ord
          /\ loc'[w].new = r.new /\ loc'[w].at = r.at + 1
        BY <1>1, <1>6, <1>12 DEF Request
    <2>2. r.ord > 0 => turns'[r.ord - 1] = turns[r.ord - 1]
        <3> SUFFICES ASSUME r.ord > 0 PROVE turns'[r.ord - 1] = turns[r.ord - 1]
            OBVIOUS
        <3>1. /\ Rows \in Nat /\ Rows = r.ord + r.at /\ r.at \in Nat /\ r.ord \in Nat
              /\ DOMAIN turns = 0..(Rows - 1)
            BY <1>1, <1>2
        <3>2. r.ord - 1 \in DOMAIN turns
            BY <3>1
        <3> QED BY <1>3, <3>2
    <2>3. Signs(w)'
        BY <1>2, <2>1, <2>2 DEF Signs, SigBefore
    <2>4. Changes(w)'
        BY <1>1, <1>2, <2>1 DEF Changes
    <2>5. loc'[w].at < Len(loc'[w].new)
        BY <1>2, <1>12, <2>1
    <2>6. /\ Rows' = loc'[w].ord + loc'[w].at
          /\ \A i \in 1..loc'[w].at : turns'[loc'[w].ord + i - 1] = loc'[w].new[i]
        <3>1. Rows' = loc'[w].ord + loc'[w].at
            <4>1. r.ord \in Nat /\ r.at \in Nat /\ Rows' = r.ord + r.at + 1
                BY <1>2, <1>4
            <4> QED BY <2>1, <4>1
        <3>2. \A i \in 1..loc'[w].at : turns'[loc'[w].ord + i - 1] = loc'[w].new[i]
            BY <1>4, <2>1
        <3> QED BY <3>1, <3>2
    <2>7. SavesTurns(w)'
        BY <1>6, <1>12, <2>1, <2>3, <2>4, <2>5, <2>6 DEF SavesTurns, Stored
    <2>8. Phase(w)' /\ TxnOfBatch'
        BY <2>1, <2>7 DEF Phase, TxnOfBatch
    <2> QED BY <1>1, <1>9, <1>11, <2>8, OthersIdle DEF SerialInv, Before
<1>13. CASE last
    <2>1. TxnOfBatch'
        BY <1>5, <1>13 DEF TxnOfBatch
    <2>2. CASE r.kind \in {"round", "advance", "close"}
        <3>1. /\ loc'[w].pc = "save_session" /\ loc'[w].kind = r.kind /\ loc'[w].row = r.row
              /\ loc'[w].base = r.base /\ loc'[w].tail = r.tail /\ loc'[w].ord = r.ord
              /\ loc'[w].new = r.new /\ loc'[w].at = 0
            BY <1>1, <1>5, <1>13, <2>2 DEF Saved, Request
        <3>2. r.ord > 0 => turns'[r.ord - 1] = turns[r.ord - 1]
            BY <1>1, <1>2, <1>3
        <3>3. Signs(w)'
            BY <1>2, <3>1, <3>2 DEF Signs, SigBefore
        <3>4. Changes(w)'
            BY <1>1, <1>2, <3>1 DEF Changes
        <3>5. /\ Rows' = loc'[w].ord + Len(loc'[w].new)
              /\ \A i \in 1..Len(loc'[w].new) :
                    turns'[loc'[w].ord + i - 1] = loc'[w].new[i]
            <4>1. Rows' = r.ord + Len(r.new) /\ Len(r.new) = r.at + 1
                BY <1>2, <1>4, <1>13
            <4> QED BY <1>4, <3>1, <4>1
        <3>6. SavesSession(w)'
            BY <2>2, <3>1, <3>3, <3>4, <3>5 DEF SavesSession, Stored
        <3>7. Phase(w)'
            BY <2>2, <3>1, <3>6 DEF Phase
        <3> QED BY <1>1, <1>9, <1>11, <2>1, <3>7, OthersIdle DEF SerialInv, Before
    <2>3. CASE r.kind \notin {"round", "advance", "close"}
        <3>1. loc'[w] = Idle
            BY <1>1, <1>5, <1>13, <2>3 DEF Saved, Finish
        <3>2. Phase(w)'
            BY <3>1 DEF Phase, Idle
        <3> QED BY <1>1, <1>9, <1>11, <2>1, <3>2, OthersIdle DEF SerialInv, Before
    <2> QED BY <2>2, <2>3
<1> QED BY <1>12, <1>13

\* A slice is never empty: no turn was added between the load and the count.
LEMMA SomethingToSave ==
    ASSUME Before, NEW w \in Workers
    PROVE  ~SaveNothing(w)
<1> SUFFICES ASSUME SaveNothing(w) PROVE FALSE
    OBVIOUS
<1>1. loc[w] \in Request /\ Signs(w) /\ Batch(loc[w]) = <<>>
    BY DEF SaveNothing, Before, TypeOK, SerialInv, Phase, SavesTurns
<1>2. loc[w].new = <<>> /\ Len(loc[w].new) > 0
    BY <1>1, WholeBatch DEF Signs
<1> QED BY <1>2

\* A handler that has saved its turns finds each of them in the record.
LEMMA TurnsStored ==
    ASSUME Before, NEW w \in Workers,
           \/ loc[w].pc = "save_session" /\ loc[w].kind # "open"
           \/ loc[w].pc = "stream"
    PROVE  /\ Signs(w) /\ Stored(w, Len(loc[w].new))
           /\ txn = {} /\ Committed = DOMAIN turns
           /\ \A i \in DOMAIN loc[w].new :
                 /\ loc[w].ord + i - 1 \in Committed
                 /\ turns[loc[w].ord + i - 1] = loc[w].new[i]
<1> DEFINE r == loc[w]
<1>1. Signs(w) /\ Stored(w, Len(r.new))
    BY DEF Before, SerialInv, Phase, SavesSession, Streams
<1>2. txn = {} /\ Committed = DOMAIN turns
    BY TxnEmpty
<1>3. /\ Rows \in Nat /\ DOMAIN turns = 0..(Rows - 1)
      /\ r.ord \in Nat /\ r.new \in Seq(Turn)
    BY CommittedTo DEF Before, TypeOK, Request
<1>4. DOMAIN r.new = 1..Len(r.new) /\ Len(r.new) \in Nat
    BY <1>3
<1>5. Rows = r.ord + Len(r.new) /\ \A i \in 1..Len(r.new) : turns[r.ord + i - 1] = r.new[i]
    BY <1>1 DEF Stored
<1>6. \A i \in 1..Len(r.new) : r.ord + i - 1 \in 0..(Rows - 1)
    BY <1>3, <1>4, <1>5
<1> QED BY <1>1, <1>2, <1>3, <1>4, <1>5, <1>6

\* The record stays as it is, and more of it is shown or flagged.
LEMMA RecordKept ==
    ASSUME StoreOK, txn = {}, txn' = {}, turns' = turns,
           row = None \/ row' # None,
           RowBehindRecord', ShownIsStored', FlagsTruthful'
    PROVE  StoreOK' /\ TxnOfBatch'
<1>1. Rows' = Rows /\ Committed' = Committed
    BY DEF Rows, Committed
<1>2. Contiguous' /\ Linked'
    BY <1>1 DEF StoreOK, Contiguous, Linked, SigBefore
<1>3. RoundsWhole'
    BY <1>1 DEF StoreOK, RoundsWhole
<1> QED BY <1>2, <1>3 DEF StoreOK, TxnOfBatch

\* The row of a new session: it claims nothing yet.
LEMMA SaveNewSession ==
    ASSUME Before, OneAtATime', NEW w \in Workers, SaveSession(w), loc[w].kind = "open"
    PROVE  SerialInv'
<1> DEFINE r == loc[w]
<1>1. /\ loc \in [Workers -> Request] /\ r \in Request /\ StoreOK
      /\ Rows \in Nat /\ r.row \in Session
    BY CommittedTo DEF Before, TypeOK, SerialInv, SaveSession, RequestOK, Sane
<1>2. /\ r.pc = "save_session" /\ row' = r.row /\ txn' = {} /\ loc' = [loc EXCEPT ![w].pc = "save_turns"]
      /\ turns' = turns /\ flags' = flags /\ acked' = acked
    BY DEF SaveSession, Commit, Goto
<1>3. Opens(w) /\ Signs(w) /\ row = None /\ Rows = 0
    BY <1>1, <1>2 DEF Before, SerialInv, Phase, Opens, StoreOK, Contiguous
<1>4. txn = {} /\ Committed' = Committed /\ Rows' = Rows
    BY <1>2, TxnEmpty DEF Committed, Rows
<1>5. /\ loc'[w].pc = "save_turns" /\ loc'[w].kind = "open" /\ loc'[w].row = r.row
      /\ loc'[w].base = r.base /\ loc'[w].tail = r.tail /\ loc'[w].ord = r.ord
      /\ loc'[w].new = r.new /\ loc'[w].at = r.at
    BY <1>1, <1>2 DEF Request
<1>6. \A v \in Workers \ {w} : loc'[v] = loc[v]
    BY <1>1, <1>2
<1>7. RowBehindRecord' /\ ShownIsStored' /\ FlagsTruthful'
    <2>1. ShownIsStored' /\ FlagsTruthful'
        BY <1>1, <1>2, <1>4 DEF StoreOK, ShownIsStored, FlagsTruthful
    <2>2. RowBehindRecord'
        BY <1>1, <1>2, <1>3, <1>4 DEF StoreOK, Opens, RowBehindRecord
    <2> QED BY <2>1, <2>2
<1>8. row' # None
    BY <1>1, <1>2, NoneAssumption
<1>9. StoreOK' /\ TxnOfBatch'
    BY <1>1, <1>2, <1>3, <1>4, <1>7, RecordKept
<1>10. Signs(w)'
    <2>1. r.ord = 0 /\ r.kind = "open" /\ Signs(w)
        BY <1>3 DEF Opens
    <2> QED BY <1>5, <2>1 DEF Signs, SigBefore
<1>11. Changes(w)'
    BY <1>2, <1>5, <1>8 DEF Changes
<1>12. /\ loc'[w].at = 0 /\ loc'[w].ord = 0 /\ Rows' = 0
       /\ loc'[w].at < Len(loc'[w].new)
    BY <1>3, <1>4, <1>5 DEF Opens, Signs
<1>13. SavesTurns(w)'
    BY <1>2, <1>10, <1>11, <1>12 DEF SavesTurns, Stored
<1>14. Phase(w)'
    BY <1>5, <1>13 DEF Phase
<1> QED BY <1>2, <1>6, <1>9, <1>14, OthersIdle DEF SerialInv, Before

\* The row of a session that was advanced, closed or argued in.
LEMMA SaveOldSession ==
    ASSUME Before, OneAtATime', NEW w \in Workers, SaveSession(w), loc[w].kind # "open"
    PROVE  SerialInv'
<1> DEFINE r == loc[w]
<1>1. /\ loc \in [Workers -> Request] /\ r \in Request /\ StoreOK
      /\ r.row \in Session /\ r.pc = "save_session"
    BY DEF Before, TypeOK, SerialInv, SaveSession, RequestOK, Sane
<1>2. /\ row' = r.row /\ txn' = {} /\ turns' = turns /\ flags' = flags
      /\ row' # None
    BY <1>1, NoneAssumption DEF SaveSession, Commit
<1>3. /\ Changes(w) /\ Signs(w) /\ r.at = 0 /\ Stored(w, Len(r.new))
      /\ r.kind \in {"round", "advance", "close"}
    BY <1>1 DEF Before, SerialInv, Phase, SavesSession
<1>4. /\ txn = {} /\ Committed' = Committed /\ Rows' = Rows
      /\ \A i \in DOMAIN r.new : /\ r.ord + i - 1 \in Committed
                                 /\ turns[r.ord + i - 1] = r.new[i]
    BY <1>1, <1>2, TurnsStored DEF Committed, Rows
<1>5. 1 \in DOMAIN r.new
    BY <1>1, <1>3 DEF Request, Signs
<1>6. r.ord + 1 - 1 \in Committed /\ turns[r.ord + 1 - 1] = r.new[1]
    BY <1>4, <1>5
<1>7. RowBehindRecord'
    <2>1. r.row.closed => \E o \in Committed : turns[o].text = "closing"
        <3>1. CASE r.kind = "close"
            BY <1>3, <1>5, <1>6, <3>1 DEF Signs
        <3>2. CASE r.kind # "close"
            BY <1>1, <1>3, <3>2 DEF Changes, StoreOK, RowBehindRecord
        <3> QED BY <3>1, <3>2
    <2>2. r.row.round_no > 0 => \E o \in Committed :
              turns[o].text = "argument" /\ turns[o].round_no = r.row.round_no
        <3>1. CASE r.kind = "round"
            BY <1>3, <1>5, <1>6, <3>1 DEF Signs
        <3>2. CASE r.kind # "round"
            BY <1>1, <1>3, <3>2 DEF Changes, StoreOK, RowBehindRecord
        <3> QED BY <3>1, <3>2
    <2> QED BY <1>2, <1>4, <2>1, <2>2 DEF RowBehindRecord
<1>8. FlagsTruthful'
    BY <1>1, <1>2, <1>4 DEF StoreOK, FlagsTruthful
<1>9. ShownIsStored'
    <2>1. acked' = acked \/ acked' = acked \cup {r.new[i].sig : i \in DOMAIN r.new}
        BY DEF SaveSession
    <2> QED BY <1>1, <1>2, <1>4, <2>1 DEF StoreOK, ShownIsStored
<1>10. StoreOK' /\ TxnOfBatch'
    BY <1>1, <1>2, <1>4, <1>7, <1>8, <1>9, RecordKept
<1>11. /\ Phase(w)'
       /\ \A v \in Workers \ {w} : loc'[v] = loc[v]
    <2>1. CASE r.kind = "round"
        <3>1. loc' = [loc EXCEPT ![w].pc = "stream"]
            BY <2>1 DEF SaveSession, Goto
        <3>2. /\ loc'[w].pc = "stream" /\ loc'[w].kind = r.kind /\ loc'[w].row = r.row
              /\ loc'[w].base = r.base /\ loc'[w].tail = r.tail /\ loc'[w].ord = r.ord
              /\ loc'[w].new = r.new /\ loc'[w].at = r.at
              /\ \A v \in Workers \ {w} : loc'[v] = loc[v]
            BY <1>1, <3>1 DEF Request
        <3>3. Signs(w)' /\ loc'[w].at <= Len(loc'[w].new)
            BY <1>2, <1>3, <3>2 DEF Signs, SigBefore
        <3>4. Streams(w)'
            BY <1>2, <1>3, <1>4, <2>1, <3>2, <3>3 DEF Streams, Stored
        <3> QED BY <3>2, <3>4 DEF Phase
    <2>2. CASE r.kind # "round"
        <3>1. loc' = [loc EXCEPT ![w] = Idle]
            BY <2>2 DEF SaveSession, Finish
        <3>2. loc'[w] = Idle /\ \A v \in Workers \ {w} : loc'[v] = loc[v]
            BY <1>1, <3>1
        <3> QED BY <3>2 DEF Phase, Idle
    <2> QED BY <2>1, <2>2
<1> QED BY <1>1, <1>10, <1>11, OthersIdle DEF SerialInv, Before

\* A frame shows a turn that is stored.
LEMMA StreamStep ==
    ASSUME Before, OneAtATime', NEW w \in Workers, StreamTurn(w)
    PROVE  SerialInv'
<1> DEFINE r == loc[w]
<1>1. /\ loc \in [Workers -> Request] /\ r \in Request /\ StoreOK /\ r.pc = "stream"
      /\ r.at \in Nat /\ r.new \in Seq(Turn)
    BY DEF Before, TypeOK, SerialInv, StreamTurn, Request
<1>2. /\ row' = row /\ txn' = txn /\ turns' = turns /\ flags' = flags
      /\ acked' = acked \cup {r.new[r.at + 1].sig} /\ r.at < Len(r.new)
      /\ loc' = [loc EXCEPT ![w].at = @ + 1]
    BY DEF StreamTurn
<1>3. /\ Signs(w) /\ Stored(w, Len(r.new)) /\ txn = {}
      /\ \A i \in DOMAIN r.new : /\ r.ord + i - 1 \in Committed
                                 /\ turns[r.ord + i - 1] = r.new[i]
    BY <1>1, TurnsStored
<1>4. PICK k \in DOMAIN r.new : k = r.at + 1
    BY <1>1, <1>2
<1>5. Committed' = Committed /\ Rows' = Rows
    BY <1>2 DEF Committed, Rows
<1>6. ShownIsStored'
    <2>1. /\ r.ord + k - 1 \in Committed
          /\ turns[r.ord + k - 1].sig = r.new[k].sig
        BY <1>3, <1>4
    <2>2. \A s \in acked : \E o \in Committed : turns[o].sig = s
        BY <1>1 DEF StoreOK, ShownIsStored
    <2>3. acked' = acked \cup {r.new[k].sig} /\ turns' = turns
        BY <1>2, <1>4
    <2> HIDE DEF r
    <2> QED BY <1>5, <2>1, <2>2, <2>3 DEF ShownIsStored
<1>7. RowBehindRecord' /\ FlagsTruthful'
    BY <1>1, <1>2, <1>5 DEF StoreOK, RowBehindRecord, FlagsTruthful
<1>8. StoreOK' /\ TxnOfBatch'
    BY <1>1, <1>2, <1>3, <1>6, <1>7, RecordKept
<1>9. /\ loc'[w].pc = "stream" /\ loc'[w].kind = r.kind /\ loc'[w].row = r.row
      /\ loc'[w].base = r.base /\ loc'[w].tail = r.tail /\ loc'[w].ord = r.ord
      /\ loc'[w].new = r.new /\ loc'[w].at = r.at + 1
      /\ \A v \in Workers \ {w} : loc'[v] = loc[v]
    BY <1>1, <1>2 DEF Request
<1>10. Signs(w)' /\ loc'[w].at <= Len(loc'[w].new)
    BY <1>1, <1>2, <1>3, <1>9 DEF Signs, SigBefore
<1>11. r.kind = "round"
    BY <1>1 DEF Before, SerialInv, Phase, Streams
<1>12. Streams(w)'
    BY <1>2, <1>3, <1>5, <1>9, <1>10, <1>11 DEF Streams, Stored
<1>13. Phase(w)'
    BY <1>9, <1>12 DEF Phase
<1> QED BY <1>1, <1>8, <1>9, <1>13, OthersIdle DEF SerialInv, Before

\* No finding is about a turn that is missing, and all are filed.
LEMMA FlagStep ==
    ASSUME Before, OneAtATime', NEW w \in Workers, SaveFlags(w)
    PROVE  SerialInv'
<1> DEFINE r == loc[w]
<1>1. /\ loc \in [Workers -> Request] /\ StoreOK /\ r.pc = "stream"
    BY DEF Before, TypeOK, SerialInv, SaveFlags
<1>2. /\ row' = row /\ turns' = turns /\ acked' = acked /\ loc' = [loc EXCEPT ![w] = Idle]
    BY DEF SaveFlags, Finish
<1>3. /\ Signs(w) /\ txn = {}
      /\ \A i \in DOMAIN r.new : /\ r.ord + i - 1 \in Committed
                                 /\ turns[r.ord + i - 1] = r.new[i]
    BY <1>1, TurnsStored
<1>4. txn' = {} /\ flags' \subseteq flags \cup Findings(r)
    BY <1>3 DEF SaveFlags, Commit
<1>5. Committed' = Committed
    BY <1>2, <1>3, <1>4 DEF Committed
<1>6. \A f \in Findings(r) : \E o \in Committed :
          turns[o].turn_id = f /\ turns[o].speaker \in Tripping
    BY <1>3 DEF Findings
<1>7. FlagsTruthful'
    BY <1>1, <1>2, <1>4, <1>5, <1>6 DEF StoreOK, FlagsTruthful
<1>8. RowBehindRecord' /\ ShownIsStored'
    BY <1>1, <1>2, <1>5 DEF StoreOK, RowBehindRecord, ShownIsStored
<1>9. StoreOK' /\ TxnOfBatch'
    BY <1>1, <1>2, <1>3, <1>4, <1>7, <1>8, RecordKept
<1>10. loc'[w] = Idle /\ \A v \in Workers \ {w} : loc'[v] = loc[v]
    BY <1>1, <1>2
<1>11. Phase(w)'
    BY <1>10 DEF Phase, Idle
<1> QED BY <1>1, <1>9, <1>10, <1>11, OthersIdle DEF SerialInv, Before

\* A crash takes back the batch it cut short, and nothing else.
LEMMA CrashStep ==
    ASSUME Before, Crash
    PROVE  SerialInv' /\ Committed' = Committed
           /\ \A o \in Committed : turns'[o] = turns[o]
<1>1. /\ turns' = [o \in Committed |-> turns[o]] /\ txn' = {} /\ row' = row
      /\ flags' \subseteq flags /\ acked' = acked /\ loc' = [w \in Workers |-> Idle]
      /\ StoreOK
    BY DEF Crash, Commit, Committed, Before, SerialInv
<1>2. /\ Cardinality(Committed) \in 0..Rows
      /\ Committed = 0..(Cardinality(Committed) - 1)
      /\ Rows \in Nat /\ DOMAIN turns = 0..(Rows - 1)
    BY CommittedTo DEF Before
<1>3. Committed' = Committed /\ Rows' = Cardinality(Committed)
    BY <1>1 DEF Committed, Rows
<1>4. Contiguous'
    BY <1>1, <1>2, <1>3 DEF Contiguous, StoreOK
<1>5. Linked'
    <2> SUFFICES ASSUME NEW o \in Committed
                 PROVE  turns'[o].turn_id = o /\ turns'[o].prev_sig = SigBefore(o)'
        BY <1>1 DEF Linked
    <2>1. o \in DOMAIN turns /\ turns'[o] = turns[o]
        BY <1>1, <1>2
    <2>2. o # 0 => turns'[o - 1] = turns[o - 1]
        BY <1>1, <1>2
    <2>3. SigBefore(o)' = SigBefore(o)
        BY <2>2 DEF SigBefore
    <2> QED BY <1>1, <2>1, <2>3 DEF StoreOK, Linked
<1>6. \A o \in Committed : turns'[o] = turns[o]
    BY <1>1
<1>7. RoundsWhole'
    BY <1>1, <1>3, <1>6 DEF StoreOK, RoundsWhole
<1>8. RowBehindRecord' /\ FlagsTruthful' /\ ShownIsStored'
    BY <1>1, <1>3, <1>6, StillShown DEF StoreOK, ShownIsStored
<1>9. \A w \in Workers : Phase(w)'
    BY <1>1 DEF Phase, Idle
<1> QED BY <1>1, <1>3, <1>4, <1>5, <1>6, <1>7, <1>8, <1>9 DEF SerialInv, StoreOK, TxnOfBatch

-----------------------------------------------------------------------------
(* The invariant, and what follows from it.                                *)

\* Nothing is stored in a new database.
LEMMA SerialInit == Init => SerialInv
<1> SUFFICES ASSUME Init PROVE SerialInv
    OBVIOUS
<1>1. DOMAIN turns = {} /\ row = None /\ txn = {} /\ acked = {} /\ flags = {}
      /\ loc = [w \in Workers |-> Idle]
    BY DEF Init
<1>2. Rows = 0
    BY <1>1, FS_EmptySet DEF Rows
<1>3. Contiguous /\ Linked
    BY <1>1, <1>2 DEF Contiguous, Linked
<1>4. RowBehindRecord /\ ShownIsStored /\ RoundsWhole /\ FlagsTruthful
    BY <1>1 DEF RowBehindRecord, ShownIsStored, RoundsWhole, FlagsTruthful, Committed
<1>5. \A w \in Workers : Phase(w)
    BY <1>1 DEF Phase, Idle
<1> QED BY <1>1, <1>3, <1>4, <1>5 DEF SerialInv, StoreOK, TxnOfBatch

\* Every step that does not make two requests overlap keeps the invariant.
LEMMA SerialStep == Before /\ OneAtATime' /\ [Next]_vars => SerialInv'
<1> SUFFICES ASSUME Before, OneAtATime', [Next]_vars PROVE SerialInv'
    OBVIOUS
<1>1. ASSUME NEW w \in Workers, SaveSession(w) PROVE SerialInv'
    BY <1>1, SaveNewSession, SaveOldSession
<1>2. CASE ToggleKillSwitch \/ UNCHANGED vars
    <2>1. UNCHANGED stored /\ loc' = loc
        BY <1>2 DEF ToggleKillSwitch, vars, stored
    <2>2. StoreOK'
        BY <2>1, StoreKept DEF Before, SerialInv
    <2>3. TxnOfBatch'
        BY <2>1 DEF Before, SerialInv, TxnOfBatch, stored
    <2>4. ASSUME NEW w \in Workers PROVE Phase(w)'
        <3>1. Phase(w) /\ row' = row /\ turns' = turns /\ txn' = txn /\ Rows' = Rows
            BY <2>1 DEF Before, SerialInv, stored, Rows
        <3> QED BY <2>1, <3>1 DEF Phase, Reads, Listens, Opens, SavesTurns, SavesSession,
                   Streams, Signs, Changes, Stored, SigBefore
    <2> QED BY <2>2, <2>3, <2>4 DEF SerialInv
<1>3. CASE Crash
    BY <1>3, CrashStep
<1> QED BY <1>1, <1>2, <1>3, OpenStep, LoadSteps, ActSteps, SaveTurnStep, SomethingToSave,
           StreamStep, FlagStep DEF Next, Handle, Save

\* Where requests do not overlap, the invariant holds for ever.
LEMMA Serial ==
    Spec /\ []OneAtATime => [](TypeOK /\ RequestOK /\ SerialInv)
<1> USE DEF Before
<1> QED BY TypeInit, TypeStep, SerialInit, SerialStep, PTL DEF Spec

\* A single handler never overlaps with another.
LEMMA SingleHandler ==
    ASSUME \A v, w \in Workers : v = w
    PROVE  Spec => []OneAtATime
<1>1. OneAtATime
    BY DEF OneAtATime
<1> QED BY <1>1, PTL

\* The stored transcript passes Transcript.verify at every step.
THEOREM ChainStaysIntact == Spec /\ []OneAtATime => []ChainIntact
BY LinkedChain, Serial, PTL

\* What was shown to a client as recorded survives lost connections and crashes.
THEOREM ShownStaysStored == Spec /\ []OneAtATime => []ShownIsStored
<1>1. SerialInv => ShownIsStored
    BY DEF SerialInv, StoreOK
<1> QED BY <1>1, Serial, PTL

\* The session row never claims a round or a closing that the record lacks.
THEOREM RowStaysBehindRecord == Spec /\ []OneAtATime => []RowBehindRecord
<1>1. SerialInv => RowBehindRecord
    BY DEF SerialInv, StoreOK
<1> QED BY <1>1, Serial, PTL

\* A round is in the record whole and in seating order, or not at all.
THEOREM RoundsStoredWhole == Spec /\ []OneAtATime => []RoundsWhole
<1>1. SerialInv => RoundsWhole
    BY DEF SerialInv, StoreOK
<1> QED BY <1>1, Serial, PTL

\* The Auditor's findings lie beside turns of the record that earned them.
THEOREM FlagsStayTruthful == Spec /\ []OneAtATime => []FlagsTruthful
<1>1. SerialInv => FlagsTruthful
    BY DEF SerialInv, StoreOK
<1> QED BY <1>1, Serial, PTL

-----------------------------------------------------------------------------
(* Steps of the record, and what it refines.                               *)

\* What a step does to the record: nothing, the end of a batch, a new row of
\* table sessions, or the loss of a batch that was cut short.
LEMMA RecordSteps ==
    ASSUME Before, [Next]_vars
    PROVE  \/ row' = row /\ turns' = turns /\ Committed' = Committed
           \/ \E w \in Workers : SaveTurn(w) \/ SaveSession(w)
           \/ Crash
<1> DEFINE Quiet == row' = row /\ turns' = turns /\ Committed' = Committed
<1>1. ASSUME NEW w \in Workers, SaveFlags(w) PROVE Quiet
    <2>1. row' = row /\ turns' = turns /\ txn' \in {txn, {}}
        BY <1>1 DEF SaveFlags, Commit
    <2>2. txn = {}
        BY <1>1, TxnEmpty DEF SaveFlags
    <2> QED BY <2>1, <2>2 DEF Committed
<1>2. ASSUME row' = row, turns' = turns, txn' = txn PROVE Quiet
    BY <1>2 DEF Committed
<1>3. ASSUME NEW w \in Workers,
             \/ Open(w) \/ LoadRow(w) \/ LoadTurns(w) \/ RefuseClosed(w) \/ Count(w)
             \/ RefuseEngaged(w) \/ Interject(w) \/ Advance(w) \/ Close(w)
             \/ BeginRound(w) \/ EndRound(w) \/ FailRound(w) \/ StreamTurn(w)
      PROVE  Quiet
    BY <1>2, <1>3 DEF Open, LoadRow, LoadTurns, RefuseClosed, Count, RefuseEngaged,
       Interject, Advance, Close, BeginRound, EndRound, FailRound, StreamTurn
<1>4. ASSUME ToggleKillSwitch \/ UNCHANGED vars PROVE Quiet
    BY <1>2, <1>4 DEF ToggleKillSwitch, vars
<1> HIDE DEF Quiet
<1>5. ASSUME NEW w \in Workers, Open(w) \/ LoadRow(w) \/ Handle(w)
      PROVE  Quiet \/ SaveTurn(w) \/ SaveSession(w)
    BY <1>1, <1>3, <1>5, SomethingToSave DEF Handle, Save
<1>6. Quiet \/ (\E w \in Workers : SaveTurn(w) \/ SaveSession(w)) \/ Crash
    BY <1>4, <1>5 DEF Next
<1> QED BY <1>6 DEF Quiet

\* The end of a batch of w: its turns join the record, which grows by them.
LEMMA BatchStep ==
    ASSUME Before, NEW w \in Workers, SaveTurn(w)
    PROVE  /\ row' = row /\ row # None
           /\ \A o \in Committed : o \in Committed' /\ turns'[o] = turns[o]
           /\ \A o \in DOMAIN turns' \ DOMAIN turns :
                 turns'[o].text = "argument" => ~row.closed
           /\ \A o \in Committed' \ Committed :
                 turns'[o].text = "argument" => ~row.closed
           /\ \/ Committed' = Committed
              \/ Cardinality(Committed) < Cardinality(Committed')
<1> DEFINE r == loc[w]
           last == r.at + 1 = Len(r.new)
<1>1. /\ r \in Request /\ Phase(w) /\ r.pc = "save_turns" /\ row' = row
      /\ Rows \in Nat /\ DOMAIN turns = 0..(Rows - 1)
    BY CommittedTo DEF Before, TypeOK, SerialInv, SaveTurn
<1>2. /\ Signs(w) /\ Changes(w) /\ r.at < Len(r.new) /\ Rows = r.ord + r.at
      /\ r.at \in Nat /\ r.ord \in Nat /\ r.new \in Seq(Turn)
      /\ DOMAIN r.new = 1..Len(r.new) /\ Len(r.new) \in Nat
    BY <1>1 DEF Phase, SavesTurns, Stored, Request
<1>3. /\ DOMAIN turns' = 0..Rows /\ \A p \in DOMAIN turns : turns'[p] = turns[p]
    BY SavesNext
<1>4. /\ \A i \in 1..(r.at + 1) : turns'[r.ord + i - 1] = r.new[i]
      /\ Rows' = r.ord + r.at + 1 /\ Committed = 0..(r.ord - 1)
      /\ last => Committed' = 0..(Rows' - 1)
      /\ ~last => Committed' = Committed
    BY SavedSoFar
<1>5. ASSUME NEW o \in DOMAIN turns', o >= r.ord, turns'[o].text = "argument"
      PROVE  ~row.closed
    <2> DEFINE i == o - r.ord + 1
    <2>1. o \in Int /\ r.ord <= o /\ o <= r.ord + r.at
        BY <1>1, <1>2, <1>3, <1>5
    <2>2. i \in 1..(r.at + 1) /\ o = r.ord + i - 1 /\ i \in 1..Len(r.new)
        <3>0. r.at \in Nat /\ r.ord \in Nat
            BY <1>2
        <3>1. i \in 1..(r.at + 1) /\ o = r.ord + i - 1
            BY <2>1, <3>0
        <3>2. r.at + 1 <= Len(r.new)
            BY <1>2
        <3> HIDE DEF i
        <3> QED BY <1>2, <3>1, <3>2
    <2> HIDE DEF i
    <2>3. i \in DOMAIN r.new /\ turns'[o] = r.new[i]
        BY <1>2, <1>4, <2>2
    <2>4. r.kind = "round"
        BY <1>2, <1>5, <2>3 DEF Signs
    <2> QED BY <1>2, <2>4 DEF Changes
<1>6. \A o \in Committed : o \in Committed' /\ turns'[o] = turns[o]
    <2>1. \A o \in Committed : o \in Committed'
        BY <1>2, <1>4
    <2> QED BY <1>3, <2>1 DEF Committed
<1>7. \A o \in DOMAIN turns' \ DOMAIN turns : o >= r.ord
    BY <1>1, <1>2, <1>3
<1>8. \A o \in Committed' \ Committed : o \in DOMAIN turns' /\ o >= r.ord
    BY <1>2, <1>4 DEF Committed
<1>9. Committed' = Committed \/ Cardinality(Committed) < Cardinality(Committed')
    <2>1. Cardinality(Committed) = r.ord
        BY <1>2, <1>4, CountTo
    <2>2. last => Cardinality(Committed') = Rows'
        BY <1>2, <1>4, CountTo
    <2> QED BY <1>2, <1>4, <2>1, <2>2
<1> QED BY <1>1, <1>2, <1>5, <1>6, <1>7, <1>8, <1>9 DEF Changes

\* A session row that is written keeps a session closed, and closes it only
\* when the closing turn is in the record.
LEMMA RowStep ==
    ASSUME Before, NEW w \in Workers, SaveSession(w)
    PROVE  /\ turns' = turns /\ Committed' = Committed
           /\ row' # None
           /\ row # None /\ row.closed => row'.closed
           /\ row'.closed => \E o \in Committed : turns[o].text = "closing"
<1> DEFINE r == loc[w]
<1>1. /\ r \in Request /\ Phase(w) /\ r.pc = "save_session" /\ row' = r.row
      /\ r.row \in Session /\ turns' = turns /\ txn' = {}
    BY DEF Before, TypeOK, SerialInv, SaveSession, RequestOK, Sane, Commit
<1>2. row' # None
    BY <1>1, NoneAssumption
<1>3. Committed' = Committed
    BY <1>1, TxnEmpty DEF Committed
<1>4. row # None /\ row.closed => row'.closed
    BY <1>1 DEF Phase, Opens, SavesSession, Changes
<1>5. row'.closed => \E o \in Committed : turns[o].text = "closing"
    <2>1. CASE r.kind = "open"
        BY <1>1, <2>1 DEF Phase, Opens
    <2>2. CASE r.kind # "open"
        <3>1. Changes(w) /\ Signs(w)
            BY <1>1, <2>2 DEF Phase, SavesSession
        <3>2. 1 \in DOMAIN r.new
            BY <1>1, <3>1 DEF Request, Signs
        <3>3. r.ord + 1 - 1 \in Committed /\ turns[r.ord + 1 - 1] = r.new[1]
            BY <1>1, <2>2, <3>2, TurnsStored
        <3>4. CASE r.kind = "close"
            BY <3>1, <3>2, <3>3, <3>4 DEF Signs
        <3>5. CASE r.kind # "close"
            BY <1>1, <3>1, <3>5 DEF Changes, Before, SerialInv, StoreOK, RowBehindRecord
        <3> QED BY <3>4, <3>5
    <2> QED BY <2>1, <2>2
<1> QED BY <1>1, <1>2, <1>3, <1>4, <1>5

\* A closed session stays closed, and no seat argues in it any more
\* (facilitator.run_round refuses a closed session).
THEOREM ClosedStaysFinal == Spec /\ []OneAtATime => ClosedIsFinal
<1>1. Before /\ [Next]_vars =>
          [row # None /\ row.closed =>
              /\ row'.closed
              /\ \A o \in DOMAIN turns' \ DOMAIN turns : turns'[o].text # "argument"]_vars
    <2> SUFFICES ASSUME Before, [Next]_vars, row # None, row.closed
                 PROVE  /\ row'.closed
                        /\ \A o \in DOMAIN turns' \ DOMAIN turns : turns'[o].text # "argument"
        OBVIOUS
    <2>1. CASE row' = row /\ turns' = turns
        BY <2>1
    <2>2. ASSUME NEW w \in Workers, SaveTurn(w) \/ SaveSession(w)
          PROVE  /\ row'.closed
                 /\ \A o \in DOMAIN turns' \ DOMAIN turns : turns'[o].text # "argument"
        BY <2>2, BatchStep, RowStep
    <2>3. CASE Crash
        BY <2>3 DEF Crash
    <2> QED BY <2>1, <2>2, <2>3, RecordSteps
<1>2. Spec /\ []OneAtATime => []Before
    BY Serial, PTL DEF Before
<1> QED BY <1>1, <1>2, PTL DEF Spec, ClosedIsFinal

\* The committed rows, as a sequence.
BarOK ==
    /\ Len(RecordBar) = Cardinality(Committed)
    /\ DOMAIN RecordBar = 1..Cardinality(Committed)
    /\ Cardinality(Committed) \in Nat
    /\ \A i \in DOMAIN RecordBar :
          i - 1 \in Committed /\ RecordBar[i] = turns[i - 1]
    /\ \A o \in Committed : o + 1 \in DOMAIN RecordBar /\ RecordBar[o + 1] = turns[o]

\* The invariant makes a sequence of them.
LEMMA BarShape == TypeOK /\ SerialInv => BarOK
<1> SUFFICES ASSUME TypeOK, SerialInv PROVE BarOK
    OBVIOUS
<1> DEFINE c == Cardinality(Committed)
<1>1. c \in Nat /\ Committed = 0..(c - 1)
    BY CommittedTo
<1>2. RecordBar = [i \in 1..c |-> turns[i - 1]]
    BY DEF RecordBar
<1> HIDE DEF c
<1>3. DOMAIN RecordBar = 1..c /\ \A i \in 1..c : RecordBar[i] = turns[i - 1]
    BY <1>2
<1>4. Len(RecordBar) = c
    <2>1. \A i \in 1..c : turns[i - 1] \in Turn
        BY <1>1 DEF TypeOK, Committed
    <2>2. RecordBar \in [1..c -> Turn]
        BY <1>2, <2>1
    <2>3. RecordBar \in Seq(Turn)
        BY <1>1, <2>2
    <2> QED BY <1>1, <1>3, <2>3
<1>5. \A i \in 1..c : i - 1 \in Committed
    BY <1>1
<1>6. \A o \in Committed : o + 1 \in 1..c /\ RecordBar[o + 1] = turns[o]
    <2> TAKE o \in Committed
    <2>1. PICK i \in 1..c : i = o + 1 /\ i - 1 = o
        BY <1>1
    <2>2. RecordBar[i] = turns[i - 1]
        BY <1>3
    <2> QED BY <2>1, <2>2
<1> QED BY <1>1, <1>3, <1>4, <1>5, <1>6 DEF c, BarOK

\* Nothing that was shown is taken back.
LEMMA ShownGrows == [Next]_vars => acked \subseteq acked'
<1> SUFFICES ASSUME [Next]_vars PROVE acked \subseteq acked'
    OBVIOUS
<1>1. ASSUME NEW w \in Workers, SaveTurn(w) \/ SaveNothing(w) \/ SaveSession(w)
      PROVE  acked \subseteq acked'
    BY <1>1 DEF SaveTurn, SaveNothing, SaveSession, Saved
<1>2. ASSUME NEW w \in Workers, Open(w) \/ LoadRow(w) \/ Handle(w)
      PROVE  acked \subseteq acked'
    BY <1>1, <1>2 DEF Open, LoadRow, Handle, Save, LoadTurns, RefuseClosed, Count,
       RefuseEngaged, Interject, Advance, Close, BeginRound, EndRound, FailRound,
       StreamTurn, SaveFlags
<1> QED BY <1>2 DEF Next, ToggleKillSwitch, Crash, vars

\* An empty database is an empty record.
LEMMA RecordInit == Init => Record!Init
<1> SUFFICES ASSUME Init PROVE Record!Init
    OBVIOUS
<1>1. Committed = {} /\ row = None /\ acked = {}
    BY DEF Init, Committed
<1>2. Cardinality(Committed) = 0
    BY <1>1, FS_EmptySet
<1>3. RecordBar = <<>>
    BY <1>2 DEF RecordBar
<1> QED BY <1>1, <1>3 DEF Record!Init, ClosedBar

\* Every step adds a batch, closes the session, or leaves the record alone.
LEMMA RecordStep ==
    Before /\ BarOK /\ BarOK' /\ SerialInv' /\ [Next]_vars =>
        [Record!Next]_(Record!vars)
<1> SUFFICES ASSUME Before, BarOK, BarOK', SerialInv', [Next]_vars
             PROVE  Record!Next
    OBVIOUS
<1>1. Record!Show
    <2>1. \A s \in acked' : \E o \in Committed' : turns'[o].sig = s
        BY DEF SerialInv, StoreOK, ShownIsStored
    <2>2. \A o \in Committed' : turns'[o].sig \in Record!Sigs(RecordBar')
        BY DEF BarOK, Record!Sigs
    <2> QED BY <2>1, <2>2, ShownGrows DEF Record!Show
<1>2. ASSUME turns' = turns, Committed' = Committed PROVE RecordBar' = RecordBar
    BY <1>2 DEF RecordBar
<1>3. CASE row' = row /\ turns' = turns /\ Committed' = Committed
    <2>1. RecordBar' = RecordBar /\ ClosedBar' = ClosedBar
        BY <1>2, <1>3 DEF ClosedBar
    <2> QED BY <1>1, <2>1 DEF Record!Next
<1>4. CASE Crash
    <2>1. Committed' = Committed /\ \A o \in Committed : turns'[o] = turns[o]
        BY <1>4, CrashStep
    <2>2. RecordBar' = RecordBar
        BY <2>1 DEF BarOK, RecordBar
    <2>3. ClosedBar' = ClosedBar
        BY <1>4 DEF Crash, ClosedBar
    <2> QED BY <1>1, <2>2, <2>3 DEF Record!Next
<1>5. ASSUME NEW w \in Workers, SaveSession(w) PROVE Record!Next
    <2>1. /\ turns' = turns /\ Committed' = Committed /\ row' # None
          /\ row # None /\ row.closed => row'.closed
          /\ row'.closed => \E o \in Committed : turns[o].text = "closing"
        BY <1>5, RowStep
    <2>2. RecordBar' = RecordBar
        BY <1>2, <2>1
    <2>3. CASE ClosedBar' = ClosedBar
        BY <1>1, <2>2, <2>3 DEF Record!Next
    <2>4. CASE ClosedBar' # ClosedBar
        <3>1. ClosedBar' = TRUE /\ row'.closed
            BY <2>1, <2>4 DEF ClosedBar
        <3>2. \E i \in DOMAIN RecordBar : RecordBar[i].text = "closing"
            BY <2>1, <3>1 DEF BarOK
        <3> QED BY <1>1, <2>2, <3>1, <3>2 DEF Record!Next, Record!Close
    <2> QED BY <2>3, <2>4
<1>6. ASSUME NEW w \in Workers, SaveTurn(w) PROVE Record!Next
    <2>1. /\ row' = row
          /\ \A o \in Committed : o \in Committed' /\ turns'[o] = turns[o]
          /\ \A o \in Committed' \ Committed :
                turns'[o].text = "argument" => ~row.closed
          /\ \/ Committed' = Committed
             \/ Cardinality(Committed) < Cardinality(Committed')
        BY <1>6, BatchStep
    <2>2. ClosedBar' = ClosedBar
        BY <2>1 DEF ClosedBar
    <2>3. CASE Committed' = Committed
        <3>1. RecordBar' = RecordBar
            BY <2>1, <2>3 DEF BarOK, RecordBar
        <3> QED BY <1>1, <2>2, <3>1 DEF Record!Next
    <2>4. CASE Cardinality(Committed) < Cardinality(Committed')
        <3>1. Record!Extends
            BY <2>1, <2>4 DEF BarOK, Record!Extends
        <3>2. Record!Chained(RecordBar')
            <4> SUFFICES ASSUME NEW i \in DOMAIN RecordBar'
                         PROVE  /\ RecordBar'[i].turn_id = i - 1
                                /\ RecordBar'[i].prev_sig =
                                      IF i = 1 THEN 0 ELSE RecordBar'[i - 1].sig
                BY DEF Record!Chained
            <4>1. i \in Nat /\ i > 0 /\ (i # 1 => i - 1 \in DOMAIN RecordBar')
                BY DEF BarOK
            <4>2. i - 1 \in DOMAIN turns' /\ RecordBar'[i] = turns'[i - 1]
                BY DEF BarOK, Committed
            <4>3. i # 1 => RecordBar'[i - 1] = turns'[i - 1 - 1]
                BY <4>1 DEF BarOK
            <4>4. /\ turns'[i - 1].turn_id = i - 1
                  /\ turns'[i - 1].prev_sig = IF i - 1 = 0 THEN GENESIS ELSE turns'[i - 1 - 1].sig
                BY <4>2 DEF SerialInv, StoreOK, Linked, SigBefore
            <4> QED BY <4>1, <4>2, <4>3, <4>4 DEF GENESIS
        <3>3. ASSUME ClosedBar, NEW i \in DOMAIN RecordBar' \ DOMAIN RecordBar
              PROVE  RecordBar'[i].text # "argument"
            <4>1. i - 1 \in Committed' \ Committed /\ RecordBar'[i] = turns'[i - 1]
                <5>1. i - 1 \in Committed' /\ i \in Int
                    BY <3>3 DEF BarOK
                <5>2. i - 1 \in Committed => i - 1 + 1 \in DOMAIN RecordBar
                    BY DEF BarOK
                <5> QED BY <3>3, <5>1, <5>2 DEF BarOK
            <4> QED BY <2>1, <3>3, <4>1 DEF ClosedBar
        <3> QED BY <1>1, <2>2, <3>1, <3>2, <3>3 DEF Record!Next, Record!Add
    <2> QED BY <2>1, <2>3, <2>4
<1> QED BY <1>3, <1>4, <1>5, <1>6, RecordSteps

\* The handlers, the Facilitator and the store implement the signed record:
\* chained, append-only, shown only once it is stored, and final once closed.
THEOREM StoreKeepsRecord == Spec /\ []OneAtATime => KeepsRecord
<1>1. Spec /\ []OneAtATime => [](Before /\ BarOK)
    BY BarShape, Serial, PTL DEF Before
<1> QED BY <1>1, RecordInit, RecordStep, PTL DEF Spec, KeepsRecord, Record!Spec, Before

=============================================================================
