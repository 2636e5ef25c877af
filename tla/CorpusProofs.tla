---------------------------- MODULE CorpusProofs ----------------------------
(***************************************************************************)
(* For any number of requests, documents, chunks and backends: a crash     *)
(* leaves no document without its text, no two requests insert the same    *)
(* document, each vector is found under the space that made it, and what a *)
(* search answers comes from what it read.                                 *)
(***************************************************************************)
EXTENDS Corpus, FiniteSetTheorems, TLAPS

Writing == {"insert", "text", "table", "vectors"}

\* A request that writes holds the lock.
WriterHolds == \A w \in Ingesters : job[w].pc \in Writing => lock = w

Held == TypeOK /\ WriterHolds

-----------------------------------------------------------------------------
(* Types.                                                                  *)

LEMMA InitHeld == Init => Held
<1> SUFFICES ASSUME Init PROVE Held
  OBVIOUS
<1>1. EmptyTables \in Tables
  BY DEF EmptyTables, Tables, Located
<1>2. Idle \in Jobs /\ Idle.pc = "idle"
  BY DEF Idle, Jobs
<1> QED
  BY <1>1, <1>2 DEF Init, Held, TypeOK, WriterHolds, Writing

\* Whatever an embedder does, a request ends an ingestion with the tables typed.
LEMMA CommitTypes ==
    ASSUME TypeOK, NEW w \in Ingesters, NEW tables \in Tables, Commit(w, tables),
           UNCHANGED <<keyed, cached, search, torn>>
    PROVE  TypeOK'
BY DEF TypeOK, Commit, Idle, Jobs

\* The rows that one vector adds.
LEMMA VectorTypes ==
    ASSUME TypeOK, NEW w \in Ingesters, WriteVector(w)
    PROVE  TypeOK'
<1> DEFINE j == job[w]
           c == <<j.doc, j.next>>
           n == Dim[j.by]
<1>1. /\ j.doc \in Docs /\ j.next \in Nat \ {0} /\ j.by \in Embedders
      /\ j.next <= NChunks[j.doc]
  BY DEF TypeOK, WriteVector, Jobs
<1>2. c \in AllChunks
  BY <1>1, NChunksAssumption DEF AllChunks, Chunks
<1>3. n \in Widths /\ db.vectors[n] \in Seq(Located)
  BY <1>1 DEF Widths, TypeOK, Tables
<1>4. Append(db.vectors[n], [chunk |-> c, space |-> j.by]) \in Seq(Located)
  BY <1>1, <1>2, <1>3 DEF Located
<1>5. Len(db.vectors[n]) + 1 \in Nat
  BY <1>3
<1> DEFINE entry == [chunk |-> c, space |-> j.by, rowid |-> Len(db.vectors[n]) + 1]
           more == [db.vectors EXCEPT ![n] = Append(@, [chunk |-> c, space |-> j.by])]
<1>6. entry \in IndexRows /\ more \in [Widths -> Seq(Located)]
  BY <1>1, <1>2, <1>3, <1>4, <1>5 DEF IndexRows, TypeOK, Tables
<1>9. db' = [db EXCEPT !.vectors = more, !.index = @ \cup {entry}]
  BY <1>3 DEF WriteVector, TypeOK, Tables
<1>10. db' \in Tables
  <2> HIDE DEF entry, more
  <2> QED
    BY <1>6, <1>9 DEF TypeOK, Tables
<1>7. job' \in [Ingesters -> Jobs]
  BY <1>1 DEF WriteVector, TypeOK, Jobs
<1>8. \A v \in Ingesters : job'[v].pc \in {"table", "vectors"} => job'[v].by # None
  BY <1>1 DEF WriteVector, TypeOK, Jobs
<1> QED
  BY <1>7, <1>8, <1>10 DEF WriteVector, TypeOK

\* The steps of a search.
Searching == ReadChunks \/ ReadKeys \/ ReadRows \/ QueryFails \/ Answer \/ Told

LEMMA TypeStep == TypeOK /\ [Next]_vars => TypeOK'
<1> SUFFICES ASSUME TypeOK, [Next]_vars PROVE TypeOK'
  OBVIOUS
<1>a. \A found \in Embedders \cup {None} : Given(found) \subseteq Embedders \cup {None}
  BY DEF Given
<1>b. ASSUME NEW w \in Ingesters, NEW e \in Embedders \cup {None},
             job' = [job EXCEPT ![w] = [pc |-> "look", by |-> e]],
             cached' \in Embedders \cup {None, Unset},
             UNCHANGED <<db, disk, lock, keyed, search, torn>>
      PROVE  TypeOK'
  <2>1. [pc |-> "look", by |-> e] \in Jobs
    BY DEF Jobs
  <2> QED
    BY <1>b, <2>1 DEF TypeOK
<1>1. ASSUME NEW w \in Ingesters, Request(w) PROVE TypeOK'
  <2>1. CASE cached = Unset /\ job' = [job EXCEPT ![w] = [pc |-> "resolving"]]
    <3>1. [pc |-> "resolving"] \in Jobs
      BY DEF Jobs
    <3> QED
      BY <1>1, <2>1, <3>1 DEF Request, TypeOK
  <2>2. ASSUME cached # Unset, NEW e \in Given(cached),
               job' = [job EXCEPT ![w] = [pc |-> "look", by |-> e]]
        PROVE  TypeOK'
    BY <1>1, <1>a, <1>b, <2>2 DEF Request, TypeOK
  <2> QED
    BY <1>1, <2>1, <2>2 DEF Request
<1>c. ASSUME NEW w \in Ingesters, Resolve(w) PROVE TypeOK'
  <2>0. PICK found \in Embedders \cup {None} :
            /\ cached' = IF cached = Unset THEN found ELSE cached
            /\ \E e \in Given(found) : job' = [job EXCEPT ![w] = [pc |-> "look", by |-> e]]
    BY <1>c DEF Resolve
  <2>1. PICK e \in Given(found) : job' = [job EXCEPT ![w] = [pc |-> "look", by |-> e]]
    BY <2>0
  <2>2. cached' \in Embedders \cup {None, Unset}
    BY <2>0 DEF TypeOK
  <2> QED
    BY <1>a, <1>b, <1>c, <2>1, <2>2 DEF Resolve
<1>d. ASSUME NEW w \in Ingesters, Look(w) PROVE TypeOK'
  BY <1>d DEF Look, Idle, TypeOK, Jobs
<1>2. ASSUME NEW w \in Ingesters, TakeLock(w) PROVE TypeOK'
  BY <1>2 DEF TakeLock, Idle, TypeOK, Jobs
<1>3. ASSUME NEW w \in Ingesters, InsertDocument(w) PROVE TypeOK'
  <2>1. /\ job[w].doc \in Docs
        /\ [job[w] EXCEPT !.pc = "text"] \in Jobs /\ Idle \in Jobs
    BY <1>3 DEF InsertDocument, TypeOK, Jobs, Idle
  <2>2. db' \in Tables
    <3>1. db \in Tables /\ db' \in {db, [db EXCEPT !.documents = @ \cup {job[w].doc}]}
      BY <1>3 DEF InsertDocument, Idle, TypeOK
    <3>2. [db EXCEPT !.documents = @ \cup {job[w].doc}] \in Tables
      BY <2>1, <3>1 DEF Tables
    <3> QED
      BY <3>1, <3>2
  <2>3. job' \in [Ingesters -> Jobs]
    BY <1>3, <2>1 DEF InsertDocument, Idle, TypeOK
  <2>4. \A v \in Ingesters : job'[v].pc \in {"table", "vectors"} => job'[v].by # None
    BY <1>3, <2>1 DEF InsertDocument, Idle, TypeOK, Jobs
  <2> QED
    BY <1>3, <2>2, <2>3, <2>4 DEF InsertDocument, Idle, TypeOK
<1>4. ASSUME NEW w \in Ingesters, WriteText(w) PROVE TypeOK'
  <2> DEFINE with == [db EXCEPT !.chunks = @ \cup Chunks(job[w].doc)]
  <2>0. job[w].doc \in Docs /\ Chunks(job[w].doc) \subseteq AllChunks
    BY <1>4 DEF WriteText, TypeOK, Jobs, AllChunks
  <2>1. with \in Tables
    BY <2>0 DEF TypeOK, Tables
  <2>2. CASE Commit(w, with)
    BY <1>4, <2>1, <2>2, CommitTypes DEF WriteText
  <2>3. CASE ~Commit(w, with)
    <3> HIDE DEF with
    <3>1. /\ job[w].pc = "text" /\ job[w].by # None /\ db' = with
          /\ job' = [job EXCEPT ![w].pc = "table"]
          /\ UNCHANGED <<disk, lock, keyed, cached, search, torn>>
      BY <1>4, <2>3 DEF WriteText, with
    <3> QED
      BY <2>1, <3>1 DEF TypeOK, Jobs
  <2> QED
    BY <2>2, <2>3
<1>5. ASSUME NEW w \in Ingesters, EnsureTable(w) PROVE TypeOK'
  BY <1>5 DEF EnsureTable, TypeOK, Jobs
<1>6. ASSUME NEW w \in Ingesters, WriteVector(w) PROVE TypeOK'
  BY <1>6, VectorTypes
<1>7. ASSUME NEW w \in Ingesters, Finish(w) PROVE TypeOK'
  BY <1>7, CommitTypes DEF Finish, TypeOK
<1>8. ASSUME NEW w \in Ingesters, WriteFails(w) PROVE TypeOK'
  <2>1. /\ Idle \in Jobs /\ Idle.pc = "idle"
        /\ torn' \subseteq Docs
    BY <1>8 DEF Jobs, Idle, WriteFails, TypeOK
  <2>2. db' \in Tables
    <3>1. CASE UNCHANGED db
      BY <3>1 DEF TypeOK
    <3>2. ASSUME job[w].pc = "text", NEW m \in 1..(NChunks[job[w].doc] - 1),
                 db' = [db EXCEPT !.chunks = @ \cup ({job[w].doc} \X (1..m))]
          PROVE  db' \in Tables
      <4>1. job[w].doc \in Docs /\ NChunks[job[w].doc] \in Nat
        BY <3>2, NChunksAssumption DEF TypeOK, Jobs
      <4>2. ({job[w].doc} \X (1..m)) \subseteq AllChunks
        BY <4>1 DEF AllChunks, Chunks
      <4> QED
        BY <3>2, <4>2 DEF TypeOK, Tables
    <3> QED
      BY <1>8, <3>1, <3>2 DEF WriteFails, Idle
  <2> QED
    BY <1>8, <2>1, <2>2 DEF WriteFails, Idle, TypeOK
<1>10. CASE CommitElsewhere \/ MakeKey \/ ResolveElsewhere
  <2>1. MakeKey => torn' \subseteq Docs
    BY DEF MakeKey, TypeOK, Jobs
  <2> QED
    BY <1>10, <2>1 DEF CommitElsewhere, MakeKey, ResolveElsewhere, TypeOK
<1>11. CASE Restart
  BY <1>11 DEF Restart, TypeOK, Jobs, Idle
<1>12. CASE Searching \/ UNCHANGED vars
  BY <1>12 DEF Searching, ReadChunks, ReadKeys, ReadRows, QueryFails, Answer, Told, vars, TypeOK
<1> QED
  BY <1>1, <1>c, <1>d, <1>2, <1>3, <1>4, <1>5, <1>6, <1>7, <1>8, <1>10, <1>11, <1>12
     DEF Next, Ingest, Searching

-----------------------------------------------------------------------------
(* Who writes.                                                             *)

\* The steps of a request that take or give back no lock and begin or end no write.
LEMMA HeldStep == Held /\ [Next]_vars => Held'
<1> SUFFICES ASSUME Held, [Next]_vars PROVE WriterHolds'
  BY TypeStep DEF Held
<1> USE DEF Held
<1>1. ASSUME NEW w \in Ingesters, Request(w) \/ Resolve(w) \/ Look(w) PROVE WriterHolds'
  <2>1. /\ job'[w].pc \in {"idle", "resolving", "look", "ready"} /\ UNCHANGED lock
        /\ \A v \in Ingesters \ {w} : job'[v] = job[v]
    BY <1>1 DEF Request, Resolve, Look, Idle, TypeOK
  <2> QED
    BY <2>1 DEF WriterHolds, Writing
<1>2. ASSUME NEW w \in Ingesters, TakeLock(w) PROVE WriterHolds'
  BY <1>2, NoneAssumption DEF TakeLock, Idle, TypeOK, Jobs, WriterHolds, Writing
<1>3. ASSUME NEW w \in Ingesters, InsertDocument(w) PROVE WriterHolds'
  BY <1>3 DEF InsertDocument, Idle, WriterHolds, Writing, TypeOK, Jobs
<1>4. ASSUME NEW w \in Ingesters, WriteText(w) PROVE WriterHolds'
  BY <1>4 DEF WriteText, Commit, Idle, WriterHolds, Writing, TypeOK, Jobs
<1>5. ASSUME NEW w \in Ingesters, EnsureTable(w) PROVE WriterHolds'
  BY <1>5 DEF EnsureTable, WriterHolds, Writing, TypeOK, Jobs
<1>6. ASSUME NEW w \in Ingesters, WriteVector(w) PROVE WriterHolds'
  BY <1>6 DEF WriteVector, WriterHolds, Writing, TypeOK, Jobs
<1>7. ASSUME NEW w \in Ingesters, Finish(w) PROVE WriterHolds'
  BY <1>7 DEF Finish, Commit, Idle, WriterHolds, Writing, TypeOK, Jobs
<1>8. ASSUME NEW w \in Ingesters, WriteFails(w) PROVE WriterHolds'
  BY <1>8 DEF WriteFails, Idle, WriterHolds, Writing, TypeOK, Jobs
<1>10. CASE CommitElsewhere \/ MakeKey \/ ResolveElsewhere
  BY <1>10 DEF CommitElsewhere, MakeKey, ResolveElsewhere, WriterHolds
<1>11. CASE Restart
  BY <1>11 DEF Restart, Idle, WriterHolds, Writing
<1>12. CASE Searching \/ UNCHANGED vars
  BY <1>12 DEF Searching, ReadChunks, ReadKeys, ReadRows, QueryFails, Answer, Told, vars,
     WriterHolds
<1> QED
  BY <1>1, <1>2, <1>3, <1>4, <1>5, <1>6, <1>7, <1>8, <1>10, <1>11, <1>12
     DEF Next, Ingest, Searching

LEMMA HeldAlways == Spec => []Held
BY InitHeld, HeldStep, PTL DEF Spec

\* What the steps before the write do.
LEMMA Preparing ==
    ASSUME TypeOK, NEW w \in Ingesters, Request(w) \/ Resolve(w) \/ Look(w)
    PROVE  /\ UNCHANGED <<db, disk, lock, keyed, search, torn>>
           /\ job'[w].pc \in {"idle", "resolving", "look", "ready"}
           /\ job[w].pc \in {"idle", "resolving", "look"}
           /\ \A v \in Ingesters \ {w} : job'[v] = job[v]
BY DEF Request, Resolve, Look, Idle, TypeOK

-----------------------------------------------------------------------------
(* The text of a document.                                                 *)

\* A document is whole as the connection sees it, or torn, or a request is about to
\* write its text.
WholeOrWriting ==
    \A d \in db.documents :
        \/ Chunks(d) \subseteq db.chunks
        \/ d \in torn
        \/ \E w \in Ingesters : job[w].pc = "text" /\ job[w].doc = d

IInv == Held /\ WholeOrWriting /\ TextWhole

\* When nobody is between a document's row and its text, the tables are whole.
LEMMA QuietIsWhole ==
    ASSUME WholeOrWriting, \A w \in Ingesters : job[w].pc # "text"
    PROVE  \A d \in db.documents \ torn : Chunks(d) \subseteq db.chunks
BY DEF WholeOrWriting

LEMMA Step ==
    ASSUME IInv, [Next]_vars
    PROVE  IInv'
<1> USE DEF IInv, Held
<1>0. Held'
  BY HeldStep
<1> DEFINE Whole == WholeOrWriting' /\ TextWhole'
<1>1. ASSUME NEW w \in Ingesters, Request(w) \/ Resolve(w) \/ Look(w) PROVE Whole
  <2>1. /\ UNCHANGED <<db, disk, torn>> /\ job[w].pc # "text"
        /\ \A v \in Ingesters \ {w} : job'[v] = job[v]
    BY <1>1, Preparing
  <2> QED
    BY <2>1 DEF WholeOrWriting, TextWhole
<1>2. ASSUME NEW w \in Ingesters, TakeLock(w) PROVE Whole
  BY <1>2, NoneAssumption DEF TakeLock, Idle, TypeOK, Jobs, WholeOrWriting, TextWhole
<1>3. ASSUME NEW w \in Ingesters, InsertDocument(w) PROVE Whole
  <2>1. WholeOrWriting'
    <3>1. CASE job[w].doc \in db.documents
      BY <1>3, <3>1 DEF InsertDocument, Idle, WholeOrWriting, TypeOK, Jobs
    <3>2. CASE job[w].doc \notin db.documents
      <4>1. /\ db'.documents = db.documents \cup {job[w].doc} /\ db'.chunks = db.chunks
            /\ job' = [job EXCEPT ![w].pc = "text"] /\ torn' = torn
        BY <1>3, <3>2 DEF InsertDocument, Idle, TypeOK, Tables
      <4>2. /\ job'[w].pc = "text" /\ job'[w].doc = job[w].doc
            /\ \A v \in Ingesters \ {w} : job'[v] = job[v]
        BY <1>3, <4>1 DEF InsertDocument, Idle, TypeOK, Jobs
      <4>3. job[w].pc # "text"
        BY <1>3 DEF InsertDocument, Idle
      <4> QED
        BY <4>1, <4>2, <4>3 DEF WholeOrWriting
    <3> QED
      BY <3>1, <3>2
  <2> QED
    BY <1>3, <2>1 DEF InsertDocument, Idle, TextWhole
<1>4. ASSUME NEW w \in Ingesters, WriteText(w) PROVE Whole
  <2> DEFINE with == [db EXCEPT !.chunks = @ \cup Chunks(job[w].doc)]
  <2>1. /\ job[w].pc = "text" /\ lock = w
        /\ \A v \in Ingesters : job[v].pc \in Writing => v = w
    BY <1>4 DEF WriteText, WriterHolds, Writing
  <2>2. \A d \in with.documents \ torn : Chunks(d) \subseteq with.chunks
    BY <2>1 DEF WholeOrWriting, TypeOK, Tables, Writing
  <2>3. db' = with /\ disk' \in {disk, with} /\ torn' = torn
    BY <1>4 DEF WriteText, Commit, Idle
  <2> QED
    BY <2>2, <2>3 DEF WholeOrWriting, TextWhole
<1>5. ASSUME NEW w \in Ingesters, EnsureTable(w) PROVE Whole
  <2>1. \A v \in Ingesters : job[v].pc # "text"
    BY <1>5 DEF EnsureTable, WriterHolds, Writing
  <2> QED
    BY <1>5, <2>1, QuietIsWhole DEF EnsureTable, TypeOK, Jobs, WholeOrWriting, TextWhole
<1>6. ASSUME NEW w \in Ingesters, WriteVector(w) PROVE Whole
  <2>1. db'.documents = db.documents /\ db'.chunks = db.chunks
    BY <1>6 DEF WriteVector, TypeOK, Tables
  <2>2. WholeOrWriting'
    BY <1>6, <2>1 DEF WriteVector, TypeOK, Jobs, WholeOrWriting
  <2> QED
    BY <1>6, <2>2 DEF WriteVector, TextWhole
<1>7. ASSUME NEW w \in Ingesters, Finish(w) PROVE Whole
  <2>1. \A v \in Ingesters : job[v].pc # "text"
    BY <1>7 DEF Finish, WriterHolds, Writing
  <2> QED
    BY <1>7, <2>1, QuietIsWhole DEF Finish, Commit, Idle, TypeOK, Jobs, WholeOrWriting, TextWhole
<1>8. ASSUME NEW w \in Ingesters, WriteFails(w) PROVE Whole
  <2>1. /\ torn' = torn \cup {d \in {job[w].doc} : job[w].pc = "text"} /\ UNCHANGED disk
        /\ job' = [job EXCEPT ![w] = Idle]
    BY <1>8 DEF WriteFails, Idle
  <2>2. db'.documents = db.documents /\ db.chunks \subseteq db'.chunks
    BY <1>8 DEF WriteFails, Idle, TypeOK, Tables
  <2>3. \A v \in Ingesters : job[v].pc = "text" => v = w
    BY <1>8 DEF WriteFails, Idle, WriterHolds, Writing
  <2>4. WholeOrWriting'
    BY <2>1, <2>2, <2>3 DEF WholeOrWriting
  <2> QED
    BY <2>1, <2>4 DEF TextWhole
<1>10. ASSUME CommitElsewhere PROVE Whole
  <2>1. \A v \in Ingesters : job[v].pc # "text"
    BY <1>10, NoneAssumption DEF CommitElsewhere, WriterHolds, Writing
  <2> QED
    BY <1>10, <2>1, QuietIsWhole DEF CommitElsewhere, WholeOrWriting, TextWhole
<1>11. ASSUME Restart PROVE Whole
  BY <1>11 DEF Restart, Idle, WholeOrWriting, TextWhole
<1>12. ASSUME MakeKey PROVE Whole
  BY <1>12 DEF MakeKey, WholeOrWriting, TextWhole
<1>13. ASSUME Searching \/ ResolveElsewhere \/ UNCHANGED vars PROVE Whole
  BY <1>13 DEF Searching, ReadChunks, ReadKeys, ReadRows, QueryFails, Answer, Told,
     ResolveElsewhere, vars, WholeOrWriting, TextWhole
<1>14. Whole
  BY <1>1, <1>2, <1>3, <1>4, <1>5, <1>6, <1>7, <1>8, <1>10, <1>11, <1>12, <1>13
     DEF Next, Ingest, Searching
<1> QED
  BY <1>0, <1>14

\* A document that a crash leaves behind has all its chunks, whatever the requests, the
\* documents and the backends (ingest and ensure_vector_table), unless an INSERT raised in
\* the middle of its text or session_key committed there.
THEOREM TextIsWhole == Spec => []TextWhole
<1>1. Init => IInv
  BY InitHeld DEF Init, IInv, WholeOrWriting, TextWhole, EmptyTables
<1>2. IInv /\ [Next]_vars => IInv'
  BY Step
<1>3. IInv => TextWhole
  BY DEF IInv
<1> QED
  BY <1>1, <1>2, <1>3, PTL DEF Spec

-----------------------------------------------------------------------------
(* One ingestion per document.                                             *)

\* Under the lock the second look still holds when the row is inserted.
LEMMA NoClashStep ==
    ASSUME Held, NoClash, [Next]_vars
    PROVE  NoClash'
<1> DEFINE Goal == NoClash'
<1> USE DEF Held
<1>1. ASSUME NEW w \in Ingesters, Request(w) \/ Resolve(w) \/ Look(w) PROVE Goal
  BY <1>1, Preparing DEF NoClash
<1>2. ASSUME NEW w \in Ingesters, TakeLock(w) PROVE Goal
  BY <1>2 DEF TakeLock, Idle, TypeOK, Jobs, NoClash
<1>3. ASSUME NEW w \in Ingesters, InsertDocument(w) PROVE Goal
  <2>1. \A v \in Ingesters : job[v].pc = "insert" => v = w
    BY <1>3 DEF InsertDocument, Idle, WriterHolds, Writing
  <2>2. job' = [job EXCEPT ![w].pc = "text"]
    BY <1>3 DEF InsertDocument, Idle, NoClash
  <2> QED
    BY <1>3, <2>1, <2>2 DEF InsertDocument, Idle, TypeOK, Jobs, NoClash
<1>4. ASSUME NEW w \in Ingesters, WriteText(w) PROVE Goal
  <2>1. db'.documents = db.documents
    BY <1>4 DEF WriteText, Commit, Idle, TypeOK, Tables
  <2> QED
    BY <1>4, <2>1 DEF WriteText, Commit, Idle, TypeOK, Jobs, NoClash
<1>5. ASSUME NEW w \in Ingesters, EnsureTable(w) PROVE Goal
  BY <1>5 DEF EnsureTable, TypeOK, Jobs, NoClash
<1>6. ASSUME NEW w \in Ingesters, WriteVector(w) PROVE Goal
  <2>1. db'.documents = db.documents
    BY <1>6 DEF WriteVector, TypeOK, Tables
  <2> QED
    BY <1>6, <2>1 DEF WriteVector, TypeOK, Jobs, NoClash
<1>7. ASSUME NEW w \in Ingesters, Finish(w) PROVE Goal
  BY <1>7 DEF Finish, Commit, Idle, TypeOK, Jobs, NoClash
<1>8. ASSUME NEW w \in Ingesters, WriteFails(w) PROVE Goal
  <2>1. db'.documents = db.documents
    BY <1>8 DEF WriteFails, Idle, TypeOK, Tables
  <2> QED
    BY <1>8, <2>1 DEF WriteFails, Idle, TypeOK, Jobs, NoClash
<1>10. ASSUME CommitElsewhere \/ MakeKey \/ ResolveElsewhere PROVE Goal
  BY <1>10 DEF CommitElsewhere, MakeKey, ResolveElsewhere, NoClash
<1>11. ASSUME Restart PROVE Goal
  BY <1>11 DEF Restart, Idle, NoClash
<1>12. ASSUME Searching \/ UNCHANGED vars PROVE Goal
  BY <1>12 DEF Searching, ReadChunks, ReadKeys, ReadRows, QueryFails, Answer, Told, vars,
     NoClash
<1> QED
  BY <1>1, <1>2, <1>3, <1>4, <1>5, <1>6, <1>7, <1>8, <1>10, <1>11, <1>12
     DEF Next, Ingest, Searching

\* Requests that ingest the same bytes never collide on the primary key, however
\* many there are (ingest's second look inside the lock), also when statements raise and
\* the key is made in between.
THEOREM NeverClash == Spec => []NoClash
<1>1. Init => NoClash
  BY DEF Init, Idle, NoClash
<1>2. Held /\ NoClash /\ [Next]_vars => NoClash'
  BY NoClashStep
<1> QED
  BY HeldAlways, <1>1, <1>2, PTL DEF Spec

-----------------------------------------------------------------------------
(* Each vector under its own space.                                        *)

\* OneSpaceEach of any tables, of documents that they have.
SpacesIn(t) ==
    \A r \in t.index :
        /\ r.chunk[1] \in t.documents
        /\ r.rowid \in DOMAIN t.vectors[Dim[r.space]]
        /\ t.vectors[Dim[r.space]][r.rowid] = [chunk |-> r.chunk, space |-> r.space]
        /\ \A s \in t.index : s.chunk[1] = r.chunk[1] =>
              s.space = r.space /\ (s.chunk = r.chunk => s = r)

\* What the index has of a document that is being written is the writer's, and goes
\* as far as it has come.
WritesOne ==
    \A w \in Ingesters : job[w].pc \in {"text", "table", "vectors"} =>
        /\ job[w].doc \in db.documents
        /\ \A r \in db.index : r.chunk[1] = job[w].doc =>
              r.space = job[w].by /\ r.chunk[2] < job[w].next

SpaceInv == SpacesIn(db) /\ SpacesIn(disk) /\ WritesOne

\* More documents, or more chunks of them, are no more vectors.
LEMMA SpacesKept ==
    ASSUME NEW t, NEW u, SpacesIn(t), u.index = t.index, u.vectors = t.vectors,
           t.documents \subseteq u.documents
    PROVE  SpacesIn(u)
BY DEF SpacesIn

\* One vector more is at the end of its table, of a chunk that had none.
LEMMA OneVectorMore ==
    ASSUME Held, SpaceInv, NEW w \in Ingesters, WriteVector(w)
    PROVE  SpaceInv'
<1> DEFINE j == job[w]
           n == Dim[j.by]
           c == <<j.doc, j.next>>
           entry == [chunk |-> c, space |-> j.by, rowid |-> Len(db.vectors[n]) + 1]
           place == [chunk |-> c, space |-> j.by]
           more == [db.vectors EXCEPT ![n] = Append(@, place)]
<1>1. /\ j.pc = "vectors" /\ j.doc \in Docs /\ j.by \in Embedders /\ j.next \in Nat
      /\ n \in Widths /\ db.vectors[n] \in Seq(Located) /\ db.vectors \in [Widths -> Seq(Located)]
  BY DEF WriteVector, Held, TypeOK, Tables, Jobs, Widths
<1>2. /\ db' = [db EXCEPT !.vectors = more, !.index = @ \cup {entry}]
      /\ UNCHANGED disk /\ job' = [job EXCEPT ![w].next = @ + 1]
  BY DEF WriteVector, Held, TypeOK, Tables
<1>3. c[1] = j.doc /\ c[2] = j.next
  OBVIOUS
<1>4. entry.chunk = c /\ entry.space = j.by /\ entry.rowid = Len(db.vectors[n]) + 1
  OBVIOUS
<1>5. /\ Len(db.vectors[n]) \in Nat
      /\ more[n] = Append(db.vectors[n], place)
      /\ \A m \in Widths \ {n} : more[m] = db.vectors[m]
  BY <1>1
<1> HIDE DEF entry, place
<1>6. /\ entry.rowid \in DOMAIN more[n] /\ more[n][entry.rowid] = place
      /\ \A i \in DOMAIN db.vectors[n] : i \in DOMAIN more[n] /\ more[n][i] = db.vectors[n][i]
  BY <1>1, <1>4, <1>5
<1> HIDE DEF c, more, n
<1>7. /\ db'.vectors = more /\ db'.index = db.index \cup {entry}
      /\ db'.documents = db.documents
  BY <1>2 DEF Held, TypeOK, Tables
<1>8. /\ j.doc \in db.documents
      /\ \A r \in db.index : r.chunk[1] = j.doc => r.space = j.by /\ r.chunk[2] < j.next
  BY <1>1 DEF SpaceInv, WritesOne
<1>9. \A r \in db.index : r.space \in Embedders /\ Dim[r.space] \in Widths /\ r.chunk[2] \in Nat
  <2>1. \A r \in db.index : r.space \in Embedders /\ r.chunk \in AllChunks
    BY DEF Held, TypeOK, Tables, IndexRows
  <2>2. \A x \in AllChunks : x[2] \in Nat
    BY DEF AllChunks, Chunks
  <2> QED
    BY <2>1, <2>2 DEF Widths
<1>10. \A r \in db.index : r.chunk # c
  BY <1>1, <1>3, <1>8, <1>9
<1>11. SpacesIn(db')
  <2>1. ASSUME NEW r \in db.index
        PROVE  /\ r.chunk[1] \in db'.documents
               /\ r.rowid \in DOMAIN db'.vectors[Dim[r.space]]
               /\ db'.vectors[Dim[r.space]][r.rowid] = [chunk |-> r.chunk, space |-> r.space]
               /\ \A s \in db'.index : s.chunk[1] = r.chunk[1] =>
                     s.space = r.space /\ (s.chunk = r.chunk => s = r)
    <3>1. /\ r.chunk[1] \in db.documents /\ r.rowid \in DOMAIN db.vectors[Dim[r.space]]
          /\ db.vectors[Dim[r.space]][r.rowid] = [chunk |-> r.chunk, space |-> r.space]
          /\ \A s \in db.index : s.chunk[1] = r.chunk[1] =>
                s.space = r.space /\ (s.chunk = r.chunk => s = r)
      BY DEF SpaceInv, SpacesIn
    <3>2. /\ r.rowid \in DOMAIN more[Dim[r.space]]
          /\ more[Dim[r.space]][r.rowid] = db.vectors[Dim[r.space]][r.rowid]
      BY <1>5, <1>6, <1>9, <3>1
    <3>3. entry.chunk[1] = r.chunk[1] => entry.space = r.space
      BY <1>3, <1>4, <1>8
    <3>4. entry.chunk # r.chunk
      BY <1>4, <1>10
    <3> QED
      BY <1>7, <3>1, <3>2, <3>3, <3>4
  <2>2. /\ entry.chunk[1] \in db'.documents
        /\ entry.rowid \in DOMAIN db'.vectors[Dim[entry.space]]
        /\ db'.vectors[Dim[entry.space]][entry.rowid]
               = [chunk |-> entry.chunk, space |-> entry.space]
        /\ \A s \in db'.index : s.chunk[1] = entry.chunk[1] =>
              s.space = entry.space /\ (s.chunk = entry.chunk => s = entry)
    <3>1. Dim[entry.space] = n
      BY <1>4 DEF n
    <3>2. place = [chunk |-> entry.chunk, space |-> entry.space]
      BY <1>4 DEF place
    <3>3. \A s \in db.index : s.chunk[1] = entry.chunk[1] => s.space = entry.space
      BY <1>3, <1>4, <1>8
    <3>4. \A s \in db.index : s.chunk # entry.chunk
      BY <1>4, <1>10
    <3> QED
      BY <1>3, <1>4, <1>6, <1>7, <1>8, <3>1, <3>2, <3>3, <3>4
  <2> QED
    BY <1>7, <2>1, <2>2 DEF SpacesIn
<1>12. WritesOne'
  <2>1. \A v \in Ingesters : job[v].pc \in Writing => v = w
    BY <1>1 DEF Held, WriterHolds, Writing
  <2>2. /\ \A v \in Ingesters \ {w} : job'[v] = job[v]
        /\ job'[w].doc = j.doc /\ job'[w].by = j.by /\ job'[w].next = j.next + 1
    BY <1>1, <1>2 DEF Held, TypeOK, Jobs
  <2>3. \A r \in db'.index : r.chunk[1] = j.doc => r.space = j.by /\ r.chunk[2] < j.next + 1
    BY <1>1, <1>3, <1>4, <1>7, <1>8, <1>9
  <2> QED
    BY <1>7, <1>8, <2>1, <2>2, <2>3 DEF WritesOne, Writing
<1> QED
  BY <1>2, <1>11, <1>12 DEF SpaceInv

LEMMA SpaceStep ==
    ASSUME Held, SpaceInv, [Next]_vars
    PROVE  SpaceInv'
<1> USE DEF Held
<1>1. ASSUME NEW w \in Ingesters, Request(w) \/ Resolve(w) \/ Look(w) PROVE SpaceInv'
  BY <1>1, Preparing DEF SpaceInv, WritesOne
<1>2. ASSUME NEW w \in Ingesters, TakeLock(w) PROVE SpaceInv'
  BY <1>2 DEF TakeLock, Idle, TypeOK, Jobs, SpaceInv, WritesOne
<1>3. ASSUME NEW w \in Ingesters, InsertDocument(w) PROVE SpaceInv'
  <2>1. /\ db'.index = db.index /\ db'.vectors = db.vectors
        /\ db.documents \subseteq db'.documents /\ UNCHANGED disk
    BY <1>3 DEF InsertDocument, Idle, TypeOK, Tables
  <2>2. SpacesIn(db') /\ SpacesIn(disk')
    BY <2>1, SpacesKept DEF SpaceInv
  <2>3. CASE job[w].doc \in db.documents
    BY <1>3, <2>1, <2>2, <2>3 DEF InsertDocument, Idle, TypeOK, SpaceInv, WritesOne
  <2>4. CASE job[w].doc \notin db.documents
    <3>0. /\ db' = [db EXCEPT !.documents = @ \cup {job[w].doc}]
          /\ job[w].pc = "insert" /\ job' = [job EXCEPT ![w].pc = "text"]
      BY <1>3, <2>4 DEF InsertDocument, Idle
    <3>1. /\ db'.documents = db.documents \cup {job[w].doc}
          /\ \A v \in Ingesters \ {w} : job'[v] = job[v]
          /\ job'[w].doc = job[w].doc
      <4>1. db'.documents = db.documents \cup {job[w].doc}
        BY <3>0 DEF TypeOK, Tables
      <4>2. /\ \A v \in Ingesters \ {w} : job'[v] = job[v]
            /\ job'[w].doc = job[w].doc
        BY <3>0 DEF TypeOK, Jobs
      <4> QED
        BY <4>1, <4>2
    <3>2. \A r \in db.index : r.chunk[1] # job[w].doc
      BY <2>4 DEF SpaceInv, SpacesIn
    <3> QED
      BY <2>1, <2>2, <3>1, <3>2 DEF SpaceInv, WritesOne
  <2> QED
    BY <2>3, <2>4
<1>4. ASSUME NEW w \in Ingesters, WriteText(w) PROVE SpaceInv'
  <2>1. /\ db'.index = db.index /\ db'.vectors = db.vectors /\ db'.documents = db.documents
        /\ disk' \in {disk, db'}
    BY <1>4 DEF WriteText, Commit, Idle, TypeOK, Tables
  <2>2. SpacesIn(db') /\ SpacesIn(disk')
    BY <2>1, SpacesKept DEF SpaceInv
  <2> QED
    BY <1>4, <2>1, <2>2 DEF WriteText, Commit, Idle, TypeOK, Jobs, SpaceInv, WritesOne
<1>5. ASSUME NEW w \in Ingesters, EnsureTable(w) PROVE SpaceInv'
  BY <1>5 DEF EnsureTable, TypeOK, Jobs, SpaceInv, WritesOne
<1>6. ASSUME NEW w \in Ingesters, WriteVector(w) PROVE SpaceInv'
  BY <1>6, OneVectorMore
<1>7. ASSUME NEW w \in Ingesters, Finish(w) PROVE SpaceInv'
  BY <1>7 DEF Finish, Commit, Idle, TypeOK, Jobs, SpaceInv, WritesOne
<1>8. ASSUME NEW w \in Ingesters, WriteFails(w) PROVE SpaceInv'
  <2>1. /\ db'.index = db.index /\ db'.vectors = db.vectors /\ db'.documents = db.documents
        /\ UNCHANGED disk
    BY <1>8 DEF WriteFails, Idle, TypeOK, Tables
  <2>2. SpacesIn(db') /\ SpacesIn(disk')
    BY <2>1, SpacesKept DEF SpaceInv
  <2> QED
    BY <1>8, <2>1, <2>2 DEF WriteFails, Idle, TypeOK, Jobs, SpaceInv, WritesOne
<1>10. ASSUME CommitElsewhere \/ MakeKey \/ ResolveElsewhere PROVE SpaceInv'
  BY <1>10 DEF CommitElsewhere, MakeKey, ResolveElsewhere, SpaceInv, WritesOne
<1>11. ASSUME Restart PROVE SpaceInv'
  BY <1>11 DEF Restart, Idle, SpaceInv, WritesOne
<1>12. ASSUME Searching \/ UNCHANGED vars PROVE SpaceInv'
  BY <1>12 DEF Searching, ReadChunks, ReadKeys, ReadRows, QueryFails, Answer, Told, vars,
     SpaceInv, WritesOne
<1> QED
  BY <1>1, <1>2, <1>3, <1>4, <1>5, <1>6, <1>7, <1>8, <1>10, <1>11, <1>12
     DEF Next, Ingest, Searching

\* What the index points to is the vector of that chunk and that space, and a document has
\* one vector for each chunk, all of one space: whatever raises, whoever commits, and
\* however many backends the requests of one process or of several found (ingest).
THEOREM SpacesStayApart == Spec => []OneSpaceEach
<1>1. Init => SpaceInv
  BY DEF Init, EmptyTables, Idle, SpaceInv, SpacesIn, WritesOne
<1>2. SpaceInv => OneSpaceEach
  BY DEF SpaceInv, SpacesIn, OneSpaceEach
<1>3. Held /\ SpaceInv /\ [Next]_vars => SpaceInv'
  BY SpaceStep
<1> QED
  BY HeldAlways, <1>1, <1>2, <1>3, PTL DEF Spec

-----------------------------------------------------------------------------
(* The fusion.                                                             *)

\* The ranks of an arm count from one.
Counted(arm) == DOMAIN arm \subseteq Nat \ {0}

\* A chunk that an arm ranked has a weight there.
LEMMA WeightOfRanked ==
    ASSUME NEW arm, Counted(arm), NEW c \in Ranked(arm)
    PROVE  Weight(arm, c) \in Nat \ {0}
<1>1. \E i \in DOMAIN arm : arm[i] = c
  BY DEF Ranked
<1>2. (CHOOSE i \in DOMAIN arm : arm[i] = c) \in Nat \ {0}
  BY <1>1 DEF Counted
<1> QED
  BY <1>2 DEF Weight, RRF_K

LEMMA Times ==
    ASSUME NEW a \in Nat \ {0}, NEW b \in Nat \ {0}
    PROVE  a * b \in Nat \ {0}
OBVIOUS

\* Products keep the order, and one number can be told apart from its double.
LEMMA Scaled ==
    ASSUME NEW a \in Nat, NEW b \in Nat, NEW c \in Nat \ {0}, a < b
    PROVE  a * c < b * c
OBVIOUS

\* The mean of the reciprocals of two weights, against the terms that can stand
\* against it: all of larger weights, or fewer of them.
LEMMA MeanOfTwo ==
    ASSUME NEW x \in Nat \ {0}, NEW y \in Nat \ {0}, NEW u \in Nat \ {0}, NEW v \in Nat \ {0},
           x < u, y < u, x < v, y < v
    PROVE  /\ (y + x) * ((u * v) * 2) > (v + u) * ((x * y) * 2)
           /\ (y + x) * ((u * 1) * 2) > (1 + 0) * ((x * y) * 2)
           /\ (y + x) * ((1 * v) * 2) > (0 + 1) * ((x * y) * 2)
           /\ (y + x) * ((1 * v) * 1) > (0 + 1) * ((x * y) * 2)
<1>1. /\ x * y \in Nat \ {0} /\ u * v \in Nat \ {0} /\ x * u \in Nat \ {0} /\ y * u \in Nat \ {0}
      /\ x * v \in Nat \ {0} /\ y * v \in Nat \ {0}
  BY Times
<1>2. x * y < u * y /\ y * x < u * x /\ x * y < v * y /\ y * x < v * x
  BY Scaled
<1>3. y * (u * v) > v * (x * y)
  <2>1. x * y < u * y
    BY <1>2
  <2>2. (x * y) * v < (u * y) * v
    BY <1>1, <2>1, Scaled
  <2>3. (x * y) * v = v * (x * y) /\ (u * y) * v = y * (u * v)
    OBVIOUS
  <2> QED
    BY <2>2, <2>3
<1>4. x * (u * v) > u * (x * y)
  <2>1. x * y < x * v
    BY <1>2
  <2>2. (x * y) * u < (x * v) * u
    BY <1>1, <2>1, Scaled
  <2>3. (x * y) * u = u * (x * y) /\ (x * v) * u = x * (u * v)
    OBVIOUS
  <2> QED
    BY <2>2, <2>3
<1>5. (y + x) * ((u * v) * 2) > (v + u) * ((x * y) * 2)
  <2>1. (y + x) * ((u * v) * 2) = 2 * (y * (u * v)) + 2 * (x * (u * v))
    OBVIOUS
  <2>2. (v + u) * ((x * y) * 2) = 2 * (v * (x * y)) + 2 * (u * (x * y))
    OBVIOUS
  <2> DEFINE p == y * (u * v)
             q == x * (u * v)
             r == v * (x * y)
             s == u * (x * y)
  <2>3. p \in Nat /\ q \in Nat /\ r \in Nat /\ s \in Nat
    OBVIOUS
  <2>4. p > r /\ q > s
    BY <1>3, <1>4
  <2> HIDE DEF p, q, r, s
  <2>5. 2 * p + 2 * q > 2 * r + 2 * s
    BY <2>3, <2>4
  <2> QED
    BY <2>1, <2>2, <2>5 DEF p, q, r, s
<1>6. /\ (y + x) * ((u * 1) * 2) = 2 * (y * u) + 2 * (x * u)
      /\ (y + x) * ((1 * v) * 2) = 2 * (y * v) + 2 * (x * v)
      /\ (y + x) * ((1 * v) * 1) = y * v + x * v
      /\ (1 + 0) * ((x * y) * 2) = 2 * (x * y)
      /\ (0 + 1) * ((x * y) * 2) = 2 * (x * y)
  OBVIOUS
<1>7. x * y < y * u /\ x * y < x * u /\ x * y < y * v /\ x * y < x * v
  BY <1>2
<1> DEFINE xy == x * y
           yu == y * u
           xu == x * u
           yv == y * v
           xv == x * v
<1>8. /\ xy \in Nat /\ yu \in Nat /\ xu \in Nat /\ yv \in Nat /\ xv \in Nat
      /\ xy < yu /\ xy < xu /\ xy < yv /\ xy < xv
  BY <1>1, <1>7
<1> HIDE DEF xy, yu, xu, yv, xv
<1>9. 2 * yu + 2 * xu > 2 * xy /\ 2 * yv + 2 * xv > 2 * xy /\ yv + xv > 2 * xy
  BY <1>8
<1> QED
  BY <1>5, <1>6, <1>9 DEF xy, yu, xu, yv, xv

\* The reciprocal of one weight, against the same terms.
LEMMA OneAlone ==
    ASSUME NEW y \in Nat \ {0}, NEW u \in Nat \ {0}, NEW v \in Nat \ {0}, y < u, y < v
    PROVE  /\ 1 * ((u * v) * 2) > (v + u) * y
           /\ 1 * ((u * 1) * 2) > 1 * y
           /\ 1 * ((1 * v) * 2) > 1 * y
           /\ 1 * ((1 * v) * 1) > 1 * y
<1>1. y * v < u * v /\ y * u < v * u
  BY Scaled
<1>2. 1 * ((u * v) * 2) = u * v + v * u /\ (v + u) * y = y * v + y * u
  OBVIOUS
<1> DEFINE uv == u * v
           vu == v * u
           yv == y * v
           yu == y * u
<1>3. uv \in Nat /\ vu \in Nat /\ yv \in Nat /\ yu \in Nat /\ yv < uv /\ yu < vu
  BY <1>1
<1> HIDE DEF uv, vu, yv, yu
<1>4. uv + vu > yv + yu
  BY <1>3
<1>5. 1 * ((u * v) * 2) > (v + u) * y
  BY <1>2, <1>4 DEF uv, vu, yv, yu
<1>6. 1 * ((u * 1) * 2) > 1 * y /\ 1 * ((1 * v) * 2) > 1 * y /\ 1 * ((1 * v) * 1) > 1 * y
  OBVIOUS
<1> QED
  BY <1>5, <1>6

\* The fused score of a chunk by the arms that ranked it.
LEMMA FusedIs ==
    ASSUME NEW lexical, NEW semantic, NEW eligible, NEW ran \in BOOLEAN,
           Counted(lexical), Counted(semantic),
           Ranked(lexical) \subseteq eligible, ~ran => Ranked(semantic) = {},
           NEW c \in Ranked(lexical) \cup Ranked(semantic),
           NEW x, x = Weight(lexical, c), NEW y, y = Weight(semantic, c)
    PROVE  LET f == Fused(c, lexical, semantic, eligible, ran) IN
           /\ c \in Ranked(lexical) => x \in Nat \ {0}
           /\ c \in Ranked(semantic) => y \in Nat \ {0}
           /\ c \in Ranked(lexical) /\ c \in Ranked(semantic) =>
                 ran /\ f.num = y + x /\ f.den = (x * y) * 2
           /\ c \in Ranked(lexical) /\ c \notin Ranked(semantic) =>
                 f.num = 1 /\ f.den = (x * 1) * (IF ran THEN 2 ELSE 1)
           /\ c \notin Ranked(lexical) =>
                 /\ ran /\ f.num = 1
                 /\ f.den = (1 * y) * (IF c \in eligible THEN 2 ELSE 1)
<1> DEFINE f == Fused(c, lexical, semantic, eligible, ran)
<1>1. /\ c \in Ranked(lexical) => x \in Nat \ {0}
      /\ c \in Ranked(semantic) => y \in Nat \ {0}
  BY WeightOfRanked
<1>2. ASSUME c \in Ranked(lexical), c \in Ranked(semantic)
      PROVE  ran /\ f.num = y + x /\ f.den = (x * y) * 2
  <2>1. ran /\ c \in eligible
    BY <1>2
  <2>2. f = [num |-> y + x, den |-> (x * y) * Share(1 + 1)]
    BY <1>2, <2>1 DEF Fused
  <2>3. Share(1 + 1) = 2
    BY DEF Share
  <2>4. f = [num |-> y + x, den |-> (x * y) * 2]
    BY <2>2, <2>3, Zenon
  <2> HIDE DEF f
  <2> QED
    BY <2>1, <2>4
<1>3. ASSUME c \in Ranked(lexical), c \notin Ranked(semantic)
      PROVE  f.num = 1 /\ f.den = (x * 1) * (IF ran THEN 2 ELSE 1)
  <2>1. c \in eligible
    BY <1>3
  <2>2. f = [num |-> 1 + 0, den |-> (x * 1) * Share(1 + (IF ran THEN 1 ELSE 0))]
    BY <1>3, <2>1 DEF Fused
  <2>3. Share(1 + 0) = 1 /\ Share(1 + 1) = 2
    BY DEF Share
  <2>4. CASE ran
    <3>1. f = [num |-> 1 + 0, den |-> (x * 1) * 2]
      BY <2>2, <2>3, <2>4, Zenon
    <3> HIDE DEF f
    <3> QED
      BY <2>4, <3>1
  <2>5. CASE ~ran
    <3>1. f = [num |-> 1 + 0, den |-> (x * 1) * 1]
      BY <2>2, <2>3, <2>5, Zenon
    <3> HIDE DEF f
    <3> QED
      BY <2>5, <3>1
  <2> QED
    BY <2>4, <2>5
<1>4. ASSUME c \notin Ranked(lexical)
      PROVE  /\ ran /\ f.num = 1
             /\ f.den = (1 * y) * (IF c \in eligible THEN 2 ELSE 1)
  <2>1. ran /\ c \in Ranked(semantic)
    BY <1>4
  <2>2. f = [num |-> 0 + 1, den |-> (1 * y) * Share((IF c \in eligible THEN 1 ELSE 0) + 1)]
    BY <1>4, <2>1 DEF Fused
  <2>3. Share(0 + 1) = 1 /\ Share(1 + 1) = 2
    BY DEF Share
  <2>4. CASE c \in eligible
    <3>1. f = [num |-> 0 + 1, den |-> (1 * y) * 2]
      BY <2>2, <2>3, <2>4, Zenon
    <3> HIDE DEF f
    <3> QED
      BY <2>1, <2>4, <3>1
  <2>5. CASE c \notin eligible
    <3>1. f = [num |-> 0 + 1, den |-> (1 * y) * 1]
      BY <2>2, <2>3, <2>5, Zenon
    <3> HIDE DEF f
    <3> QED
      BY <2>1, <2>5, <3>1
  <2> QED
    BY <2>4, <2>5
<1> QED
  BY <1>1, <1>2, <1>3, <1>4

\* A chunk that every arm which could rank it did, and each better than any arm ranked
\* another one, has the higher score.
LEMMA FairScores ==
    ASSUME NEW lexical, NEW semantic, NEW eligible, NEW ran \in BOOLEAN,
           Counted(lexical), Counted(semantic),
           Ranked(lexical) \subseteq eligible, ~ran => Ranked(semantic) = {},
           NEW c \in Ranked(lexical) \cup Ranked(semantic),
           NEW d \in Ranked(lexical) \cup Ranked(semantic),
           c \in eligible => c \in Ranked(lexical), ran => c \in Ranked(semantic),
           \A a, b \in {lexical, semantic} :
               c \in Ranked(a) /\ d \in Ranked(b) => Weight(a, c) < Weight(b, d)
    PROVE  Higher(Fused(c, lexical, semantic, eligible, ran),
                  Fused(d, lexical, semantic, eligible, ran))
<1> DEFINE x == Weight(lexical, c)
           y == Weight(semantic, c)
           u == Weight(lexical, d)
           v == Weight(semantic, d)
           f == Fused(c, lexical, semantic, eligible, ran)
           g == Fused(d, lexical, semantic, eligible, ran)
<1>1. /\ c \in Ranked(lexical) /\ d \in Ranked(lexical) => x < u
      /\ c \in Ranked(lexical) /\ d \in Ranked(semantic) => x < v
      /\ c \in Ranked(semantic) /\ d \in Ranked(lexical) => y < u
      /\ c \in Ranked(semantic) /\ d \in Ranked(semantic) => y < v
  OBVIOUS
<1>2. /\ c \in Ranked(lexical) => x \in Nat \ {0}
      /\ c \in Ranked(semantic) => y \in Nat \ {0}
      /\ d \in Ranked(lexical) => u \in Nat \ {0}
      /\ d \in Ranked(semantic) => v \in Nat \ {0}
  BY WeightOfRanked
<1>3. /\ c \in Ranked(lexical) /\ c \in Ranked(semantic) =>
            ran /\ f.num = y + x /\ f.den = (x * y) * 2
      /\ c \in Ranked(lexical) /\ c \notin Ranked(semantic) =>
            f.num = 1 /\ f.den = (x * 1) * (IF ran THEN 2 ELSE 1)
      /\ c \notin Ranked(lexical) =>
            ran /\ f.num = 1 /\ f.den = (1 * y) * (IF c \in eligible THEN 2 ELSE 1)
  BY FusedIs
<1>4. /\ d \in Ranked(lexical) /\ d \in Ranked(semantic) =>
            ran /\ g.num = v + u /\ g.den = (u * v) * 2
      /\ d \in Ranked(lexical) /\ d \notin Ranked(semantic) =>
            g.num = 1 /\ g.den = (u * 1) * (IF ran THEN 2 ELSE 1)
      /\ d \notin Ranked(lexical) =>
            ran /\ g.num = 1 /\ g.den = (1 * v) * (IF d \in eligible THEN 2 ELSE 1)
  BY FusedIs
<1> SUFFICES f.num * g.den > g.num * f.den
  BY DEF Higher
<1> HIDE DEF x, y, u, v, f, g
\* The other chunk was ranked by both arms, by one of two, or by the only one that could.
<1>5. CASE c \in Ranked(lexical) /\ c \in Ranked(semantic)
  <2>1. ran /\ f.num = y + x /\ f.den = (x * y) * 2
    BY <1>3, <1>5
  <2>2. CASE d \in Ranked(lexical) /\ d \in Ranked(semantic)
    <3>1. g.num = v + u /\ g.den = (u * v) * 2
      BY <1>4, <2>2
    <3>2. (y + x) * ((u * v) * 2) > (v + u) * ((x * y) * 2)
      BY <1>1, <1>2, <1>5, <2>2, MeanOfTwo
    <3> QED
      BY <2>1, <3>1, <3>2
  <2>3. CASE d \in Ranked(lexical) /\ d \notin Ranked(semantic)
    <3>1. g.num = 1 + 0 /\ g.den = (u * 1) * 2
      BY <1>4, <2>1, <2>3
    <3>2. (y + x) * ((u * 1) * 2) > (1 + 0) * ((x * y) * 2)
      BY <1>1, <1>2, <1>5, <2>3, MeanOfTwo
    <3> QED
      BY <2>1, <3>1, <3>2
  <2>4. CASE d \notin Ranked(lexical)
    <3>1. /\ g.num = 0 + 1 /\ d \in Ranked(semantic)
          /\ g.den = (1 * v) * 2 \/ g.den = (1 * v) * 1
      BY <1>4, <2>4
    <3>2. /\ (y + x) * ((1 * v) * 2) > (0 + 1) * ((x * y) * 2)
          /\ (y + x) * ((1 * v) * 1) > (0 + 1) * ((x * y) * 2)
      BY <1>1, <1>2, <1>5, <3>1, MeanOfTwo
    <3> QED
      BY <2>1, <3>1, <3>2
  <2> QED
    BY <2>2, <2>3, <2>4
<1>6. ASSUME NEW w \in Nat \ {0}, f.num = 1, f.den = w,
             d \in Ranked(lexical) => w < u, d \in Ranked(semantic) => w < v
      PROVE  f.num * g.den > g.num * f.den
  <2>1. CASE d \in Ranked(lexical) /\ d \in Ranked(semantic)
    <3>1. g.num = v + u /\ g.den = (u * v) * 2
      BY <1>4, <2>1
    <3>2. 1 * ((u * v) * 2) > (v + u) * w
      BY <1>2, <1>6, <2>1, OneAlone
    <3> QED
      BY <1>6, <3>1, <3>2
  <2>2. CASE d \in Ranked(lexical) /\ d \notin Ranked(semantic)
    <3>1. g.num = 1 /\ (g.den = (u * 1) * 2 \/ g.den = (u * 1) * 1)
      BY <1>4, <2>2
    <3>2. u \in Nat \ {0} /\ w < u
      BY <1>2, <1>6, <2>2
    <3> QED
      BY <1>6, <3>1, <3>2
  <2>3. CASE d \notin Ranked(lexical)
    <3>1. /\ g.num = 1 /\ d \in Ranked(semantic)
          /\ g.den = (1 * v) * 2 \/ g.den = (1 * v) * 1
      BY <1>4, <2>3
    <3>2. v \in Nat \ {0} /\ w < v
      BY <1>2, <1>6, <3>1
    <3> QED
      BY <1>6, <3>1, <3>2
  <2> QED
    BY <2>1, <2>2, <2>3
<1>7. CASE c \in Ranked(lexical) /\ c \notin Ranked(semantic)
  <2>1. ~ran /\ x \in Nat \ {0} /\ f.num = 1 /\ f.den = x
    BY <1>2, <1>3, <1>7
  <2> QED
    BY <1>1, <1>6, <1>7, <2>1
<1>8. CASE c \notin Ranked(lexical)
  <2>1. c \notin eligible /\ c \in Ranked(semantic)
    BY <1>8
  <2>2. y \in Nat \ {0} /\ f.num = 1 /\ f.den = y
    BY <1>2, <1>3, <1>8, <2>1
  <2> QED
    BY <1>1, <1>6, <2>1, <2>2
<1> QED
  BY <1>5, <1>7, <1>8

\* What FusionFair says of one answer.
Fair(hits, lexical, semantic, eligible, degraded) ==
    LET RanksOf(c) ==
            {Weight(arm, c) : arm \in {a \in {lexical, semantic} : c \in Ranked(a)}}
        Unheard(c) == \/ c \in eligible \ Ranked(lexical)
                      \/ ~degraded /\ c \notin Ranked(semantic)
    IN \A i, j \in DOMAIN hits :
          (/\ ~Unheard(hits[i])
           /\ \A p \in RanksOf(hits[i]), q \in RanksOf(hits[j]) : p < q)
          => i < j

\* Whatever is answered of two rankings is fair to both.
LEMMA OrderIsFair ==
    ASSUME NEW lexical, NEW semantic, NEW eligible, NEW ran \in BOOLEAN,
           Counted(lexical), Counted(semantic),
           Ranked(lexical) \subseteq eligible, ~ran => Ranked(semantic) = {},
           NEW ranked \in SUBSET (Ranked(lexical) \cup Ranked(semantic)),
           NEW order \in FusedOrders(ranked,
                            [c \in ranked |-> Fused(c, lexical, semantic, eligible, ran)])
    PROVE  Fair(order, lexical, semantic, eligible, ~ran)
<1> DEFINE score == [c \in ranked |-> Fused(c, lexical, semantic, eligible, ran)]
           RanksOf(c) ==
               {Weight(arm, c) : arm \in {a \in {lexical, semantic} : c \in Ranked(a)}}
           Unheard(c) == \/ c \in eligible \ Ranked(lexical)
                         \/ ran /\ c \notin Ranked(semantic)
<1>1. SUFFICES ASSUME NEW i \in DOMAIN order, NEW j \in DOMAIN order, ~Unheard(order[i]),
                      \A p \in RanksOf(order[i]), q \in RanksOf(order[j]) : p < q
               PROVE  i < j
  BY DEF Fair
<1>2. \A a, b \in {lexical, semantic} :
          order[i] \in Ranked(a) /\ order[j] \in Ranked(b) =>
              Weight(a, order[i]) < Weight(b, order[j])
  BY <1>1
<1>3. /\ order[i] \in eligible => order[i] \in Ranked(lexical)
      /\ ran => order[i] \in Ranked(semantic)
  BY <1>1
<1> HIDE DEF RanksOf, Unheard, score
<1>4. /\ order \in SetToSeqs(ranked)
      /\ \A m, n \in DOMAIN order : m < n => ~Higher(score[order[n]], score[order[m]])
  BY DEF FusedOrders, score
<1>5. order \in [1..Cardinality(ranked) -> ranked]
  BY <1>4 DEF SetToSeqs
<1>6. order[i] \in ranked /\ order[j] \in ranked /\ i \in Int /\ j \in Int
  BY <1>5
<1>7. Higher(Fused(order[i], lexical, semantic, eligible, ran),
             Fused(order[j], lexical, semantic, eligible, ran))
  BY <1>2, <1>3, <1>6, FairScores
<1>8. Higher(score[order[i]], score[order[j]])
  BY <1>6, <1>7 DEF score
<1>9. ~(j < i)
  BY <1>4, <1>8
<1>10. i # j
  <2>1. \A a \in {lexical, semantic} :
            order[i] \in Ranked(a) => Weight(a, order[i]) \in Nat
    BY WeightOfRanked
  <2>2. PICK a \in {lexical, semantic} : order[i] \in Ranked(a)
    BY <1>6
  <2> QED
    BY <1>2, <2>1, <2>2
<1> QED
  BY <1>6, <1>9, <1>10

-----------------------------------------------------------------------------
(* Searches while documents arrive.                                        *)

LEMMA OrderIsFunction ==
    ASSUME NEW S, IsFiniteSet(S), NEW order \in SetToSeqs(S)
    PROVE  /\ Cardinality(S) \in Nat /\ order \in [1..Cardinality(S) -> S]
           /\ Counted(order) /\ Ranked(order) \subseteq S
<1>1. Cardinality(S) \in Nat
  BY FS_CardinalityType
<1>2. order \in [1..Cardinality(S) -> S]
  BY DEF SetToSeqs
<1> QED
  BY <1>1, <1>2 DEF Counted, Ranked

\* _bm25_ranking ranks only chunks that share a token with the query.
LEMMA LexicalIs ==
    ASSUME IsFiniteSet(search.eligible), NEW lexical \in Lexical
    PROVE  Counted(lexical) /\ Ranked(lexical) \subseteq search.eligible
<1> DEFINE n == Cardinality(search.eligible)
           most == IF n < POOL THEN n ELSE POOL
           cuts == IF most = 0 THEN {0} ELSE 1..most
<1>1. PICK order \in SetToSeqs(search.eligible), k \in cuts : lexical = SubSeq(order, 1, k)
  BY DEF Lexical
<1>2. n \in Nat /\ order \in [1..n -> search.eligible]
  BY OrderIsFunction
<1>3. k \in 0..n
  BY <1>2, PoolAssumption
<1> HIDE DEF n, cuts
<1>4. order \in Seq(search.eligible) /\ Len(order) = n
  BY <1>2
<1>5. SubSeq(order, 1, k) = [i \in 1..k |-> order[i]]
  BY <1>2, <1>3, <1>4
<1>6. \A i \in 1..k : i \in 1..n /\ order[i] \in search.eligible
  BY <1>2, <1>3
<1> QED
  BY <1>1, <1>3, <1>5, <1>6 DEF Counted, Ranked

\* _vector_ranking ranks only chunks of the rows that it read.
LEMMA SemanticIs ==
    ASSUME TypeOK, NEW e \in Embedders, NEW semantic \in Semantic(e)
    PROVE  /\ Counted(semantic)
           /\ \A c \in Ranked(semantic) : \E r \in search.rows : r.chunk = c
<1> DEFINE table == db.vectors[Dim[e]]
           k == IF Len(table) < POOL THEN Len(table) ELSE POOL
           rows == search.rows
           kept(near) == near \cap {r.rowid : r \in rows}
           chunk(n) == (CHOOSE r \in rows : r.rowid = n).chunk
<1>1. semantic \in {[i \in DOMAIN order |-> chunk(order[i])] :
                         order \in UNION {SetToSeqs(kept(near)) : near \in kSubset(k, DOMAIN table)}}
  BY Zenon DEF Semantic
<1>2. table \in Seq(Located)
  BY DEF TypeOK, Tables, Widths
<1>11. DOMAIN table = 1..Len(table) /\ Len(table) \in Int /\ 1 \in Int
  BY <1>2
<1>3. IsFiniteSet(DOMAIN table)
  BY <1>11, FS_Interval, Zenon
<1>4. ASSUME NEW near \in kSubset(k, DOMAIN table) PROVE IsFiniteSet(kept(near))
  BY <1>3, FS_Subset DEF kSubset
<1>5. \A near, n : n \in kept(near) => \E r \in rows : r.chunk = chunk(n)
  OBVIOUS
<1> HIDE DEF chunk, kept, table, k
<1>6. PICK order \in UNION {SetToSeqs(kept(near)) : near \in kSubset(k, DOMAIN table)} :
          semantic = [i \in DOMAIN order |-> chunk(order[i])]
  BY <1>1, Zenon
<1>7. PICK near \in kSubset(k, DOMAIN table) : order \in SetToSeqs(kept(near))
  BY <1>6, Zenon
<1>8. Counted(order) /\ Ranked(order) \subseteq kept(near)
  BY <1>4, <1>7, OrderIsFunction
<1> HIDE DEF rows
<1>9. \A c \in Ranked(semantic) : \E r \in rows : r.chunk = c
  BY <1>5, <1>6, <1>8 DEF Ranked
<1> QED
  BY <1>6, <1>8, <1>9 DEF Counted, rows

\* A search that has read its chunks, and the rows of its space when its arm runs.
Asked == [pc : {"chunks", "embed", "rows"}, by : Embedders \cup {None},
          chunks : SUBSET AllChunks, eligible : SUBSET AllChunks, rows : SUBSET IndexRows]

Asking == search.pc \in {"chunks", "embed", "rows"}

\* The tables have finitely many chunks, and so has a search under way, which still finds
\* those that it read; its rows are in the index and of its space.
Consistent ==
    /\ IsFiniteSet(db.chunks) /\ IsFiniteSet(disk.chunks)
    /\ Asking => /\ search \in Asked /\ IsFiniteSet(search.eligible)
                 /\ search.chunks \subseteq db.chunks
    /\ search.pc = "embed" => search.by \in Embedders
    /\ search.pc = "rows" /\ search.by # None =>
          \A r \in search.rows : r \in db.index /\ r.space = search.by

SearchInv == Consistent /\ HitsResolve /\ FusionFair

\* What an answer made of the two rankings is right at the moment it is given.
LEMMA AnswerStep ==
    ASSUME TypeOK, Consistent, Answer
    PROVE  SearchInv'
<1> DEFINE ran == search.by # None
<1>0. /\ search \in Asked /\ IsFiniteSet(search.eligible) /\ search.pc = "rows"
      /\ search.chunks \subseteq db.chunks
      /\ ran \in BOOLEAN /\ UNCHANGED <<db, disk>>
  BY DEF Answer, Consistent, Asking, Asked
<1>1. PICK lexical \in Lexical,
           semantic \in (IF search.by = None THEN {<<>>} ELSE Semantic(search.by)) :
          LET ranked == Known(Ranked(lexical) \cup Ranked(semantic))
              score == [c \in ranked |-> Fused(c, lexical, semantic, search.eligible, search.by # None)]
          IN \E order \in FusedOrders(ranked, score) :
                search' = [pc |-> "hits", by |-> search.by, eligible |-> search.eligible,
                           hits |-> order, lexical |-> lexical, semantic |-> semantic]
  BY DEF Answer
<1> DEFINE ranked == Known(Ranked(lexical) \cup Ranked(semantic))
           score == [c \in ranked |-> Fused(c, lexical, semantic, search.eligible, ran)]
<1>2. PICK order \in FusedOrders(ranked, score) :
          search' = [pc |-> "hits", by |-> search.by, eligible |-> search.eligible,
                     hits |-> order, lexical |-> lexical, semantic |-> semantic]
  BY <1>1
<1>3. /\ search'.pc = "hits" /\ search'.by = search.by
      /\ search'.eligible = search.eligible /\ search'.hits = order
      /\ search'.lexical = lexical /\ search'.semantic = semantic
  BY <1>2
<1>5. Consistent'
  BY <1>0, <1>3 DEF Consistent, Asking
<1>6. Counted(lexical) /\ Ranked(lexical) \subseteq search.eligible
  BY <1>0, LexicalIs
<1>7. ASSUME ran
      PROVE  /\ Counted(semantic)
             /\ \A c \in Ranked(semantic) : \E r \in db.index : r.chunk = c /\ r.space = search.by
  <2>1. /\ search.by \in Embedders
        /\ \A r \in search.rows : r \in db.index /\ r.space = search.by
    BY <1>0, <1>7 DEF Consistent, Asked
  <2>2. semantic \in Semantic(search.by)
    BY <1>7
  <2> QED
    BY <2>1, <2>2, SemanticIs
<1>8. ASSUME ~ran PROVE semantic = <<>> /\ Counted(semantic) /\ Ranked(semantic) = {}
  BY <1>8 DEF Counted, Ranked
<1>9. order \in SetToSeqs(ranked)
  BY DEF FusedOrders
<1>10. \A i \in DOMAIN order : order[i] \in ranked
  BY <1>9 DEF SetToSeqs
<1>11. HitsResolve'
  <2>1. Ranked(order) \subseteq db'.chunks
    BY <1>0, <1>10 DEF Ranked, Known
  <2>2. \A c \in Ranked(semantic) : \E r \in db'.index : r.chunk = c /\ r.space = search.by
    BY <1>0, <1>7, <1>8
  <2>3. \A c \in Ranked(semantic) :
            [chunk |-> c, space |-> search.by] \in
                {[chunk |-> r.chunk, space |-> r.space] : r \in db'.index}
    BY <2>2
  <2> QED
    BY <1>3, <1>8, <2>1, <2>3 DEF HitsResolve
<1>12. FusionFair'
  <2>1. Fair(order, lexical, semantic, search.eligible, ~ran)
    <3>1. ran \in BOOLEAN /\ ranked \in SUBSET (Ranked(lexical) \cup Ranked(semantic))
      BY <1>0 DEF Known
    <3>2. Counted(semantic) /\ (~ran => Ranked(semantic) = {})
      BY <1>7, <1>8
    <3>3. order \in FusedOrders(ranked,
                        [c \in ranked |-> Fused(c, lexical, semantic, search.eligible, ran)])
      OBVIOUS
    <3> HIDE DEF ran, ranked
    <3> QED
      BY <1>6, <3>1, <3>2, <3>3, OrderIsFair
  <2>2. Fair(search'.hits, search'.lexical, search'.semantic, search'.eligible, search'.by = None)
    BY <1>3, <2>1
  <2> QED
    BY <2>2, Zenon DEF FusionFair, Fair
<1> QED
  BY <1>5, <1>11, <1>12 DEF SearchInv

\* A step that leaves the search alone takes no row from the index.
LEMMA SearchLeftAlone ==
    ASSUME SearchInv, UNCHANGED search, db.index \subseteq db'.index,
           db.chunks \subseteq db'.chunks
    PROVE  HitsResolve' /\ FusionFair'
<1>1. FusionFair'
  BY DEF SearchInv, FusionFair
<1>2. {[chunk |-> r.chunk, space |-> r.space] : r \in db.index}
          \subseteq {[chunk |-> r.chunk, space |-> r.space] : r \in db'.index}
  OBVIOUS
<1>3. HitsResolve'
  BY <1>2 DEF SearchInv, HitsResolve
<1> QED
  BY <1>1, <1>3

LEMMA FewChunks ==
    ASSUME NEW d \in Docs
    PROVE  IsFiniteSet(Chunks(d))
<1>1. NChunks[d] \in Int /\ 1 \in Int
  BY NChunksAssumption
<1>2. IsFiniteSet({d}) /\ IsFiniteSet(1..NChunks[d])
  BY <1>1, FS_Singleton, FS_Interval
<1> QED
  BY <1>2, FS_Product DEF Chunks

\* What a request does to the tables, to their chunks and to the index.
LEMMA IngestTables ==
    ASSUME TypeOK, NEW w \in Ingesters, Ingest(w)
    PROVE  /\ UNCHANGED search
           /\ db.index \subseteq db'.index /\ db.chunks \subseteq db'.chunks
           /\ \/ db'.chunks = db.chunks
              \/ \E d \in Docs : db'.chunks \subseteq db.chunks \cup Chunks(d)
           /\ disk'.chunks \in {disk.chunks, db'.chunks}
<1>1. CASE Request(w) \/ Resolve(w) \/ Look(w) \/ TakeLock(w)
  BY <1>1 DEF Request, Resolve, Look, Idle, TakeLock
<1>6. CASE WriteFails(w)
  <2>1. CASE UNCHANGED db
    BY <1>6, <2>1 DEF WriteFails, Idle
  <2>2. ASSUME job[w].pc = "text", NEW m \in 1..(NChunks[job[w].doc] - 1),
               db' = [db EXCEPT !.chunks = @ \cup ({job[w].doc} \X (1..m))]
        PROVE  /\ db'.index = db.index /\ db.chunks \subseteq db'.chunks
               /\ \E d \in Docs : db'.chunks \subseteq db.chunks \cup Chunks(d)
    <3>1. job[w].doc \in Docs /\ NChunks[job[w].doc] \in Nat
      BY <2>2, NChunksAssumption DEF TypeOK, Jobs
    <3>2. {job[w].doc} \X (1..m) \subseteq Chunks(job[w].doc)
      BY <3>1 DEF Chunks
    <3> QED
      BY <2>2, <3>1, <3>2 DEF TypeOK, Tables
  <2> QED
    BY <1>6, <2>1, <2>2 DEF WriteFails, Idle
<1>2. CASE InsertDocument(w)
  BY <1>2 DEF InsertDocument, Idle, TypeOK, Tables
<1>3. CASE WriteText(w)
  <2>1. job[w].doc \in Docs
    BY <1>3 DEF WriteText, TypeOK, Jobs
  <2>2. /\ db' = [db EXCEPT !.chunks = @ \cup Chunks(job[w].doc)]
        /\ disk' \in {disk, db'} /\ UNCHANGED search
    BY <1>3 DEF WriteText, Commit, Idle
  <2>3. db'.index = db.index /\ db'.chunks = db.chunks \cup Chunks(job[w].doc)
    BY <2>2 DEF TypeOK, Tables
  <2> QED
    BY <2>1, <2>2, <2>3
<1>4. CASE EnsureTable(w) \/ Finish(w)
  BY <1>4 DEF EnsureTable, Finish, Commit, Idle
<1>5. CASE WriteVector(w)
  <2> DEFINE n == Dim[job[w].by]
             entry == [chunk |-> <<job[w].doc, job[w].next>>, space |-> job[w].by,
                       rowid |-> Len(db.vectors[n]) + 1]
             more == [db.vectors EXCEPT
                         ![n] = Append(@, [chunk |-> <<job[w].doc, job[w].next>>, space |-> job[w].by])]
  <2>1. /\ db' = [db EXCEPT !.vectors = more, !.index = @ \cup {entry}]
        /\ UNCHANGED <<disk, search>>
    BY <1>5 DEF WriteVector, TypeOK, Tables
  <2> HIDE DEF entry, more
  <2>2. db'.index = db.index \cup {entry} /\ db'.chunks = db.chunks
    BY <2>1 DEF TypeOK, Tables
  <2> QED
    BY <2>1, <2>2
<1> QED
  BY <1>1, <1>2, <1>3, <1>4, <1>5, <1>6 DEF Ingest

\* A step outside the search keeps what it has read.
LEMMA ReadStays ==
    ASSUME Consistent, UNCHANGED search, db.index \subseteq db'.index,
           db.chunks \subseteq db'.chunks,
           IsFiniteSet(db'.chunks), IsFiniteSet(disk'.chunks)
    PROVE  Consistent'
BY DEF Consistent, Asking

\* The reads of a search.
LEMMA ReadSteps ==
    ASSUME TypeOK, SearchInv, ReadChunks \/ ReadKeys \/ ReadRows
    PROVE  SearchInv'
<1>0. /\ UNCHANGED <<db, disk>> /\ db \in Tables
      /\ IsFiniteSet(db.chunks) /\ IsFiniteSet(disk.chunks)
  BY DEF ReadChunks, ReadKeys, ReadRows, TypeOK, SearchInv, Consistent
<1>1. CASE ReadChunks
  <2>1. PICK e \in Embedders \cup {None}, matching \in SUBSET db.chunks :
            search' = [pc |-> "chunks", by |-> e, chunks |-> db.chunks, eligible |-> matching,
                       rows |-> {}]
    BY <1>1 DEF ReadChunks
  <2>2. IsFiniteSet(matching) /\ db.chunks \subseteq AllChunks
    BY <1>0, FS_Subset DEF Tables
  <2>3. /\ search'.pc = "chunks" /\ search'.eligible = matching /\ search' \in Asked
        /\ search'.chunks = db.chunks
    BY <2>1, <2>2 DEF Asked
  <2> QED
    BY <1>0, <2>2, <2>3 DEF SearchInv, Consistent, Asking, HitsResolve, FusionFair
<1>2. CASE ReadKeys
  <2>1. /\ search \in Asked /\ IsFiniteSet(search.eligible)
        /\ search.chunks \subseteq db.chunks
        /\ search' = IF SpaceStored THEN [search EXCEPT !.pc = "embed"]
                     ELSE [search EXCEPT !.pc = "rows", !.by = None]
    BY <1>2 DEF ReadKeys, SearchInv, Consistent, Asking
  <2>2. SpaceStored => search.by \in Embedders
    BY <1>0 DEF SpaceStored, Tables, IndexRows
  <2>3. /\ search' \in Asked /\ search'.eligible = search.eligible
        /\ search'.chunks = search.chunks
        /\ \/ search'.pc = "embed" /\ search'.by \in Embedders
           \/ search'.pc = "rows" /\ search'.by = None
    <3>1. CASE SpaceStored
      BY <2>1, <2>2, <3>1 DEF Asked
    <3>2. CASE ~SpaceStored
      BY <2>1, <3>2 DEF Asked
    <3> QED
      BY <3>1, <3>2
  <2> QED
    BY <1>0, <2>1, <2>3 DEF SearchInv, Consistent, Asking, HitsResolve, FusionFair
<1>3. CASE ReadRows
  <2>1. /\ search \in Asked /\ IsFiniteSet(search.eligible) /\ search.by \in Embedders
        /\ search.chunks \subseteq db.chunks
        /\ search' = [search EXCEPT !.pc = "rows", !.rows = OfSpace(search.by)]
    BY <1>3 DEF ReadRows, SearchInv, Consistent, Asking
  <2>2. \A r \in OfSpace(search.by) : r \in db.index /\ r.space = search.by
    BY DEF OfSpace
  <2>3. OfSpace(search.by) \in SUBSET IndexRows
    BY <1>0, <2>2 DEF Tables
  <2>4. /\ search' \in Asked /\ search'.eligible = search.eligible /\ search'.by = search.by
        /\ search'.chunks = search.chunks /\ search'.pc = "rows" /\ search'.rows = OfSpace(search.by)
    BY <2>1, <2>3 DEF Asked
  <2> QED
    BY <1>0, <2>1, <2>2, <2>4 DEF SearchInv, Consistent, Asking, HitsResolve, FusionFair
<1> QED
  BY <1>1, <1>2, <1>3

LEMMA SearchStep ==
    ASSUME TypeOK, SearchInv, [Next]_vars
    PROVE  SearchInv'
<1>1. ASSUME NEW w \in Ingesters, Ingest(w) PROVE SearchInv'
  <2>1. IsFiniteSet(db'.chunks) /\ IsFiniteSet(disk'.chunks)
    <3>1. IsFiniteSet(db.chunks) /\ IsFiniteSet(disk.chunks)
      BY DEF SearchInv, Consistent
    <3>2. \A d \in Docs : IsFiniteSet(db.chunks \cup Chunks(d))
      BY <3>1, FewChunks, FS_Union
    <3>3. IsFiniteSet(db'.chunks)
      BY <1>1, <3>1, <3>2, IngestTables, FS_Subset
    <3> QED
      BY <1>1, <3>1, <3>3, IngestTables
  <2>2. UNCHANGED search /\ db.index \subseteq db'.index /\ db.chunks \subseteq db'.chunks
    BY <1>1, IngestTables
  <2> QED
    BY <2>1, <2>2, ReadStays, SearchLeftAlone DEF SearchInv
<1>2. CASE CommitElsewhere \/ MakeKey \/ ResolveElsewhere \/ UNCHANGED vars
  <2>1. /\ UNCHANGED <<db, search>> /\ disk' \in {disk, db}
    BY <1>2 DEF CommitElsewhere, MakeKey, ResolveElsewhere, vars
  <2>2. IsFiniteSet(db'.chunks) /\ IsFiniteSet(disk'.chunks)
    BY <2>1 DEF SearchInv, Consistent
  <2> QED
    BY <2>1, <2>2, ReadStays, SearchLeftAlone DEF SearchInv
<1>3. CASE Restart
  BY <1>3 DEF Restart, Waiting, SearchInv, Consistent, Asking, HitsResolve, FusionFair
<1>4. CASE Answer
  BY <1>4, AnswerStep DEF SearchInv
<1>5. CASE Told \/ QueryFails
  BY <1>5 DEF Told, QueryFails, Waiting, SearchInv, Consistent, Asking, HitsResolve, FusionFair
<1> QED
  BY <1>1, <1>2, <1>3, <1>4, <1>5, ReadSteps DEF Next

LEMMA SearchAlways == Spec => []SearchInv
<1>1. Init => SearchInv
  BY FS_EmptySet
     DEF Init, EmptyTables, Waiting, SearchInv, Consistent, Asking, HitsResolve, FusionFair
<1>2. Held /\ SearchInv /\ [Next]_vars => SearchInv'
  BY SearchStep DEF Held
<1> QED
  BY HeldAlways, <1>1, <1>2, PTL DEF Spec

\* What a search returns was among the chunks it read, and its vector arm ranked only
\* what the index has under the key of its own embedder, whatever arrives, restarts or
\* embeds meanwhile (retrieve and _vector_ranking).
THEOREM HitsAreSound == Spec => []HitsResolve
<1>1. SearchInv => HitsResolve
  BY DEF SearchInv
<1> QED
  BY <1>1, SearchAlways, PTL

\* The fusion of retrieve never puts a chunk that every able arm ranked better behind
\* one that they ranked worse, for rankings of any length.
THEOREM FusionIsFair == Spec => []FusionFair
<1>1. SearchInv => FusionFair
  BY DEF SearchInv
<1> QED
  BY <1>1, SearchAlways, PTL

=============================================================================
