------------------------------- MODULE Corpus -------------------------------
(***************************************************************************)
(* Documents in, hits out: rag/ingest.py, the vector tables of core/db.py, *)
(* the embedder that rag/embed.py resolves and deps.py caches, and the     *)
(* search of rag/retrieve.py.                                              *)
(*                                                                         *)
(* An upload (on the event loop) and a red-team request (on the thread     *)
(* pool) ingest at the same time over one shared SQLite connection: every  *)
(* SELECT sees what any of them wrote, committed or not, and a commit      *)
(* publishes all of it.  A statement is a step.                            *)
(***************************************************************************)
EXTENDS Fusion

CONSTANTS
    Ingesters,      \* concurrent requests that ingest
    Docs,           \* files, a document's id being the hash of its bytes
    NChunks,        \* into how many chunks a document is cut
    Embedders,      \* the backends that may be available
    Dim,            \* the width of a backend's vectors
    POOL,           \* how many chunks an arm ranks at most
    Unset, None     \* an embedder not yet looked up; no embedder

ASSUME NChunksAssumption == NChunks \in [Docs -> Nat]
ASSUME DimAssumption == Dim \in [Embedders -> Nat]
ASSUME PoolAssumption == POOL \in Nat
ASSUME NoneAssumption ==
    None \notin Ingesters \cup Embedders /\ Unset \notin Embedders \cup {None}

VARIABLES
    db,         \* the tables, as the shared connection sees them
    disk,       \* the tables, as a crash leaves them
    lock,       \* holder of WRITE_LOCK, or None
    keyed,      \* does the table instance hold the signing key
    cached,     \* what the lru_cache of deps.embedder holds
    job,        \* what each ingesting request is doing
    search,     \* what the searching request is doing
    torn        \* history: documents whose text an exception or the key's commit cut

vars == <<db, disk, lock, keyed, cached, job, search, torn>>

Chunks(d) == {d} \X (1..NChunks[d])
Widths == {Dim[e] : e \in Embedders}

EmptyTables ==
    [documents |-> {}, chunks |-> {},       \* and doc_findings with the chunks
     vectors |-> [n \in Widths |-> <<>>],   \* vectors_n: rowid -> the chunk and space embedded
     index |-> {}]                          \* vector_index

Idle == [pc |-> "idle"]
Waiting == [pc |-> "idle"]

AllChunks == UNION {Chunks(d) : d \in Docs}
Located == [chunk : AllChunks, space : Embedders]
IndexRows == [chunk : AllChunks, space : Embedders, rowid : Nat]
Tables ==
    [documents : SUBSET Docs,
     chunks : SUBSET AllChunks,
     vectors : [Widths -> Seq(Located)],
     index : SUBSET IndexRows]
Jobs ==
    [pc : {"idle", "resolving"}]
    \cup [pc : {"look"}, by : Embedders \cup {None}]
    \cup [pc : {"ready", "insert", "text", "table", "vectors"}, doc : Docs,
          by : Embedders \cup {None}, next : Nat \ {0}]

TypeOK ==
    /\ db \in Tables /\ disk \in Tables
    /\ lock \in Ingesters \cup {None}
    /\ keyed \in BOOLEAN /\ torn \subseteq Docs
    /\ cached \in Embedders \cup {None, Unset}
    /\ job \in [Ingesters -> Jobs]
    /\ \A w \in Ingesters : job[w].pc \in {"table", "vectors"} => job[w].by # None

Init ==
    /\ db = EmptyTables /\ disk = EmptyTables
    /\ lock = None
    /\ keyed = FALSE
    /\ cached = Unset
    /\ job = [w \in Ingesters |-> Idle]
    /\ search = Waiting
    /\ torn = {}

-----------------------------------------------------------------------------
(* ingest.                                                                 *)

\* ingest and retrieve take the backend they are handed, and ask get_embedder again when
\* they are handed None.
Given(found) == IF found = None THEN Embedders \cup {None} ELSE {found}

\* deps.embedder(): what the lru_cache holds, None included; at its first use the
\* function runs, in each of the threads that miss.
Request(w) ==
    /\ job[w].pc = "idle"
    /\ \/ /\ cached = Unset
          /\ job' = [job EXCEPT ![w] = [pc |-> "resolving"]]
       \/ /\ cached # Unset
          /\ \E e \in Given(cached) : job' = [job EXCEPT ![w] = [pc |-> "look", by |-> e]]
    /\ UNCHANGED <<db, disk, lock, keyed, cached, search, torn>>

\* get_embedder answered: the first answer is kept in the cache, and each thread goes
\* on with its own.
Resolve(w) ==
    /\ job[w].pc = "resolving"
    /\ \E found \in Embedders \cup {None} :
          /\ cached' = IF cached = Unset THEN found ELSE cached
          /\ \E e \in Given(found) : job' = [job EXCEPT ![w] = [pc |-> "look", by |-> e]]
    /\ UNCHANGED <<db, disk, lock, keyed, search, torn>>

\* A search or a health check is the first to ask.
ResolveElsewhere ==
    /\ cached = Unset
    /\ cached' \in Embedders \cup {None}
    /\ UNCHANGED <<db, disk, lock, keyed, job, search, torn>>

\* Up to the write: the document is known already, or it is extracted, cut and
\* embedded.  An unsupported type or a backend that fails ends the request here, and
\* leaves the tables as they are.
Look(w) ==
    /\ job[w].pc = "look"
    /\ \E d \in Docs :
          job' = [job EXCEPT ![w] =
                IF d \in db.documents THEN Idle
                ELSE [pc |-> "ready", doc |-> d, by |-> job[w].by, next |-> 1]]
    /\ UNCHANGED <<db, disk, lock, keyed, cached, search, torn>>

\* Mutant of TakeLock: no second look inside the lock.
TakeLockBlind(w) ==
    /\ job[w].pc = "ready" /\ lock = None
    /\ lock' = w
    /\ job' = [job EXCEPT ![w].pc = "insert"]
    /\ UNCHANGED <<db, disk, keyed, cached, search, torn>>

\* The lock, and the second look.
TakeLock(w) ==
    /\ job[w].pc = "ready" /\ lock = None
    /\ IF job[w].doc \in db.documents
       THEN job' = [job EXCEPT ![w] = Idle] /\ UNCHANGED lock
       ELSE job' = [job EXCEPT ![w].pc = "insert"] /\ lock' = w
    /\ UNCHANGED <<db, disk, keyed, cached, search, torn>>

\* The row of documents; its primary key refuses a second one, and the exception
\* frees the lock.
InsertDocument(w) ==
    /\ job[w].pc = "insert"
    /\ IF job[w].doc \in db.documents
       THEN /\ job' = [job EXCEPT ![w] = Idle]
            /\ lock' = None
            /\ UNCHANGED db
       ELSE /\ db' = [db EXCEPT !.documents = @ \cup {job[w].doc}]
            /\ job' = [job EXCEPT ![w].pc = "text"]
            /\ UNCHANGED lock
    /\ UNCHANGED <<disk, keyed, cached, search, torn>>

Commit(w, tables) ==
    /\ db' = tables /\ disk' = tables
    /\ lock' = None
    /\ job' = [job EXCEPT ![w] = Idle]

\* Mutant of WriteText: the vector table is ensured, and so all is committed, before
\* the chunks are inserted.
WriteTextLate(w) ==
    LET with == [db EXCEPT !.chunks = @ \cup Chunks(job[w].doc)] IN
    /\ job[w].pc = "text"
    /\ \/ Commit(w, with)
       \/ /\ job[w].by # None /\ NChunks[job[w].doc] > 0
          /\ db' = with /\ disk' = db
          /\ job' = [job EXCEPT ![w].pc = "table"]
          /\ UNCHANGED lock
    /\ UNCHANGED <<keyed, cached, search, torn>>

\* The findings and the chunks; without vectors to store, that is all.  The embedder
\* may have answered with nothing.
WriteText(w) ==
    LET with == [db EXCEPT !.chunks = @ \cup Chunks(job[w].doc)] IN
    /\ job[w].pc = "text"
    /\ \/ Commit(w, with)
       \/ /\ job[w].by # None /\ NChunks[job[w].doc] > 0
          /\ db' = with
          /\ job' = [job EXCEPT ![w].pc = "table"]
          /\ UNCHANGED <<disk, lock>>
    /\ UNCHANGED <<keyed, cached, search, torn>>

\* ensure_vector_table: CREATE TABLE IF NOT EXISTS, and a commit of its own.
EnsureTable(w) ==
    /\ job[w].pc = "table"
    /\ disk' = db
    /\ job' = [job EXCEPT ![w].pc = "vectors"]
    /\ UNCHANGED <<db, lock, keyed, cached, search, torn>>

\* Mutant of WriteVector: the row names the backend that the process has now.
WriteVectorCached(w) ==
    LET j == job[w]
        n == Dim[j.by]
        c == <<j.doc, j.next>>
        key == IF cached \in Embedders THEN cached ELSE j.by
    IN
    /\ j.pc = "vectors" /\ j.next <= NChunks[j.doc]
    /\ db' = [db EXCEPT
                !.vectors[n] = Append(@, [chunk |-> c, space |-> j.by]),
                !.index = @ \cup {[chunk |-> c, space |-> key, rowid |-> Len(db.vectors[n]) + 1]}]
    /\ job' = [job EXCEPT ![w].next = @ + 1]
    /\ UNCHANGED <<disk, lock, keyed, cached, search, torn>>

\* The next vector and its row of vector_index.
WriteVector(w) ==
    LET j == job[w]
        n == Dim[j.by]
        c == <<j.doc, j.next>>
    IN
    /\ j.pc = "vectors" /\ j.next <= NChunks[j.doc]
    /\ db' = [db EXCEPT
                !.vectors[n] = Append(@, [chunk |-> c, space |-> j.by]),
                !.index = @ \cup {[chunk |-> c, space |-> j.by, rowid |-> Len(db.vectors[n]) + 1]}]
    /\ job' = [job EXCEPT ![w].next = @ + 1]
    /\ UNCHANGED <<disk, lock, keyed, cached, search, torn>>

\* The commit that ends a whole ingestion.
Finish(w) ==
    /\ job[w].pc = "vectors" /\ job[w].next > NChunks[job[w].doc]
    /\ Commit(w, db)
    /\ UNCHANGED <<keyed, cached, search, torn>>

\* A statement raises: the exception frees the lock and leaves the transaction open.  A
\* vector of another width is refused by its table, and a backend that returned more or
\* fewer vectors than chunks trips zip(strict=True); between the document's row and its
\* last chunk only the database itself can refuse, and has then taken some of the chunks.
WriteFails(w) ==
    /\ job[w].pc \in {"insert", "text", "table", "vectors"}
    /\ lock' = None
    /\ job' = [job EXCEPT ![w] = Idle]
    /\ \/ UNCHANGED db
       \/ /\ job[w].pc = "text"
          /\ \E m \in 1..(NChunks[job[w].doc] - 1) :
                db' = [db EXCEPT !.chunks = @ \cup ({job[w].doc} \X (1..m))]
    /\ torn' = torn \cup {d \in {job[w].doc} : job[w].pc = "text"}
    /\ UNCHANGED <<disk, keyed, cached, search>>

\* Any other handler saves something under WRITE_LOCK: its commit is everybody's.
CommitElsewhere ==
    /\ lock = None /\ disk # db
    /\ disk' = db
    /\ UNCHANGED <<db, lock, keyed, cached, job, search, torn>>

\* session_key, at the first session of an installation: the key is inserted and
\* committed, and with it what the connection holds, whoever has WRITE_LOCK.
MakeKey ==
    /\ ~keyed
    /\ keyed' = TRUE
    /\ disk' = db
    /\ torn' = torn \cup {job[w].doc : w \in {v \in Ingesters : job[v].pc = "text"}}
    /\ UNCHANGED <<db, lock, cached, job, search>>

\* The process dies and is started again.
Restart ==
    /\ db' = disk /\ UNCHANGED <<disk, keyed>>
    /\ torn' = torn \cap disk.documents
    /\ lock' = None
    /\ cached' = Unset
    /\ job' = [w \in Ingesters |-> Idle]
    /\ search' = Waiting

-----------------------------------------------------------------------------
(* retrieve.                                                               *)

\* _all_chunks, and the chunks that share a token with the query.  A caller with a
\* cached backend hands it over, the memo's calls resolve one of their own.
ReadChunks ==
    /\ search.pc = "idle"
    /\ \E e \in Embedders \cup {None}, matching \in SUBSET db.chunks :
          search' = [pc |-> "chunks", by |-> e, chunks |-> db.chunks, eligible |-> matching,
                     rows |-> {}]
    /\ UNCHANGED <<db, disk, lock, keyed, cached, job, torn>>

\* _bm25_ranking: of the chunks that share a token, the POOL best and of those the ones
\* with a positive score; when there are none, the POOL best by overlap.
Lexical ==
    LET k == IF Cardinality(search.eligible) < POOL THEN Cardinality(search.eligible) ELSE POOL
        cuts == IF k = 0 THEN {0} ELSE 1..k
    IN {SubSeq(order, 1, cut) : order \in SetToSeqs(search.eligible), cut \in cuts}

\* Is the active space among those stored.
SpaceStored == \E r \in db.index : r.space = search.by

\* The vector arm runs, or is passed over for good: the search goes on without a backend.
ReadKeys ==
    /\ search.pc = "chunks"
    /\ search' = IF SpaceStored THEN [search EXCEPT !.pc = "embed"]
                 ELSE [search EXCEPT !.pc = "rows", !.by = None]
    /\ UNCHANGED <<db, disk, lock, keyed, cached, job, torn>>

\* Mutant of OfSpace: the rows of the table are looked up whatever their model_key.
OfAnySpace(e) == {r \in db.index : Dim[r.space] = Dim[e]}

\* The rows of vector_index with the model_key of the embedder.
OfSpace(e) == {r \in db.index : r.space = e}

\* The query is embedded, and the rows of its space are read.
ReadRows ==
    /\ search.pc = "embed"
    /\ search' = [search EXCEPT !.pc = "rows", !.rows = OfSpace(search.by)]
    /\ UNCHANGED <<db, disk, lock, keyed, cached, job, torn>>

\* The backend fails on the query: it is not replaced by another.
QueryFails ==
    /\ search.pc = "embed"
    /\ search' = Waiting
    /\ UNCHANGED <<db, disk, lock, keyed, cached, job, torn>>

\* _vector_ranking: the POOL nearest rows of the width's table, whatever their space,
\* of which those that were read from the index are kept, in some order.
Semantic(e) ==
    LET table == db.vectors[Dim[e]]
        k == IF Len(table) < POOL THEN Len(table) ELSE POOL
        kept(near) == near \cap {r.rowid : r \in search.rows}
        chunk(n) == (CHOOSE r \in search.rows : r.rowid = n).chunk
    IN {[i \in DOMAIN order |-> chunk(order[i])] :
            order \in UNION {SetToSeqs(kept(near)) : near \in kSubset(k, DOMAIN table)}}

\* A chunk that came in after _all_chunks was read is left out.
Known(ranked) == ranked \cap search.chunks

\* The rankings, fused.
Answer ==
    /\ search.pc = "rows"
    /\ \E lexical \in Lexical :
       \E semantic \in IF search.by = None THEN {<<>>} ELSE Semantic(search.by) :
          LET ranked == Known(Ranked(lexical) \cup Ranked(semantic))
              score == [c \in ranked |-> Fused(c, lexical, semantic, search.eligible, search.by # None)]
          IN \E order \in FusedOrders(ranked, score) :
                search' = [pc |-> "hits", by |-> search.by, eligible |-> search.eligible,
                           hits |-> order, lexical |-> lexical, semantic |-> semantic]
    /\ UNCHANGED <<db, disk, lock, keyed, cached, job, torn>>

\* The hits are returned.
Told ==
    /\ search.pc = "hits"
    /\ search' = Waiting
    /\ UNCHANGED <<db, disk, lock, keyed, cached, job, torn>>

-----------------------------------------------------------------------------

Ingest(w) ==
    \/ Request(w) \/ Resolve(w) \/ Look(w) \/ TakeLock(w) \/ InsertDocument(w) \/ WriteText(w) \/ EnsureTable(w)
    \/ WriteVector(w) \/ Finish(w) \/ WriteFails(w)

Next ==
    \/ \E w \in Ingesters : Ingest(w)
    \/ ResolveElsewhere \/ CommitElsewhere \/ MakeKey \/ Restart
    \/ ReadChunks \/ ReadKeys \/ ReadRows \/ QueryFails \/ Answer \/ Told

Spec == Init /\ [][Next]_vars

-----------------------------------------------------------------------------

\* A document that a crash leaves behind has all its chunks: it stays searchable
\* whatever happened to its vectors (ingest.py: "The document is still ingested,
\* chunked and searchable"), although one commit comes in the middle of ingest.  Only
\* the documents are left out of which an INSERT raised between the row and the last
\* chunk, or which the commit of session_key met there.
TextWhole == \A d \in disk.documents \ torn : Chunks(d) \subseteq disk.chunks

\* Two requests that ingest the same bytes never collide on a primary key: whoever is
\* about to insert a document finds no row of it, although both passed the first look
\* (ingest.py: "two uploads of the same file can race").
NoClash == \A w \in Ingesters : job[w].pc = "insert" => job[w].doc \notin db.documents

\* What a search returns is found in the tables, and what its vector arm ranked was embedded
\* in the space of the query (retrieve.py: "REFUSING TO MIX SPACES"), also when two
\* models of one width share a table and documents arrive during the search.
HitsResolve ==
    search.pc = "hits" =>
        /\ Ranked(search.hits) \subseteq db.chunks
        /\ \A c \in Ranked(search.semantic) :
              [chunk |-> c, space |-> search.by] \in
                  {[chunk |-> r.chunk, space |-> r.space] : r \in db.index}
        /\ search.by = None => search.semantic = <<>>

\* A hit that every arm which ranked it puts above another one comes first, and a
\* chunk that shares no word with the query is not held back by that (retrieve.py,
\* "WHY THE FUSION IS NORMALISED BY ELIGIBLE ARMS").
FusionFair ==
    search.pc = "hits" =>
        LET RanksOf(c) ==
                {Weight(arm, c) : arm \in {a \in {search.lexical, search.semantic} : c \in Ranked(a)}}
            Unheard(c) == \/ c \in search.eligible \ Ranked(search.lexical)
                          \/ search.by # None /\ c \notin Ranked(search.semantic)
        IN \A i, j \in DOMAIN search.hits :
              (/\ ~Unheard(search.hits[i])
               /\ \A p \in RanksOf(search.hits[i]), q \in RanksOf(search.hits[j]) : p < q)
              => i < j

\* What vector_index points to is the vector of that chunk, made by the backend that the
\* row names, and a document's vectors are all of one space, one for each chunk: nobody
\* is half in one space and half in another (embed.py, "WHY THIS CHAIN RESOLVES ONCE"),
\* although two requests may hold different backends and each restart finds one anew.
OneSpaceEach ==
    \A r \in db.index :
        LET table == db.vectors[Dim[r.space]] IN
        /\ r.rowid \in DOMAIN table
        /\ table[r.rowid] = [chunk |-> r.chunk, space |-> r.space]
        /\ \A s \in db.index : s.chunk[1] = r.chunk[1] =>
              s.space = r.space /\ (s.chunk = r.chunk => s = r)

\* ingest.py: "The lock covers only the writes, so a document is never half-ingested":
\* a crash in the middle of writing a document leaves nothing of it, session_key's
\* commit apart.
NeverHalfIngested ==
    \A w \in Ingesters :
        job[w].pc \in {"text", "table", "vectors"} =>
            job[w].doc \notin disk.documents \ torn

=============================================================================
