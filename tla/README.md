# Verification of COUNSEL

COUNSEL is a boardroom of five AI seats that argue a decision in rounds, on a
record that is signed turn by turn. This directory holds TLA+ modules of the
parts of it whose correctness depends on the order in which things happen, the
TLC configurations that check them on small instances, and theorems that TLAPS
proves for every instance.

Paths below are relative to the root of the repository; "the API" is
`services/api`.

## Inventory

| Component | State | Operations | Interacts with | What makes it hard | What makes it correct |
|---|---|---|---|---|---|
| Session requests (`routers/sessions.py`) | a `Session` object per request, nothing shared | open, interject, advance, close, round stream, reads | store, facilitator, auditor | sync handlers run on a thread pool, the round is a coroutine that awaits for half a minute between loading and saving; clients leave mid-stream | whatever overlaps, what a client was shown is the record, and a closed session is closed |
| Session store (`crew/store.py`, `core/db.py`) | tables `sessions`, `turns`, `turn_flags`, `artefacts`, `evidence`; one shared SQLite connection and `WRITE_LOCK` | save and load of each | every handler | one connection means one transaction for everybody; `INSERT OR IGNORE` hides collisions; whole-row upserts | transactions do not mix, the record is append-only and chained |
| Facilitator (`crew/facilitator.py`) | none of its own | open, run_round, interject, advance, close | provider chain, transcript, kill switch | five seats answer concurrently, any may raise | turns are signed in seating order, a round is whole or absent |
| Signed transcript (`crew/transcript.py`) | turns in memory, the installation's key | append, adopt, verify | store | numbering and chaining rely on the list adopted from the table being current | `verify` reports an edit, and only an edit |
| Auditor (`crew/auditor.py`) | none | audit | round stream, `turn_flags` | runs while the stream runs, its findings are stored at the end | every turn is audited, findings stand beside the words that caused them |
| Kill switch (`core/killswitch.py`, `routers/admin.py`) | one flag in process memory | engage, release, check | facilitator, provider chain | read once at the head of an operation that takes a minute; lost by a restart | nothing starts while it is engaged |
| Provider chain (`core/llm.py`, `crew/stubs.py`, `deps.py`) | the list of providers | complete, structured | quota, kill switch, five threads at a time | providers fail in any way; quota is spent before the call | an answer from the first provider that can give one |
| Quota (`core/quota.py`) | counters in memory and in table `quotas`, on a second connection | consume, reset | provider chain, `WRITE_LOCK` | shared by five threads, must survive a restart | no provider is asked more often than its limit |
| Ingestion (`rag/ingest.py`, `routers/documents.py`) | tables `documents`, `chunks`, `vector_index`, `doc_findings`, `vectors_N` | ingest, plan_chunks | embedders, the shared connection | two uploads of one file; a commit in the middle of the transaction; no rollback; boundaries of spans | a document on the disk has its text; chunks cover it |
| Embedders and retrieval (`rag/embed.py`, `rag/retrieve.py`, `deps.py`) | the cached embedder | resolve, retrieve | tables of vectors | the embedder of today is not the one of yesterday; documents arrive during a search; two arms rank different sets | a query reaches only vectors of its own space; the fusion is fair to both arms |
| Citations, untrusted content (`rag/citations.py`, `rag/untrusted.py`) | none | resolve, wrap, scan | memo, prompts | findings and chunks arrive one after the other | no claim rests on a flagged passage |
| Decision stages (`routers/decisions.py`, `crew/stages.py`) | `artefacts`, `evidence`, `predictions`; a queue per stream | framings, ideas, scores, memo, evidence | provider chain, ledger | items cross from pool threads to the event loop; one seat of five fails; several saves per request | what is stored is whole and in seating order; done means stored and shown; a stream ends |
| Counterfactual (`crew/counterfactual.py`) | none | flips, robustness, sensitivity | aggregate | ties, options nobody scores any more | a flip names evidence whose removal changes the winner |
| Memo (`crew/memo.py`) | none | build_memo, attach_dissents | citations, provider chain | claims that cite what does not resolve; sentences drafted twice | no uncited claim in the body, and none lost |
| Outcome ledger (`crew/ledger.py`) | `predictions`, `outcomes` | record_prediction, record_outcome, brier | decision stages | a prediction recorded again later; crashes between predictions | what is counted was said |
| Search chain (`core/search.py`, `routers/research.py`) | `last_degraded_from` | search | network | shared by all requests | the reasons told belong to the search made |
| Chamber (`crew/chamber.py`) | none | chamber_state | stored turns | rounds that a crash left uncounted | the replay has no gap |
| Mandates, tool grants, access control, configuration, security page, reports, web client, scripts | static tables or none | reads and rendering | | | not modelled, see the end |

## The modules

| Module | Models | Checked by | Proofs |
|---|---|---|---|
| `Boardroom` | the handlers of `routers/sessions.py`, the Facilitator they call, the tables `sessions`, `turns` and `turn_flags`, `WRITE_LOCK`, the Auditor's findings, the kill switch, crashes | `MCBoardroom` | `BoardroomProofs` |
| `SignedRecord` | what is promised of the record: an append-only chain of turns, shown only once stored, in which no seat argues after the close | through `BoardroomRecord` | `BoardroomProofs` |
| `BoardroomRecord` | the refinement mapping from `Boardroom` to `SignedRecord` | `MCBoardroom` | `BoardroomProofs` |
| `TranscriptAudit` | what is computed from a stored transcript: `Transcript.verify`, `Facilitator._history`, the rounds of the chamber; extends `Boardroom` and is evaluated on every record it reaches | `MCBoardroom` | `TranscriptAuditProofs` |
| `ProviderChain` | `LLMChain.complete` and `structured`, `Quota.consume` and the table `quotas`, the cached objects of `deps.py`, the kill switch, other handlers' transactions, crashes | `MCProviderChain` | `ProviderChainProofs` |
| `Verdict` | `stages.aggregate` and `crew/counterfactual.py` over the tables that `/scores` and `/evidence` fill | `MCVerdict` | `VerdictProofs` |
| `Fusion` | the rank fusion of `rag/retrieve.py` | through `Corpus` | |
| `Corpus` | `rag/ingest.py`, `core/db.ensure_vector_table`, the embedder of `rag/embed.py` and its cache in `deps.py`, `rag/retrieve.py`; extends `Fusion` | `MCCorpus` | `CorpusProofs` |
| `Chunking` | `plan_chunks` of `rag/ingest.py` | through `Memo` | `MemoProofs` |
| `Memo` | `crew/memo.py`, the gate of `rag/citations.py`, the rows of a document as they arrive; extends `Chunking` | `MCMemo` | `MemoProofs` |
| `Stages` | the fan-outs of `crew/stages.py`, `Progressive` and the handlers of the stages in `routers/decisions.py`, `save_artefacts`, `crew/ledger.py` | `MCStages` | `StagesProofs` |
| `WebSearch` | `core/search.py` and `routers/research.py` | `MCWebSearch` | `WebSearchProofs` |

The eight `...Proofs` modules hold theorems about the module they extend. Operators
whose name says how they deviate (`SignFromTail`, `WriteTextLate`), each under a
comment "Mutant of", are plausible wrong versions of the definition that follows
them; no specification uses them. They are there to check that a property
notices: put in the place of the definition, each makes the property named in
`PROJECT.json` fail.

### How `Boardroom` corresponds to the code

*State.* `row`, `turns` and `flags` are the three tables, for one session;
`turns` maps an ordinal to a turn. `txn` holds the ordinals that the open
transaction of the shared connection inserted, `left` the findings in it, and `lock` the
holder of `WRITE_LOCK` while a batch is under way. `engaged` is the kill switch. `loc[w]`
is the private memory of handler `w`: its phase, the `Session` object it loaded
(`row`), the length and last signature of the transcript it adopted (`base`,
`tail`), the ordinal it counted (`ord`), the turns it signed (`new`), and how
many of those it saved or streamed (`at`). `signed` and `acked` are history:
the signatures made, and those that clients were shown as recorded turns.

*Actions.* One per step that another handler can come between: the SELECT of
the row, the SELECT of the turns, the `COUNT(*)`, the check of the kill switch,
the work of the Facilitator in memory, every row of a batch, the commit with the
last row, every frame of the stream. `Open`, `Interject`, `Advance` and `Close`
are the synchronous handlers, `BeginRound` and `EndRound` are `run_round` before
and after the seats answer, `FailRound` is an exception out of a seat or a
client that left the stream, `Crash` is a restart of the process. `Commit` publishes
whatever the transaction holds, whoever put it there. `SaveFlags` can fail:
a finding about a turn that was dropped violates the foreign key, `executemany` raises,
and what it inserted before stays in the transaction (`left`) with nobody to roll back,
until the next handler's commit or a crash. That takes overlapping requests
and a rule that trips on two seats, which the instance of `concurrent` has.
`TransactionIsHolders` says what does hold of turns and findings.

*Threads and the event loop.* Synchronous handlers run on FastAPI's thread
pool and interleave freely. A round is a coroutine: between two awaits no other
coroutine runs, which is the guard `LoopFree`; threads run on. `run_round`
itself is on a thread.

*Abstractions.* A signature is a fresh number and stands for everything it
covers (wording, provider, time). `turn_id` is its number within the session.
A text is one of what it is: opening, stage, closing, interjection, argument.
A rule of the Auditor trips for the seats in the constant `Tripping`. The
history handed to a seat is not modelled. One session: requests for different
sessions share only the lock and the transaction.

### How `ProviderChain` corresponds to the code

*State.* `used[q]` is `Quota._used` of a Quota object, `qlock[q]` the holder of its
lock, `stored` the table `quotas`. `quota` and `llm` are what `lru_cache` holds
for `deps.quota()` and `deps.llm()`; of an `LLMChain` only its Quota object
matters. `shared` is the transaction of the connection that all other handlers
share: none, held by one under `WRITE_LOCK`, or abandoned by one that raised
before its commit (`ingest` does, and so does a save that a constraint
refuses). `loc[c]` is the private memory of a thread in `complete` or `structured`:
its Quota object, its place in the loop (`at`), why providers were passed over
(`why`), attempts of `structured` so far, and whether its last call found nobody
(`nobody`). The rest is history: `granted` counts the requests `consume` said yes to,
`forfeit` those it counted before it raised, `late` remembers the providers a call has
asked since the switch was engaged, and `raced` that a second Quota object was made in
one life of the process.

*Actions.* The first use of the cached objects is three steps (`GetChain`,
`BuildQuota`, `WireChain`), since `lru_cache` lets every thread that misses run the
function and keeps the first result; so two first users may each have a Quota object of
their own. What then still holds is that each object keeps its own limit
(`LockedUntilWritten`), and that nobody is refused what is left (`SpentWhenRefused`); what does not is that
the table counts every request (`quota_race`), which `BudgetHolds` promises until the
race has happened. `consume` is two: the count in memory
(`Spend`), then, still under the Quota's lock, the row under `WRITE_LOCK`
(`Write`), or the error of a database that is locked (`WriteFails`). SQLite
has one writer; the abandoned transaction keeps the quota's own connection out
until somebody commits it. So `complete` can raise although every provider could answer, with
the request already counted in memory, against its comment at `core/llm.py:393`
("total with respect to provider failure"); `forfeit` counts such requests. A
provider answers, fails, or answers something
`structured` refuses. `available()` is a probe that reads nothing shared, so
it is part of the step after it.

*Abstractions.* The stub is always available, never fails, and always
answers `structured` with a valid object, as `phase_c_stub` does. A retry's prompt
is not modelled. Seats of one request share the chain that the request got;
here each caller gets it for itself, which adds behaviours and loses none.
`late` and the kill switch: `complete` reads the switch once, before its loop, so
requests of a call under way still go out; what holds is that it ends with
this pass through the chain. The warm-up request of `main.py` asks a provider
directly, past the switch and the budgets, and is left out.

### How `TranscriptAudit` corresponds to the code

It has no state. `Broken` is `verify`, whose `expected_prev` after each turn is
`Expected`, a recursive function; `None`, once the chain is broken, is no signature. A turn's own signature is `Genuine` when the turn is among
those that were signed, which is all that an HMAC says. `TamperEvident` edits a
record the way somebody with the database would: another text, another speaker, a
row removed, two rows swapped. `History` is `_history`: the turns of round 0
and the summary (`Brief`) clipped, the recent ones in full. `_history` runs in
`run_round`, on the transcript the request loaded; with one request at a time that
is the stored one. `ChamberRounds` are the rounds of `chamber_state`.

### How `Verdict` corresponds to the code

`scores` grows as `collect_scores` puts one option after another to every
seat, and counts as stored once none is left; `evidence` is filled by `POST
/evidence` at any time. The instance makes every table of scores there is, so
the algorithms are evaluated on all of them. `Ranking` keeps the dict's order of first
insertion and the stability of the sort, which is what a missing tie-break would
let through; `Arranged` is Python's `sorted`, by the number of elements that come before.
`OrderIndependent` compares every permutation of the seats and of each seat's list
(`Reorderings`). A request may name an option twice, and the instance does. A score is its sum of three axes, a confidence in ten-thousandths,
and the evidence it cites. The share of grounded points in the answer of
`/counterfactual` is left out.

`aggregate` adds floats in the order of the dict and rounds their mean to four decimals.
`pyproject.toml:5` asks for Python 3.13, whose `sum` carries along what each addition loses, so that
the sum of confidences is the exact sum rounded once and does not depend on their
order. What a float still decides is the side on which a mean falls that is exactly
halfway between two decimals. `HalvesUp` names the sums and counts for which it is the upper
side: the theorems hold for every such set, and the instance takes the one that Python has
for its confidences (0.5005 and 0.5006, two or four of them).

### How `Corpus` corresponds to the code

*State.* `db` is the tables as the shared connection sees them, `disk` as a
crash would leave them; every commit, whoever makes it, copies all of one to the
other. `lock` is `WRITE_LOCK`, `keyed` whether the installation has its signing key, `cached`
what `lru_cache` holds for `deps.embedder()`. `job[w]` is the request that ingests: its
document, its backend, the next vector. `search` is a request that retrieves, from one
of its reads to the next. `torn` is history: the documents of which an exception, or the
commit of the signing key, came between the row and the last chunk.

*Actions.* The first use of `deps.embedder()` is two steps, `Request` and `Resolve`, since
`lru_cache` lets every thread that misses run the function: the first answer is kept, and each
thread goes on with its own. `ResolveElsewhere` is a first use by a search or a health
check. `Look` is everything else before the lock; extraction, cutting and
embedding touch no table. Then a statement is a step: the second look
(`TakeLock`), the row of `documents`, findings and chunks (`WriteText`),
`ensure_vector_table` with its commit (`EnsureTable`), every vector with its row of
`vector_index`, the last commit. An exception at any of them (`WriteFails`) frees the lock and leaves
the transaction open. `CommitElsewhere` is any other handler's commit of it, under the lock;
`MakeKey` is the commit of `session_key`, which does not take the lock, at the first session
of an installation. `retrieve` is a step per read: the chunks (`ReadChunks`), the
keys that are stored (`ReadKeys`), the rows of the embedder's space (`ReadRows`, unless the
backend fails on the query, `QueryFails`), and the nearest vectors with the fusion (`Answer`).
Documents arrive in between.

*Where a statement raises.* The code's own reasons for one are at the
row of the document (the primary key, a text the driver cannot encode) and at the vectors
(another width, another number of vectors than chunks). Between the document's row and its last
chunk only the database itself can refuse, by an error of the disk for
example, and may have taken some of the chunks. `WriteFails` is all of these. A document
that was cut between its row and its last chunk is published by the next commit; `TextWhole` leaves it
out by name (`torn`), and speaks of all others, those among them that were ingested
before, beside or after.

*Abstractions.* The findings of a document go in with its chunks (`Memo` takes
them apart). An embedder may answer with nothing. `Lexical` and `Semantic` are any
ranking of at most `POOL`, the former also any shorter cut of it, since only positive
scores count; tokens, BM25 and distances are arithmetic on the data.
Hits are not cut to the requested number, since the cut is a prefix of what is checked.

### How `Memo` and `Chunking` correspond to the code

A text is a sequence of characters of three kinds: part of a break between
paragraphs, white space after the end of a sentence, anything else.
`PlanChunks` is `plan_chunks`: paragraphs whole if they fit, otherwise sentences
accumulated up to the budget, otherwise cuts. Its loops are recursive functions:
`Spans` reads a text character by character, `ParagraphChunks` goes through the sentences
and `PlanChunks` through the paragraphs; the `while` that cuts is one operator (`Cut`), the number of cuts
being what the budget divides (`Cuts`). `IsText` says what the two patterns can make of a
text: white space ends a sentence only after a character of one. In `Memo`, `rows` says which of a document's
inserts are in; the memo's handler reads on the same connection and sees them at
once. One passage of the text may be flagged. A sentence of the draft is a name; which
chunks share a phrase with it is any choice (`Ground`), because any sentence may
be drafted. `Bucket` and `Judge` are the body of the loop in `build_memo`, `Gate`
is `require_citations`, `Rendered` the sections of `render_markdown`. A failed dissent, or
a client that leaves the stream, discards the memo. Whether the corpus is empty
is read at the start, apart from grounding: a memo may carry cited claims under
the note that there are no documents, and both were true of the moment they were read.

### How `Stages` corresponds to the code

*State.* `kind[r]` is what a request is for; it never changes. `fan[r]` is the
thread of a request that waits for the seats (`_fan_out` in a collector): the question
(of a scoring the option), the seats that have not answered, what was collected, and the
queue to the event loop. `side[r]` is the coroutine of `Progressive` with the generator
around it or, of a synchronous request, the handler that called the collector. `loop` is
whose code holds the event loop between two awaits. `artefact` has a row of each kind,
`predicted` and `outcome` are the tables of the ledger, `stored` a history of what was stored.

*Actions.* `Questions` is what the collector of a kind puts to every seat: each option,
or one question. `Ask` is a request to frame, ideate or score; `DraftMemo` one for a
memo, refused while there are no scores, whose seats are asked (`Drafted`) once the
memo was built. `Answer` and `Raise` are the futures in the order in which they are
done; after the first exception answers are no longer looked at. `FanEnds` is
`work`'s `finally`, which puts the end marker whatever happened. `Deliver` sends a frame,
`Join` reads the marker and awaits the thread, after which the generator saves
without an await in between. `Save` and every `Predict` are transactions of their own.
`Leave` is a client that goes away while the seats are asked, and `Done` has one that leaves
at the last two frames, when all is stored. `Restart` is the death of the process.

A client may name an option twice (`routers/decisions.py:120` does not look): the seats
are asked twice, and the predictions overwrite each other. So questions are told apart by
their place in the list, and the ledger by the name at that place (`Alphabet` in the instance).

*Abstractions.* One session. Ideas are collected as framings are,
by the same functions, so the instance has one of the two; what a memo says is `Memo`.
Of `calibration` the model has the rows it counts, not the Brier sums.

### How `WebSearch` corresponds to the code

`call[c]` is a request: the tier it tries, why others were passed over, its results,
and what it told its client. `lastDegraded` is `SearchChain.last_degraded_from`, one field
for all requests, assigned once per search and read by the endpoint after the
search. `ResultsOf` and `Obstacles` say what each tier can return and what can stand in
its way (a link that is no URL makes the tier of the user's pages raise); `Keyless` merges three
sources. `answers[c]` is history: the reasons of every search that answered since `c`'s did, its
own included. A response tells one of those (`ToldOfOneSearch`), though not always its
own.

### What holds only while requests do not overlap

Nothing in the code serialises two requests for one session. The properties of
the record are therefore checked with one handler, that is, for requests that do
not overlap, where they hold through crashes, lost connections and the kill
switch, and are proved for any number of handlers of which one is at work at a time; with two at work, TLC finds them violated. `overlap_chain` is one such run. Giving its
configuration the name of another property shows the same cause (`INSERT OR IGNORE` drops
a turn whose ordinal or `turn_id` another request took meanwhile, after it was
streamed as signed, and its findings are filed beside the turn that took its
place), and with `ClosedIsFinal` that a request which loaded the session before
another closed it writes the row back open. What holds however requests overlap is that
the turns of two transactions do not mix, that the record is append-only, that requests end and that
the lock is given back.

### What the models show and no property forbids

Each of these is reachable in the module named, and is stated here because a
comment or a document reads otherwise or because a reader would not expect it.

- `Boardroom`: a client that leaves between two frames drops the handler after
  the turns are stored and before their findings are, so the rules of the Auditor never
  reach the record of those turns (`docs/crew.md:126` says they run on every turn).
- `Boardroom`: close commits the closing turn and then the row; a crash in
  between leaves a closing turn in a session that is open and may argue on.
- `ProviderChain`: `structured` raises after two malformed replies of the first
  provider that answers, although others could answer
  (`core/llm.py:461` speaks of exhausting the chain).
- `ProviderChain`: `complete` reads the switch once, before its loop, so a
  request can go out after the switch was engaged; what holds is `OnceThroughAtMost`.
- `Stages`: a second scoring overwrites the confidence of a prediction, also
  after the outcome is known (`core/db.py:135-137` says the opposite); what holds is
  that whatever is counted was said by that seat and stored (`RowsAreEarned`).
- `Corpus`: the first look of `ingest` reads the uncommitted row of another
  upload and answers with the chunks inserted so far, possibly none.
- `Corpus`: the vector arm takes the nearest rows of a width before it drops
  those of other spaces, so old vectors can crowd out every hit of the active space.
- `Boardroom`: when overlapping requests dropped a turn that was streamed, the foreign key
  refuses a finding about it and `executemany` raises; the findings before it stay
  in the shared transaction while nobody holds `WRITE_LOCK`, until the next handler's
  commit (`crew/store.py:75`; `core/db.py:30-33` says the lock is held around every write,
  lest transactions commit each other's work).
- `TranscriptAudit`: `run_round` counts the round before it calls `_history`, so one round
  fewer than `HISTORY_ROUNDS` is given in full, and with `HISTORY_ROUNDS` 1 the round that the seats
  answer reaches them clipped (`crew/facilitator.py:211`, against lines 203-204). What holds is that it reaches
  them (`LastArgumentsReach`).
- `ProviderChain`: two first users of `deps.quota()` count with an object each, and the
  table then says fewer requests than were made (`quota_race`).
- `Corpus`: two first users of `deps.embedder()` each resolve a backend, and the
  one that is not kept in the cache is written with by its user: one process, two spaces (`deps.py:95`;
  `rag/embed.py:33` says a backend is kept). What holds is `OneSpaceEach`.
- `Corpus`: the commit of `session_key`, at the first session of an installation and outside
  `WRITE_LOCK` (`crew/transcript.py:118`), can publish the row of a document without its chunks; a crash
  leaves it so, and later uploads of the file return early (`rag/ingest.py:173`).
- `Corpus`: an error of the database at the inserts of findings or chunks
  (`rag/ingest.py:223-235`) leaves the document's row in the open transaction, to be published
  without its text.
- `WebSearch`: `search_endpoint` reads the reasons after `search` returned
  (`routers/research.py:58`); when two searches overlap, a response can carry the reasons of
  the other beside its own `served_by`.
- `Boardroom` lets others commit only under the lock: the one commit outside it, that of `session_key`,
  comes before the first turn of an installation is signed. `Corpus` has it.

## The runs

| Run | Question | Instance | Result |
|---|---|---|---|
| `serial` | Is the record chained, whole, never behind what was shown or claimed, and tamper evident; are seats told what was last argued; do handlers and store implement `SignedRecord`, when requests do not overlap? | 1 handler, 2 seats, 1 stage, at most 6 signatures before the last request starts | holds |
| `concurrent` | Are transactions kept apart, is the record append-only, does every request end and is the lock given back, in every interleaving? | 2 handlers, 3 seats with a rule that trips on 2, 3 signatures, `FairSpec` | holds, 363 thousand states |
| `chain_budget` | Do the budgets hold through restarts, failed writes and retries, does every Quota object keep its limit and its lock, is nobody refused what a budget still holds, does the switch stop what is under way, and does every call end? | 2 callers, 2 Quota objects, 2 providers, 2 calls, `FairSpec` | holds, 266 thousand states |
| `verdict` | Is the ranking independent of the order of the seats and of their lists, and does the counterfactual name what it should? | 2 seats, 2 options of which one may be named twice, 2 pieces of evidence, totals and confidences that tie and differ, means that are exact halves | holds, 334 thousand states |
| `corpus` | Does a document keep its text, is it inserted once, and are searches right while documents arrive from different backends? | 2 requests that ingest and 1 that searches, 2 documents of 2 and 1 chunks, 2 backends of one width, errors at every statement, no signing key yet | holds, 3.65 million states up to symmetry |
| `stages` | Is what is stored whole, does done mean done, is the calibration earned, and does a stream end? | a stream and a synchronous request, each of any of 3 kinds, 2 seats, 2 options, `FairSpec` | holds, 454 thousand states |
| `memo` | Do chunks cover a text, does a planted passage reach a claim, is a sentence lost? | every text of up to 5 characters, one passage flagged anywhere, 2 drafts, 2 hits | holds, 1.1 million states |
| `search` | Does a response tell the reasons of one search, whole, and are results sound? | 2 requests, 4 tiers, limit 2, 2 sources, 3 answers heard | holds |
| `overlap_chain` | Does the chain survive overlapping requests? | 2 handlers | violated: finding |
| `quota_race` | Is the count of requests in the table exact? | as `chain_budget` | violated: finding |
| `single_source` | Is a preference that "does not hang on any one source" safe from the removal of one? | as `verdict` | violated: finding |
| `corpus_half` | Does a crash in the middle of writing a document leave nothing of it? | as `corpus` | violated: finding |

*Bounds.* `MaxSigned` bounds the signatures made before the last request may
start; a round that starts just below it adds one per seat. Six signatures give an
opening turn, two rounds of two seats, and a further request on each side of a
crash: every kind of request after every other one, and after a crash in each of
its phases. Two seats are enough to make a batch that a crash or another
handler can split, and to tell seating order from its reverse. Two handlers are enough
for the interleavings of interest, since every collision in the store is
between two batches; three signatures let one handler store a round while the other
saves beside it. `Tripping` holds one seat of two, so that a finding on
the wrong turn can be told from one on the right turn; in `concurrent`, two seats of three,
so that one finding can be inserted and the next refused. `HISTORY_ROUNDS` 1 and
`SUMMARY_TURNS` 2 make a window that the third round leaves, and a summary that
is full (`serial`).

For the chain, `MaxCalls` bounds the calls made over all restarts, of which any
number may happen; a call of `structured` makes up to two requests. Limits of two
and one let the budget of the first provider run out between two calls and a restart, and
the stub's within them, so that a call ends with no provider left; the code's million is
only a larger number. Two Quota objects are all that two callers can build
at once.

For the corpus, two documents of different length tell a chunk from a document, two
backends of one width share a table, and `POOL` 2 is less than the chunks there are, so
that an arm is cut off. Two requests that write race for the lock, for one document and for the
first use of the embedder, beside one that reads. The two and the two backends are each
alike, so TLC checks one state of every symmetric set (`Alike`; the run has no liveness
property, which symmetry could hide). Five characters make every shape of `plan_chunks` with a budget
of 2: two paragraphs, two sentences in one, a sentence that is cut. Two drafts repeat a
sentence within a list and across lists. Confidences 6 and 9 of one request and 7 of
the other put a later scoring between two earlier ones. Two requests on one chain
are enough to mix what they publish; `MaxHeard` bounds how many searches answer between one's
answer and its response, which is when another search can be taken for it.

*Fairness.* `Boardroom`'s `FairSpec` asks that a handler that started runs on (weak fairness
of `Handle`), because the thread pool and the event loop run what is ready, and
that one that waits for `WRITE_LOCK` or for the event loop gets it in the end
(strong fairness of `Save`): other handlers take and give back the lock, so it is free
only now and then. No fairness is assumed of clients, of the kill switch, or of crashes.
`ProviderChain`'s `FairSpec` is the same for its threads and their two locks; it also
asks that another handler's transaction ends, by a commit or an error. `Stages`'s
`FairSpec` asks that a seat ends (model calls have timeouts and the chain a stub) and
the thread runs on, weakly, and that a coroutine that polls its queue gets the
loop in the end, strongly, since others hold it now and then. The other
specifications state safety only and need none.

## What is proved

`BoardroomProofs` proves, for any set of handlers, any seating, any set of
stages and any bound, assuming only that seats are named by strings other than
those of the Chair and the Facilitator, no two by the same (`SeatingAssumption`), that `None` is
neither a handler nor a row (`NoneAssumption`) and that the bound is a number
(`BoundAssumption`):

- `TypeCorrect`: `Spec => [](TypeOK /\ RequestOK)`. `TypeOK` is not inductive: a
  handler that was refused its Session object would write `None` to the table,
  and advance and close slice the transcript at a counted ordinal, which must
  not be less than the length that was loaded. `RequestOK` adds that a handler
  at work has a Session object, and that it did not count fewer turns than it
  loaded; the latter holds because rows only go away in a crash, which takes the
  handlers with it.
- `RecordAppendOnly`: `Spec => AppendOnly`. By `TypeCorrect`, since a step
  leaves the turns alone, inserts one where there is none, or drops the rows of
  the open transaction.
- `TransactionSafety`: `Spec => []TransactionIsHolders`: a commit publishes whatever
  the shared connection's transaction holds, so it must hold nothing of a batch
  that is not through; and no finding, left or committed, is about a turn that a crash could
take back. The strengthening is `HolderInv`: the holder of the lock
  is in the middle of a batch (`HolderSaves`; without it a holder might go on to
  sign other turns), and no two handlers ever hold the same signature, nor one
  that is newer than the counter (`SigsFresh`; without it one's committed row
  might be another's unsaved one). `HolderIsSaving` and `HandlersSane` state
  `HolderSaves` and `RequestOK` by themselves.

The second part of `BoardroomProofs` proves what holds of the record while requests do
not overlap, under the same assumptions and the hypothesis `[]OneAtATime`: in no state is
more than one handler at work. The hypothesis cannot be dropped, since `overlap_chain` and its
like refute every one of these formulas; it is a condition on clients, and `SingleHandler` makes it a theorem
where there is one handler, which is the instance TLC checks.

- `ChainStaysIntact`, `ShownStaysStored`, `RowStaysBehindRecord`, `RoundsStoredWhole`,
  `FlagsStayTruthful`: `Spec /\ []OneAtATime => []P` for `ChainIntact`, `ShownIsStored`,
  `RowBehindRecord`, `RoundsWhole` and `FlagsTruthful`. None is inductive: what a batch
  stores depends on what the handler read several steps before. The
  invariant `SerialInv` has the store's part, `StoreOK` (the five, and that
  ordinals have no gap and every turn carries the signature before it), and for every handler
  what its phase says of the tables (`Phase`): from the load on, its transcript
  is the table's (`Reads`, `Listens`); while it saves, the rows it
  inserted are the tail of the table and all that is in the transaction
  (`SavesTurns`); when it writes the row, the batch is stored (`SavesSession`);
  while it streams, what it is about to show is (`Streams`). A crash
  cuts the tail of a batch, which is why the transaction must be known to be that
  tail (`TxnOfBatch`).
- `ClosedStaysFinal`: `Spec /\ []OneAtATime => ClosedIsFinal`, since the row a handler writes
  back is the one in the table but for its own change.
- `StoreKeepsRecord`: `Spec /\ []OneAtATime => KeepsRecord`, the refinement of
  `SignedRecord`: initial states map to initial states, and every action to the abstract step it is (a
  commit appends, a frame shows, a close closes, a crash before the commit does
  nothing) or to a stutter.

`TranscriptAuditProofs` goes on from there to what is computed from the record:

- `EditsAreEvident`: `Spec /\ []OneAtATime => []TamperEvident`, for records of any
  length. The library's induction theorems cannot be used here (the provers do not
  instantiate their operator parameter), so `Expected`, a recursive function, is
  replaced by a closed form: after a turn the loop expects its signature if every
  turn so far passes, and nothing otherwise. Two functions that satisfy the recursion are
  equal, or there would be a least place where they differ (`ExpectedIs`). From the
  closed form `verify` reports the turns from the first that does not pass
  (`BrokenBehind`), and `Retouched`, `Removed` and `Swapped` show which that is for each
  edit. That needs signatures that do not repeat along the record, or a
  swapped turn might pass in another's place: `AuditInv` adds to `SerialInv` that they
  rise (`Rises`) and that those in a handler's memory are newer (`Newer`).
- `ChamberStaysComplete`: `Spec /\ []OneAtATime => []ChamberComplete`, by the other half of
  `AuditInv`: arguments are numbered with rounds up to that of the row or the next one, none
  left out (`RoundsCounted`), and a round is numbered by the row its handler loaded (`NextRound`).
- `LastArgumentsAreTold`: `Spec /\ []OneAtATime => []LastArgumentsReach`. Every seat's
  turn is of round 1 or later, and the opening of round 0 (`Voiced`), so the three
  selections of `_history` are apart and leave out only arguments that the summary
  dropped. An argument that fewer than a round's arguments follow is followed by no more
  earlier ones, and the summary keeps the last `SUMMARY_TURNS` of those (`Behind`, `BriefIs`).
  Selections are written as the turns at a set of places (`TurnsAt`), about which
  the provers can count (`PlacesReached`), rather than with `SelectSeq`.

`ProviderChainProofs` proves, for any callers, any chain whose last provider is
not switched off and has no name twice (`ChainAssumption`), any limits that are
numbers (`LimitAssumption`) and any bounds:

- `EveryObjectInBudget`: `Spec => []LockedUntilWritten`, for any number of Quota objects. A
  Quota's lock is held exactly by the caller between the count and the write, so that no two spend
  its last request, and a write copies a counter that is within its limit. With it comes type
  correctness (`TypeCorrect`).
- `BudgetSafety`: `Spec => []BudgetHolds`, for any number of Quota objects. What it promises ends
  when a second one is made in one life of the process (`raced`), as `quota_race` shows it must: that is
  part of the state, and nothing is assumed about the instance. Until then everybody counts
  with one object (`OneObject`). The budget alone is not inductive: a write
  copies the counter in memory to the table, so one needs that memory is
  ahead of the table for the provider being written, by the
  Quota's lock, and that everybody's counter is the cached one.
- `SwitchStopsRetries`: `Spec => OnceThroughAtMost`. The strengthening `LateInv`:
  while the switch is engaged, the providers a call has asked since lie behind
  its place in the loop, and names do not repeat; a retry meets the check.
- `ExhaustedIsTrue`: `Spec => []SpentWhenRefused`. The strengthening `Accounted`: what
  the table and every counter say was asked for or forfeited, but for the
  one request whose write is under way; and `WhyInv`: a noted reason belongs to
  the provider at its place in the chain.

`CorpusProofs` proves, for any requests, documents and backends, assuming that a
document has a number of chunks (`NChunksAssumption`), a backend a width
(`DimAssumption`), that `None` and `Unset` are nobody's (`NoneAssumption`), and that
the pool is a number (`PoolAssumption`):

- `TextIsWhole`: `Spec => []TextWhole`. A commit publishes all that the
  connection sees, so one needs that it is whole whenever anybody commits: apart from what
  is `torn`, the only document without its chunks is that of a request between the two statements
  (`WholeOrWriting`), and that request holds the lock (`WriterHolds`). Without the lock commits
  only `session_key`, which tears exactly that document.
- `NeverClash`: `Spec => []NoClash`: what the second look found
  still holds when the row is inserted, because whoever inserts rows holds the lock.
- `SpacesStayApart`: `Spec => []OneSpaceEach`, with requests that hold different backends and
  first users that race. The second look makes sure that a document is written by one request, with the
  backend it was embedded with, so one needs that nothing of a document is in the index before its
  row is in (`WritesOne`), and follows each vector to its row (`SpacesIn`).
- `HitsAreSound`: `Spec => []HitsResolve`. An answer is computed from what three
  steps read, so one needs that rows of `vector_index` are never taken away while the search
  lasts, that those it read are of its own space, and that the tables
  stay finite (`Consistent`): otherwise the orders that an arm may choose from need
  not be sequences at all.
- `FusionIsFair`: `Spec => []FusionFair`. The score of a chunk is the sum of its
  reciprocal ranks over the arms it is eligible for, of which there are one or two
  (`MeanOfTwo`, `OneAlone`); a chunk that both arms heard and that every
  rank puts above another's has more, in each combination of arms that the two
  may have been ranked by (`FairScores`), and the order of the hits is that of the
  scores (`OrderIsFair`).

`MemoProofs` proves, for any texts (`TextsAssumption`: what `IsText` admits, of any
length), positive budget (`BudgetAssumption`), drafts (`DraftsAssumption`: two lists of
names), limit and a finite set of seats that are no sentences (`SeatsAssumption`):

- `NothingPlanted`: `Spec => []NoPlantedClaim`. Chunks are seen
  only when their findings are (`NothingToCite`: before that there is nothing to cite), and so the gate
  judges every citation with the finding in view (`Sound`).
- `TextIsCovered`: `Spec => []ChunksCover`. It follows the three loops. Each is a recursive
  function on an interval, which exists because one for a shorter interval can be made a
  step longer (`ScanIs`, `AccIs`, `PlanIs`, by `CountUp`: a set of numbers with the first
  of an interval, and with each its successor, has them all). A scan has found, in order and
  apart, every ordinary character it passed, and no separator (`SpansAre`, `Between`). What the loop
  over sentences has put out lies in order over all it has passed but the piece that is
  accumulated, and that piece fits the budget and ends at the last sentence (`SentenceStep`); so
  a sentence that fits is either still accumulated or was put out whole
  (`ParagraphCovered`). Paragraphs put end to end stay in order (`LaidJoin`, `PlanCovers`).
- `EveryClaimShownOnce`: `Spec => []EveryClaimOnce`. The invariant `OnceEach` follows
  a sentence through the loop: what was seen and judged is in one of the four lists and
  there once (`Placed`), anything else, the sentence under judgement included, is in
  none (`Unplaced`). A page is the lists put end to end, with sections between
  them that show no sentence, and so shows each in one place (`Together`, `PlacedIsOnce`).

`StagesProofs` proves `DoneIsTrue`: `Spec => []DoneAfterAll`, for any requests, kinds,
seats and options (`SeatingAssumption`, `OptionsAssumption`, `ConfidencesAssumption`), when
no answer is the end marker (`EndAssumption`). The invariant follows an answer through the queue: every seat
that is not waited for has its answer shown or queued (`Passed`), nothing is queued
behind the end marker and the fan-out is over once it is there (`EndIsLast`), and a
fan-out that returned has asked everything (`Over`). So when the marker is at
the head, nothing else is queued, and everything was shown.

It proves two further properties, for lists of options with and without repetition:

- `ArtefactsAreWhole`: `Spec => []ArtefactWhole`. What will be saved is what
  the fan-out collected (`Collected`), a result is read only after a fan-out that did not
  fail (`HasResult`), and tables keep it (`TablesOK`).
- `CountedWasSaid`: `Spec => []RowsAreEarned`. A prediction is written from a scoring that is already
  stored, for the most confident of a seat's answers, which exists since there is a least
  place among the answers that no other exceeds.

`WebSearchProofs` proves `ReasonsOfOneSearch`: `Spec => []ToldOfOneSearch`, for any
requests and tiers that end with the stub (`TiersAssumption`, `StubAssumption`): the
reasons of a search under way are those of the tiers before its place, in order
(`InOrder`), and what the chain holds is, for everyone who answered and was not told yet, the list
of one who answered since (`Published`). For any links and limits
(`LinksAssumption`, `LimitAssumption`) it proves `ResultsAreSound`: `Spec => []ResultsSound`;
removing duplicates numbers the first occurrences, and numbering is one to one
(`Numbered`, `DedupedIs`).

`VerdictProofs` proves, for any seats, options, evidence, totals and confidences (the
assumptions of `Verdict` on its constants), what the arithmetic over the two tables amounts to:

- `OrderNeverMatters`: `Spec => []OrderIndependent`. `SumFunction` is a fold that takes the
  elements of a set in an order nobody fixes; it is shown to count points (`SumIs`, by the closed
  form of the fold and a least set where they would differ), so that it is the same
  for entries that stand elsewhere (`SumRenamed`). The dict's order and the sort are
  `Arranged`: with a strict total order each element gets one place (`ArrangedIs`), the same
  under any naming (`ArrangedRenamed`). A reordering of seats and lists
  turns every entry into one that says the same elsewhere (`TurnedEntries`,
  `ReorderedIsTurned`), one to one, and nothing more is used of it (`TurnedSame`). The sort key is one, since no two results have
  the same option (`BetterOrders`), so the ranking is that of the set of options (`RankingIs`)
  whatever order `Met` finds them in (`MetIs`). The invariant needed of the state is that
  no list is longer than the list of options (`IInv`).
- `FlipsEarned`: `Spec => []FlipsAreEarned`. What is left without an item are the entries that do
  not lean on it, moved up (`WithoutEntries`), so an option's total is what is kept of it plus what
  is lost (`TotalsWithout`). If the winner lost less than its margin, it
  would still have more than every other option had (`LeaderIs`); if it lost nothing and
  were beaten on a tie, so would have lost nothing the option that beats it, and the two
  would be ranked as before.
- `HalvesAgree`: `Spec => []SensitivityAgrees`. Every score cites something, so a seat that
  lists one item alone has an empty list without it.

Only model-checked is liveness (`LockReleased`, `RequestEnds`, `CallEnds`, `StreamEnds`), which needs
ENABLED and is out of the provers' reach.

Every safety invariant of the passing runs is stated by a theorem.

## Plan

1. *Session core*: `Boardroom`, `SignedRecord`, `BoardroomRecord`, `TranscriptAudit`: done.
2. *Provider chain and quota*: `ProviderChain`: done.
3. *Documents and hits*: `Corpus`, `Fusion`, `Chunking`, `Memo`: done.
4. *Decisions*: `Stages`, `Verdict`: done.
5. *Search chain*: `WebSearch`: done.
6. *Serial proofs*: the second part of `BoardroomProofs`, and `TranscriptAuditProofs`: done.
7. *Further proofs*: `ArtefactWhole`, `RowsAreEarned`, `HitsResolve`, `FusionFair`,
   `ResultsSound`, `EveryClaimOnce`, `LastArgumentsReach`, `ChunksCover` and the three of `Verdict`: done.

## What is not modelled, and why

Mandates, tool grants and roles are static tables. Settings, schemas, event-stream framing and
report layout convert data and keep no state. The security page and the
scorecard report on the code itself. The web client renders what the API
sends; what it is shown is the history variable `acked`. Scripts are run by
hand. Regular expressions (the Auditor's rules, the scanner's patterns) and
cryptography (HMAC) are abstracted to what the properties tell apart. The
network and the models behind the providers are outside the repository.
