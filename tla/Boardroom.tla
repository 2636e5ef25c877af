------------------------------ MODULE Boardroom ------------------------------
(***************************************************************************)
(* One boardroom session over HTTP: the request handlers of                *)
(* services/api/routers/sessions.py, the Facilitator they call, and the    *)
(* tables of crew/store.py that they read and write through one shared     *)
(* SQLite connection.                                                      *)
(*                                                                         *)
(* A handler is a process (a worker of the thread pool, or a coroutine of  *)
(* the event loop for a round).  Every SELECT is a step of its own, a save *)
(* is a transaction under WRITE_LOCK, and everything between two such      *)
(* steps happens in the private memory of the handler.                     *)
(***************************************************************************)
EXTENDS Integers, Sequences, FiniteSets

CONSTANTS
    Workers,    \* concurrent request handlers
    Seating,    \* the mandate seats, in the order the record lists them
    Stages,     \* design-thinking stages
    Tripping,   \* the seats whose text trips a rule of the Auditor
    MaxSigned,  \* bound: no request starts once this many turns were signed
    None        \* no session row, no holder of the write lock

VARIABLES
    row,        \* the row of table sessions, or None
    turns,      \* table turns: ordinal -> stored turn
    txn,        \* ordinals inserted by the transaction still open
    left,       \* flags in it: a save_flags that raised, with nobody to roll back
    lock,       \* holder of WRITE_LOCK between the rows of a batch, or None
    flags,      \* table turn_flags: the turn_ids it holds a flag for
    engaged,    \* the kill switch, a variable of the process
    loc,        \* what each worker is doing
    signed,     \* signatures made so far; a signature is a number
    acked       \* signatures a client was shown as recorded turns

vars == <<row, turns, txn, left, lock, flags, engaged, loc, signed, acked>>

GENESIS == 0
Seats == {Seating[i] : i \in DOMAIN Seating}
Speakers == Seats \cup {"chair", "facilitator"}
Kinds == {"open", "interject", "advance", "close", "round"}

Session == [stage : Stages, round_no : Nat, closed : BOOLEAN]

\* What a turn says is abstracted to what it is; its wording, provider and time
\* are covered by its signature, and no two signatures ever made are equal.
Texts == {"opening", "stage", "closing", "interjection", "argument"}

Turn == [turn_id : Nat, round_no : Nat, stage : Stages, speaker : Speakers,
         text : Texts, prev_sig : Nat, sig : Nat]

ASSUME SeatingAssumption ==
    /\ Seating \in Seq(STRING) /\ Len(Seating) > 0
    /\ \A i, j \in DOMAIN Seating : Seating[i] = Seating[j] => i = j
    /\ {"chair", "facilitator"} \cap Seats = {}
ASSUME NoneAssumption == None \notin Workers /\ None \notin Session
ASSUME BoundAssumption == MaxSigned \in Nat

-----------------------------------------------------------------------------
(* The state of a request: the Session object the handler loaded and       *)
(* changes (row), the length and the last signature of the transcript it   *)
(* adopted (base, tail), the ordinal it counted (ord), the turns it signed *)
(* (new), and how many of them it has saved or streamed (at).              *)

Phases == {"idle", "load_turns", "count", "act", "listen", "save_turns",
           "save_session", "stream"}

Request == [pc : Phases, kind : Kinds, row : Session \cup {None}, base : Nat,
            tail : Nat, ord : Nat, new : Seq(Turn), at : Nat]

Idle == [pc |-> "idle", kind |-> "open", row |-> None, base |-> 0,
         tail |-> GENESIS, ord |-> 0, new |-> <<>>, at |-> 0]

TypeOK ==
    /\ row \in Session \cup {None}
    /\ DOMAIN turns \in SUBSET Nat /\ IsFiniteSet(DOMAIN turns)
    /\ \A o \in DOMAIN turns : turns[o] \in Turn
    /\ txn \in SUBSET DOMAIN turns
    /\ left \in SUBSET flags
    /\ lock \in Workers \cup {None}
    /\ flags \in SUBSET Nat
    /\ engaged \in BOOLEAN
    /\ loc \in [Workers -> Request]
    /\ signed \in Nat
    /\ acked \in SUBSET Nat

Init ==
    /\ row = None
    /\ turns = <<>>
    /\ txn = {}
    /\ left = {}
    /\ lock = None
    /\ flags = {}
    /\ engaged = FALSE
    /\ loc = [w \in Workers |-> Idle]
    /\ signed = 0
    /\ acked = {}

Goto(w, pc) == loc' = [loc EXCEPT ![w].pc = pc]
Finish(w) == loc' = [loc EXCEPT ![w] = Idle]

\* Mutant of LastSig: the rows are read in no particular order.
FirstSig(table) ==
    LET first == {o \in DOMAIN table : \A p \in DOMAIN table : o <= p} IN
    IF first = {} THEN GENESIS ELSE table[CHOOSE o \in first : TRUE].sig

\* Mutant of LastSig: an empty transcript has no signature to chain from.
LastSigOrNone(table) ==
    LET last == {o \in DOMAIN table : \A p \in DOMAIN table : p <= o} IN
    IF last = {} THEN None ELSE table[CHOOSE o \in last : TRUE].sig

\* SELECT ... ORDER BY ordinal: the signature of the last turn of a table.
LastSig(table) ==
    LET last == {o \in DOMAIN table : \A p \in DOMAIN table : p <= o} IN
    IF last = {} THEN GENESIS ELSE table[CHOOSE o \in last : TRUE].sig

\* Mutant of Sign: append does not move on to the signature it just made.
SignFromTail(r, speakers, text) ==
    [i \in DOMAIN speakers |->
        [turn_id |-> r.base + i - 1, round_no |-> r.row.round_no,
         stage |-> r.row.stage, speaker |-> speakers[i], text |-> text,
         prev_sig |-> r.tail, sig |-> signed + i]]

\* Transcript.append, once per speaker: each turn is numbered by its place in
\* the transcript in memory and carries the signature of the turn before it.
Sign(r, speakers, text) ==
    [i \in DOMAIN speakers |->
        [turn_id |-> r.base + i - 1, round_no |-> r.row.round_no,
         stage |-> r.row.stage, speaker |-> speakers[i], text |-> text,
         prev_sig |-> IF i = 1 THEN r.tail ELSE signed + i - 1,
         sig |-> signed + i]]

\* The handler's Session object becomes s, it appends a turn for each speaker
\* to its transcript, and goes on to save.
Speak(w, s, speakers, text, pc) ==
    LET r == [loc[w] EXCEPT !.row = s] IN
    /\ loc' = [loc EXCEPT ![w] =
                  [r EXCEPT !.new = Sign(r, speakers, text), !.pc = pc]]
    /\ signed' = signed + Len(speakers)

-----------------------------------------------------------------------------
(* The round handler is a coroutine: between two awaits no other coroutine *)
(* runs, though the workers of the thread pool do.                         *)

\* w is between two awaits: it has loaded a part of the session, or saved one.
OnLoop(w) ==
    /\ loc[w].kind = "round"
    /\ \/ loc[w].pc \in {"load_turns", "count", "save_session"}
       \/ loc[w].pc = "save_turns" /\ loc[w].at > 0

LoopFree(w) == \A v \in Workers \ {w} : ~OnLoop(v)

-----------------------------------------------------------------------------
(* Reading the session: _load_or_404 and turn_count, three SELECTs.        *)

\* POST /sessions: the session exists for no one else until it is saved.
Open(w) ==
    /\ loc[w].pc = "idle" /\ signed < MaxSigned
    /\ row = None
    /\ \A v \in Workers : loc[v].pc = "idle"
    /\ \E s \in Stages :
          LET r == [Idle EXCEPT !.row =
                       [stage |-> s, round_no |-> 0, closed |-> FALSE]] IN
          loc' = [loc EXCEPT ![w] =
                     [r EXCEPT !.new = Sign(r, <<"facilitator">>, "opening"),
                               !.pc = "save_session"]]
    /\ signed' = signed + 1
    /\ UNCHANGED <<row, turns, txn, left, lock, flags, engaged, acked>>

\* Mutant of LoadRow: load_session forgets to restore closed.
LoadRowOpen(w) ==
    /\ loc[w].pc = "idle" /\ signed < MaxSigned
    /\ row # None
    /\ \E k \in Kinds \ {"open"} :
          loc' = [loc EXCEPT ![w] = [Idle EXCEPT !.pc = "load_turns", !.kind = k,
                                         !.row = [row EXCEPT !.closed = FALSE]]]
    /\ UNCHANGED <<row, turns, txn, left, lock, flags, engaged, signed, acked>>

LoadRow(w) ==
    /\ loc[w].pc = "idle" /\ signed < MaxSigned
    /\ row # None
    /\ \E k \in Kinds \ {"open"} :
          /\ k = "round" => LoopFree(w)
          /\ loc' = [loc EXCEPT ![w] = [Idle EXCEPT !.pc = "load_turns",
                                                    !.kind = k, !.row = row]]
    /\ UNCHANGED <<row, turns, txn, left, lock, flags, engaged, signed, acked>>

LoadTurns(w) ==
    /\ loc[w].pc = "load_turns"
    /\ loc' = [loc EXCEPT ![w].pc = "count",
                          ![w].base = Cardinality(DOMAIN turns),
                          ![w].tail = LastSig(turns)]
    /\ UNCHANGED <<row, turns, txn, left, lock, flags, engaged, signed, acked>>

\* 409: the loaded session is closed and the request is for a round.
RefuseClosed(w) ==
    /\ loc[w].pc = "count" /\ loc[w].kind = "round" /\ loc[w].row.closed
    /\ Finish(w)
    /\ UNCHANGED <<row, turns, txn, left, lock, flags, engaged, signed, acked>>

Count(w) ==
    /\ loc[w].pc = "count"
    /\ ~(loc[w].kind = "round" /\ loc[w].row.closed)
    /\ loc' = [loc EXCEPT ![w].pc = "act",
                          ![w].ord = Cardinality(DOMAIN turns)]
    /\ UNCHANGED <<row, turns, txn, left, lock, flags, engaged, signed, acked>>

-----------------------------------------------------------------------------
(* Acting on the session in memory: the Facilitator.                       *)

\* Mutant of RefuseEngaged: an interjection waits for the switch to be released.
RefuseRound(w) ==
    /\ loc[w].pc = "act" /\ loc[w].kind = "round"
    /\ engaged
    /\ Finish(w)
    /\ UNCHANGED <<row, turns, txn, left, lock, flags, engaged, signed, acked>>

\* killswitch.check raises out of interject and run_round.
RefuseEngaged(w) ==
    /\ loc[w].pc = "act" /\ loc[w].kind \in {"interject", "round"}
    /\ engaged
    /\ Finish(w)
    /\ UNCHANGED <<row, turns, txn, left, lock, flags, engaged, signed, acked>>

Interject(w) ==
    /\ loc[w].pc = "act" /\ loc[w].kind = "interject"
    /\ ~engaged
    /\ Speak(w, loc[w].row, <<"chair">>, "interjection", "save_turns")
    /\ UNCHANGED <<row, turns, txn, left, lock, flags, engaged, acked>>

Advance(w) ==
    /\ loc[w].pc = "act" /\ loc[w].kind = "advance"
    /\ \E s \in Stages :
          Speak(w, [loc[w].row EXCEPT !.stage = s], <<"facilitator">>,
                "stage", "save_turns")
    /\ UNCHANGED <<row, turns, txn, left, lock, flags, engaged, acked>>

\* Mutant of Close: the row is saved, the closing turn is not.
CloseRowOnly(w) ==
    /\ loc[w].pc = "act" /\ loc[w].kind = "close"
    /\ Speak(w, [loc[w].row EXCEPT !.closed = TRUE], <<"facilitator">>,
             "closing", "save_session")
    /\ UNCHANGED <<row, turns, txn, left, lock, flags, engaged, acked>>

Close(w) ==
    /\ loc[w].pc = "act" /\ loc[w].kind = "close"
    /\ Speak(w, [loc[w].row EXCEPT !.closed = TRUE], <<"facilitator">>,
             "closing", "save_turns")
    /\ UNCHANGED <<row, turns, txn, left, lock, flags, engaged, acked>>

BeginRound(w) ==
    /\ loc[w].pc = "act" /\ loc[w].kind = "round"
    /\ ~loc[w].row.closed /\ ~engaged
    /\ loc' = [loc EXCEPT ![w].pc = "listen", ![w].row.round_no = @ + 1]
    /\ UNCHANGED <<row, turns, txn, left, lock, flags, engaged, signed, acked>>

\* Every seat has answered; the turns are signed in seating order.
EndRound(w) ==
    /\ loc[w].pc = "listen"
    /\ Speak(w, loc[w].row, Seating, "argument", "save_turns")
    /\ UNCHANGED <<row, turns, txn, left, lock, flags, engaged, acked>>

\* A seat's completion raised (the kill switch, or no provider left), or the
\* client of the stream has gone: what the handler holds is dropped.
FailRound(w) ==
    /\ loc[w].kind = "round" /\ loc[w].pc \in {"act", "listen", "stream"}
    /\ LoopFree(w)
    /\ Finish(w)
    /\ UNCHANGED <<row, turns, txn, left, lock, flags, engaged, signed, acked>>

-----------------------------------------------------------------------------
(* Saving.                                                                 *)

\* Mutant of Batch: the slice starts one turn late.
BatchLate(r) ==
    IF r.kind \in {"advance", "close"}
    THEN SubSeq(r.new, r.ord - r.base + 2, Len(r.new))
    ELSE r.new

\* The rows handed to save_turns.  Advance and close slice their transcript
\* at the counted ordinal; the others pass the turns they signed.
Batch(r) ==
    IF r.kind \in {"advance", "close"}
    THEN SubSeq(r.new, r.ord - r.base + 1, Len(r.new))
    ELSE r.new

\* Mutant of Insert: INSERT OR REPLACE.
Replace(table, o, t) ==
    LET kept == {p \in DOMAIN table \ {o} : table[p].turn_id # t.turn_id} IN
    [p \in kept \cup {o} |-> IF p = o THEN t ELSE table[p]]

\* INSERT OR IGNORE: turn_id is the primary key, (session, ordinal) is unique.
Insert(table, o, t) ==
    IF o \in DOMAIN table \/ \E p \in DOMAIN table : table[p].turn_id = t.turn_id
    THEN table
    ELSE [p \in DOMAIN table \cup {o} |-> IF p = o THEN t ELSE table[p]]

\* What follows save_turns in each handler.
Saved(w) ==
    CASE loc[w].kind \in {"round", "advance", "close"} ->
            /\ loc' = [loc EXCEPT ![w].pc = "save_session", ![w].at = 0]
            /\ UNCHANGED acked
      [] OTHER ->
            /\ Finish(w)
            /\ acked' = acked \cup {loc[w].new[i].sig : i \in DOMAIN loc[w].new}

\* Mutants of MayWrite (a writer takes no lock), of Holder (the lock is not given
\* back after the commit) and of Pending (every row commits by itself).
MayAlwaysWrite(w) == TRUE
HolderForEver(w, last) == w
NothingPending(table) == {}

\* WRITE_LOCK: who may take it, who holds it after a row, and what the open
\* transaction then holds.
MayWrite(w) == lock \in {None, w}
Holder(w, last) == IF last THEN None ELSE w
Pending(table) == txn \cup (DOMAIN table \ DOMAIN turns)

\* conn.commit(): whatever the connection's transaction holds, whoever put it there.
Commit == txn' = {} /\ left' = {}

\* One row of executemany.  The connection is shared, so other handlers see
\* the row at once; the last row is followed by the commit.
SaveTurn(w) ==
    LET r == loc[w]
        b == Batch(r)
        last == r.at + 1 = Len(b)
    IN
    /\ r.pc = "save_turns" /\ MayWrite(w)
    /\ r.kind = "round" => LoopFree(w)
    /\ r.at < Len(b)
    /\ turns' = Insert(turns, r.ord + r.at, b[r.at + 1])
    /\ lock' = Holder(w, last)
    /\ \/ /\ last
          /\ Commit
          /\ Saved(w)
       \/ /\ ~last
          /\ txn' = Pending(turns')
          /\ UNCHANGED left
          /\ loc' = [loc EXCEPT ![w].at = @ + 1]
          /\ UNCHANGED acked
    /\ UNCHANGED <<row, flags, engaged, signed>>

\* The slice was empty: the commit is all that is left.
SaveNothing(w) ==
    /\ loc[w].pc = "save_turns" /\ MayWrite(w)
    /\ Batch(loc[w]) = <<>>
    /\ Commit
    /\ Saved(w)
    /\ UNCHANGED <<row, turns, lock, flags, engaged, signed>>

\* save_session writes the whole row from the handler's Session object.
SaveSession(w) ==
    LET r == loc[w] IN
    /\ r.pc = "save_session" /\ MayWrite(w)
    /\ row' = r.row
    /\ Commit
    /\ CASE r.kind = "open" -> Goto(w, "save_turns") /\ UNCHANGED acked
         [] r.kind = "round" -> Goto(w, "stream") /\ UNCHANGED acked
         [] OTHER ->
               /\ Finish(w)
               /\ acked' = acked \cup {r.new[i].sig : i \in DOMAIN r.new}
    /\ UNCHANGED <<turns, lock, flags, engaged, signed>>

-----------------------------------------------------------------------------
(* Streaming the signed turns of a round, auditing each.                   *)

\* A frame "turn": the client is told that this IS the record.
StreamTurn(w) ==
    LET r == loc[w] IN
    /\ r.pc = "stream" /\ r.at < Len(r.new)
    /\ LoopFree(w)
    /\ acked' = acked \cup {r.new[r.at + 1].sig}
    /\ loc' = [loc EXCEPT ![w].at = @ + 1]
    /\ UNCHANGED <<row, turns, txn, left, lock, flags, engaged, signed>>

\* Mutant of Findings: the rules are not consulted.
FindingsOnAll(r) == {r.new[i].turn_id : i \in DOMAIN r.new}

\* The turn_ids the Auditor has findings for, once all frames are out.
Findings(r) ==
    {r.new[i].turn_id : i \in {j \in DOMAIN r.new : r.new[j].speaker \in Tripping}}

TurnIds(table) == {table[o].turn_id : o \in DOMAIN table}

\* save_flags runs after the last frame.  A finding about a turn_id that was
\* never stored violates the foreign key and raises before the commit; WRITE_LOCK
\* is given back, and the flags inserted before it stay in the transaction of the
\* shared connection, for the next writer to commit.
SaveFlags(w) ==
    LET r == loc[w]
        missing == Findings(r) \ TurnIds(turns)
        inserted == {f \in Findings(r) : \A m \in missing : f < m}
    IN
    /\ r.pc = "stream" /\ r.at = Len(r.new)
    /\ LoopFree(w)
    /\ \/ /\ Findings(r) = {}
          /\ UNCHANGED <<txn, left, flags>>
       \/ /\ Findings(r) # {} /\ MayWrite(w)
          /\ flags' = flags \cup inserted
          /\ \/ missing = {} /\ Commit
             \/ missing # {} /\ left' = left \cup (inserted \ flags) /\ UNCHANGED txn
    /\ Finish(w)
    /\ UNCHANGED <<row, turns, lock, engaged, signed, acked>>

-----------------------------------------------------------------------------
(* The environment.                                                        *)

\* POST and DELETE /admin/killswitch.
ToggleKillSwitch ==
    /\ engaged' = ~engaged
    /\ UNCHANGED <<row, turns, txn, left, lock, flags, loc, signed, acked>>

\* Mutant of Crash: a failed save rolls back under the handlers that go on.
RollbackOnly ==
    /\ turns' = [o \in DOMAIN turns \ txn |-> turns[o]]
    /\ flags' = flags \ left
    /\ Commit
    /\ lock' = None
    /\ UNCHANGED <<row, engaged, loc, signed, acked>>

\* The process dies and restarts: SQLite rolls the open transaction back, and
\* the kill switch, kept in memory, is released.
Crash ==
    /\ turns' = [o \in DOMAIN turns \ txn |-> turns[o]]
    /\ flags' = flags \ left
    /\ Commit
    /\ lock' = None
    /\ engaged' = FALSE
    /\ loc' = [w \in Workers |-> Idle]
    /\ UNCHANGED <<row, signed, acked>>

\* The steps that may have to wait for WRITE_LOCK or for the event loop.
Save(w) ==
    \/ SaveTurn(w) \/ SaveNothing(w) \/ SaveSession(w)
    \/ StreamTurn(w) \/ SaveFlags(w)

Handle(w) ==
    \/ LoadTurns(w) \/ RefuseClosed(w) \/ Count(w)
    \/ RefuseEngaged(w) \/ Interject(w) \/ Advance(w) \/ Close(w)
    \/ BeginRound(w) \/ EndRound(w) \/ FailRound(w)
    \/ Save(w)

Next ==
    \/ \E w \in Workers : Open(w) \/ LoadRow(w) \/ Handle(w)
    \/ ToggleKillSwitch
    \/ Crash

Spec == Init /\ [][Next]_vars

\* A handler that started runs on, and one that waits for WRITE_LOCK gets it in
\* the end: the lock is handed over by the operating system.
Fairness == \A w \in Workers :
    /\ WF_vars(Handle(w))
    /\ SF_vars(Save(w))

FairSpec == Spec /\ Fairness

-----------------------------------------------------------------------------
(* What is true however the requests interleave.                           *)

Committed == DOMAIN turns \ txn
InMemory(w) == {loc[w].new[i].sig : i \in DOMAIN loc[w].new}

\* w has signed turns and is not through with saving them.
Unsaved(w) == \/ loc[w].pc = "save_turns"
              \/ loc[w].pc = "save_session" /\ loc[w].kind = "open"

\* The turns of the open transaction are those of the handler that holds WRITE_LOCK,
\* and no commit publishes the half of a batch of turns: neither another handler's nor
\* one's own (core/db.py, the comment on WRITE_LOCK).  Findings that a failed
\* save_flags left in the transaction are published by others; but no finding, left or
\* committed, is about a turn that can still be rolled back.
TransactionIsHolders ==
    /\ lock = None => txn = {}
    /\ \A o \in txn : turns[o].sig \in InMemory(lock)
    /\ \A w \in Workers : Unsaved(w) =>
          \A o \in Committed : turns[o].sig \notin InMemory(w)
    /\ \A f \in flags : \E o \in Committed : turns[o].turn_id = f

\* The holder of WRITE_LOCK is in the middle of a batch, which nothing replaces
\* or cuts short: no handler goes on to other work with the lock in its hands.
HolderSaves ==
    lock # None => /\ lock \in Workers /\ loc[lock].pc = "save_turns"
                   /\ Batch(loc[lock]) # <<>>

\* The record is append-only: a committed turn is never changed or removed, by
\* a colliding save, by a crash or by anything else (store.save_turns).
AppendOnly ==
    [][\A o \in Committed : o \in DOMAIN turns' /\ turns'[o] = turns[o]]_vars

\* The write lock is given back, whatever the other handlers do.
LockReleased == \A w \in Workers : lock = w ~> lock # w

\* A request ends: no handler waits for ever for the lock or the event loop.
RequestEnds == \A w \in Workers : loc[w].pc # "idle" ~> loc[w].pc = "idle"

\* The handlers' own discipline, on which type correctness rests: one that is at
\* work has a Session object, and did not count fewer turns than it loaded.
Sane(r, stored) ==
    /\ r.pc # "idle" => r.row \in Session
    /\ r.pc = "count" => r.base <= stored
    /\ r.pc \notin {"load_turns", "count"} => r.base <= r.ord

RequestOK == \A w \in Workers : Sane(loc[w], Cardinality(DOMAIN turns))

-----------------------------------------------------------------------------
(* What is promised of the record, and holds when no two requests for the  *)
(* session overlap.                                                        *)

\* Transcript.verify finds nothing in the stored rows: each turn stands at the
\* ordinal its turn_id names and carries the signature of the turn before it.
ChainIntact ==
    \A o \in DOMAIN turns :
        /\ turns[o].turn_id = o
        /\ turns[o].prev_sig = LastSig([p \in {q \in DOMAIN turns : q < o} |-> turns[p]])

\* What a client was shown as a recorded turn is in the record for good, through
\* lost connections and restarts (the frame "turn", the answer to interject).
ShownIsStored == \A s \in acked : \E o \in Committed : turns[o].sig = s

\* The session row never claims what the record does not show: a round counted
\* in it was argued, and a closed session says so in its transcript.
RowBehindRecord ==
    row # None =>
        /\ row.closed => \E o \in Committed : turns[o].text = "closing"
        /\ row.round_no > 0 =>
              \E o \in Committed : /\ turns[o].text = "argument"
                                   /\ turns[o].round_no = row.round_no

\* A round is recorded whole and in seating order, or not at all.
RoundsWhole ==
    \A o \in Committed, i \in DOMAIN Seating :
        turns[o].text = "argument" /\ turns[o].speaker = Seating[i] =>
            \A j \in DOMAIN Seating :
                /\ o - i + j \in Committed
                /\ turns[o - i + j].speaker = Seating[j]
                /\ turns[o - i + j].round_no = turns[o].round_no

\* A session that is closed stays closed, and no seat's turn joins its record.
ClosedIsFinal ==
    [][row # None /\ row.closed =>
          /\ row'.closed
          /\ \A o \in DOMAIN turns' \ DOMAIN turns : turns'[o].text # "argument"]_vars

\* A finding of the Auditor is filed beside the words that caused it.
FlagsTruthful ==
    \A f \in flags : \E o \in Committed :
        turns[o].turn_id = f /\ turns[o].speaker \in Tripping

=============================================================================
