------------------------------- MODULE Stages -------------------------------
(***************************************************************************)
(* The fan-outs of routers/decisions.py: five seats asked at once          *)
(* (crew/stages.py), streamed as they answer (Progressive) or collected by *)
(* a synchronous handler, the artefact stored (crew/store.py), and for     *)
(* scores the predictions that the outcome ledger settles later            *)
(* (crew/ledger.py).  Framings and ideas are one question to every seat,   *)
(* dissents one about the memo that was drafted first, scores one for      *)
(* every option.                                                           *)
(*                                                                         *)
(* A streaming request is two processes, the coroutine that feeds the      *)
(* client and the thread that waits for the seats, with a queue between    *)
(* them.  A synchronous one is that thread alone.  Each save is a          *)
(* transaction of its own under WRITE_LOCK, so it is one step.             *)
(***************************************************************************)
EXTENDS Integers, Sequences, FiniteSets

CONSTANTS
    Requests,       \* requests, each made once
    Streams,        \* those of them that stream
    Seating,        \* the seats in the order in which results are stored
    Kinds,          \* what is asked of the seats: score, framing, idea, dissent
    Options,        \* the options a request to score names, in order
    Alphabet,       \* options in the order in which the ledger reads them
    Confidences,    \* how sure a seat can be of an option, in each request
    None,           \* nothing stored; nobody occupies the event loop
    End             \* finished = object(): the end marker of a queue

ASSUME StreamsAssumption == Streams \subseteq Requests
ASSUME SeatingAssumption ==
    Seating \in Seq(STRING) /\ \A i, j \in DOMAIN Seating : Seating[i] = Seating[j] => i = j
ASSUME KindsAssumption ==
    Kinds \subseteq {"score", "framing", "idea", "dissent"} /\ "score" \in Kinds
ASSUME OptionsAssumption ==
    /\ Options \in Seq(STRING) /\ Len(Options) > 0
    /\ Alphabet \in Seq(STRING)
    /\ \A k \in DOMAIN Options : \E j \in DOMAIN Alphabet : Alphabet[j] = Options[k]
\* A confidence of 1, in the smallest unit told apart.
Certain == 10000
ASSUME ConfidencesAssumption == Confidences \in [Requests -> SUBSET (0..Certain)]
ASSUME NoneAssumption == None \notin Requests

VARIABLES
    kind,       \* what each request is for
    fan,        \* the thread of a request that waits for the seats
    side,       \* the coroutine (or, of a synchronous request, its handler)
    loop,       \* the request whose code holds the event loop between two awaits, or None
    artefact,   \* table artefacts: by kind, the stored payload and whose it is, or None
    predicted,  \* table predictions: seat and option -> confidence
    outcome,    \* table outcomes: the option that proved right, or None
    stored      \* history: what every request that stored its result stored

vars == <<kind, fan, side, loop, artefact, predicted, outcome, stored>>

Seats == {Seating[i] : i \in DOMAIN Seating}

\* The questions that the collector of this kind puts to every seat, one after the other.
Questions(r) == IF kind[r] = "score" THEN Options ELSE <<kind[r]>>

\* The place of a question and the seat it is put to; none is the end marker.
Pairs(r) == (DOMAIN Questions(r)) \X Seats
ASSUME EndAssumption == End \notin Nat \X Seats

\* How sure a seat is of an option; of the others, that it answered.
Opinions(r) == IF kind[r] = "score" THEN Confidences[r] ELSE {0}

NotAsked == [pc |-> "new", option |-> 0, waiting |-> {}, failing |-> FALSE, got |-> {}, queue |-> <<>>]

TypeOK ==
    /\ kind \in [Requests -> Kinds]
    /\ \A r \in Requests :
          /\ fan[r].pc \in {"new", "asking", "returned", "raised"}
          /\ fan[r].waiting \subseteq Seats /\ fan[r].failing \in BOOLEAN
          /\ side[r].pc \in {"new", "drafting", "open", "saving", "predicting", "done", "error", "gone"}
          /\ side[r].told \subseteq Pairs(r)
    /\ loop \in Requests \cup {None}
    /\ outcome = None \/ \E k \in DOMAIN Options : outcome = Options[k]
    /\ \A p \in predicted :
          /\ p.seat \in Seats
          /\ \E k \in DOMAIN Options : p.option = Options[k]
          /\ \E r \in Requests : p.confidence \in Confidences[r]

Init ==
    /\ kind \in [Requests -> Kinds]
    /\ fan = [r \in Requests |-> NotAsked]
    /\ side = [r \in Requests |-> [pc |-> "new", told |-> {}, todo |-> {}]]
    /\ loop = None
    /\ artefact = [k \in Kinds |-> None]
    /\ predicted = {}
    /\ outcome = None
    /\ stored = {}

tables == <<kind, artefact, predicted, outcome, stored>>

-----------------------------------------------------------------------------
(* The fan-out.                                                            *)

\* The pool asks every seat the first question.
Asks(r) ==
    /\ fan' = [fan EXCEPT ![r].pc = "asking", ![r].option = 1, ![r].waiting = Seats]
    /\ side' = [side EXCEPT ![r].pc = "open"]

\* The request arrives.
Ask(r) ==
    /\ side[r].pc = "new" /\ kind[r] # "dissent"
    /\ r \in Streams => loop = None
    /\ Asks(r)
    /\ UNCHANGED <<loop, tables>>

\* A memo, which there is none of before the room has scored (409).
DraftMemo(r) ==
    /\ side[r].pc = "new" /\ kind[r] = "dissent"
    /\ r \in Streams => loop = None
    /\ side' = [side EXCEPT ![r].pc = IF artefact["score"] = None THEN "error" ELSE "drafting"]
    /\ UNCHANGED <<fan, loop, tables>>

\* build_memo is done, on a thread of a stream or in its handler, or raised.
Drafted(r) ==
    /\ side[r].pc = "drafting"
    /\ r \in Streams => loop = None
    /\ Asks(r) \/ (side' = [side EXCEPT ![r].pc = "error"] /\ UNCHANGED fan)
    /\ UNCHANGED <<loop, tables>>

Answer(r, s) ==
    \E c \in Opinions(r) :
        LET pair == <<fan[r].option, s>> IN
        fan' = [fan EXCEPT
            ![r].waiting = @ \ {s},
            ![r].got = IF fan[r].failing THEN @ ELSE @ \cup {[pair |-> pair, confidence |-> c]},
            ![r].queue = IF fan[r].failing \/ r \notin Streams THEN @ ELSE Append(@, pair)]

\* Mutant of Raise: a seat whose model raised is left out.
RaiseIgnored(r, s) == fan' = [fan EXCEPT ![r].waiting = @ \ {s}]

\* future.result() raises in the waiting thread: later answers are not looked at.
Raise(r, s) == fan' = [fan EXCEPT ![r].waiting = @ \ {s}, ![r].failing = TRUE]

\* A seat is done, in whatever order: its model answered or the provider chain gave up.
SeatDone(r, s) ==
    /\ fan[r].pc = "asking" /\ s \in fan[r].waiting
    /\ Answer(r, s) \/ Raise(r, s)
    /\ UNCHANGED <<side, loop, tables>>

\* collect_scores: every seat is asked about the next option.
NextOption(r) ==
    /\ fan[r].pc = "asking" /\ fan[r].waiting = {} /\ ~fan[r].failing
    /\ fan[r].option < Len(Questions(r))
    /\ fan' = [fan EXCEPT ![r].option = @ + 1, ![r].waiting = Seats]
    /\ UNCHANGED <<side, loop, tables>>

\* Mutant of Closing: the end marker is put only when the fan-out returned.
ClosingOnSuccess(f) == IF f.failing THEN f.queue ELSE Append(f.queue, End)

\* work's finally: the end marker, whatever happened.
Closing(f) == Append(f.queue, End)

\* The pool has no seat left: the fan-out returns, or raises what a seat raised.
FanEnds(r) ==
    /\ fan[r].pc = "asking" /\ fan[r].waiting = {}
    /\ fan[r].failing \/ fan[r].option = Len(Questions(r))
    /\ fan' = [fan EXCEPT ![r].pc = IF fan[r].failing THEN "raised" ELSE "returned",
                          ![r].queue = IF r \in Streams THEN Closing(fan[r]) ELSE @]
    /\ UNCHANGED <<side, loop, tables>>

-----------------------------------------------------------------------------
(* Progressive, on the event loop.                                         *)

\* Mutant of Drained: the loop looks at the thread and not at the queue.
DrainedEarly(r) == fan[r].pc # "asking"

\* The end marker is next.
Drained(r) == fan[r].queue # <<>> /\ Head(fan[r].queue) = End

\* A frame is sent for the seat at the head of the queue.
Deliver(r) ==
    /\ r \in Streams /\ side[r].pc = "open" /\ loop = None
    /\ ~Drained(r) /\ fan[r].queue # <<>>
    /\ side' = [side EXCEPT ![r].told = @ \cup {Head(fan[r].queue)}]
    /\ fan' = [fan EXCEPT ![r].queue = Tail(@)]
    /\ UNCHANGED <<loop, tables>>

\* The marker was read and the thread's task awaited: its exception ends the stream,
\* its result is saved without an await in between.
Join(r) ==
    /\ r \in Streams /\ side[r].pc = "open" /\ loop = None
    /\ Drained(r)
    /\ IF fan[r].pc = "raised"
       THEN side' = [side EXCEPT ![r].pc = "error"] /\ UNCHANGED loop
       ELSE side' = [side EXCEPT ![r].pc = "saving"] /\ loop' = r
    /\ UNCHANGED <<fan, tables>>

\* The synchronous handler goes on, or fails, as the collector returns or raises.
Return(r) ==
    /\ r \notin Streams /\ side[r].pc = "open"
    /\ fan[r].pc \in {"returned", "raised"}
    /\ side' = [side EXCEPT ![r].pc = IF fan[r].pc = "raised" THEN "error" ELSE "saving"]
    /\ UNCHANGED <<fan, loop, tables>>

-----------------------------------------------------------------------------
(* What a request that has its result does with it.                        *)

\* The answers by seat in seating order, and of a seat by option.
Payload(r) ==
    [i \in DOMAIN Seating |->
        [seat |-> Seating[i],
         answers |-> {g \in fan[r].got : g.pair[2] = Seating[i]}]]

\* What is a prediction of the result: the scores.
Recording(r) == IF kind[r] = "score" THEN fan[r].got ELSE {}

Place(seat) == CHOOSE i \in DOMAIN Seating : Seating[i] = seat

\* In the order of result.items(), and of each seat's list, g comes first of what is left.
Foremost(r, g) ==
    \A h \in side[r].todo :
        \/ Place(g.pair[2]) < Place(h.pair[2])
        \/ g.pair[2] = h.pair[2] /\ g.pair[1] <= h.pair[1]

\* Mutant of Save: the predictions come first.
SaveLast(r) ==
    /\ side[r].pc = "saving"
    /\ side' = [side EXCEPT ![r].pc = "predicting", ![r].todo = Recording(r)]
    /\ UNCHANGED <<fan, loop, tables>>

\* save_artefacts: the row of this kind is written whole.
Save(r) ==
    /\ side[r].pc = "saving"
    /\ artefact' = [artefact EXCEPT ![kind[r]] = [by |-> r, payload |-> Payload(r)]]
    /\ stored' = stored \cup {[by |-> r, got |-> fan[r].got]}
    /\ side' = [side EXCEPT ![r].pc = "predicting", ![r].todo = Recording(r)]
    /\ UNCHANGED <<kind, fan, loop, predicted, outcome>>

\* record_prediction: ON CONFLICT the confidence is overwritten.
Predict(r) ==
    /\ side[r].pc = "predicting"
    /\ \E g \in side[r].todo :
          /\ Foremost(r, g)
          /\ LET p == [option |-> Options[g.pair[1]], seat |-> g.pair[2],
                       confidence |-> g.confidence] IN
             predicted' =
                {q \in predicted : q.option # p.option \/ q.seat # p.seat} \cup {p}
          /\ side' = [side EXCEPT ![r].todo = @ \ {g}]
    /\ UNCHANGED <<kind, fan, loop, artefact, outcome, stored>>

\* The response, or the last two frames of a stream, at either of which its client may
\* still go away.
Done(r) ==
    /\ side[r].pc = "predicting" /\ side[r].todo = {}
    /\ \/ side' = [side EXCEPT ![r].pc = "done"]
       \/ r \in Streams /\ side' = [side EXCEPT ![r].pc = "gone"]
    /\ loop' = IF loop = r THEN None ELSE loop
    /\ UNCHANGED <<fan, tables>>

\* The client goes away while the seats are asked: the generator is dropped where it last
\* yielded, the thread runs on and its result is lost.
Leave(r) ==
    /\ r \in Streams /\ side[r].pc \in {"drafting", "open"} /\ loop = None
    /\ side' = [side EXCEPT ![r].pc = "gone"]
    /\ UNCHANGED <<fan, loop, tables>>

\* POST /outcome, any number of times.
RecordOutcome ==
    /\ \E k \in DOMAIN Options : outcome' = Options[k]
    /\ UNCHANGED <<kind, fan, side, loop, artefact, predicted, stored>>

\* The process dies with all its requests; those that come later are still to come.
Restart ==
    /\ fan' = [r \in Requests |-> NotAsked]
    /\ side' = [r \in Requests |->
                   IF side[r].pc = "new" THEN side[r]
                   ELSE [pc |-> "gone", told |-> {}, todo |-> {}]]
    /\ loop' = None
    /\ UNCHANGED tables

-----------------------------------------------------------------------------

Thread(r) == (\E s \in Seats : SeatDone(r, s)) \/ NextOption(r) \/ FanEnds(r)
Coroutine(r) ==
    \/ Drafted(r) \/ Deliver(r) \/ Join(r) \/ Return(r) \/ Save(r) \/ Predict(r) \/ Done(r)

Next ==
    \/ \E r \in Requests : Ask(r) \/ DraftMemo(r) \/ Thread(r) \/ Coroutine(r) \/ Leave(r)
    \/ RecordOutcome \/ Restart

Spec == Init /\ [][Next]_vars

\* A model call ends (the chain has timeouts and a stub), threads are scheduled, and
\* the loop comes back to a coroutine that polls.
FairSpec == Spec /\ \A r \in Requests : WF_vars(Thread(r)) /\ SF_vars(Coroutine(r))

-----------------------------------------------------------------------------
(* The outcome ledger.                                                     *)

\* The query reads a seat's predictions by option.
Rank(p) == CHOOSE j \in DOMAIN Alphabet : Alphabet[j] = p.option

\* A prediction read later replaces the one held only when it is more confident.
Backs(p, q) ==
    p.confidence > q.confidence \/ (p.confidence = q.confidence /\ Rank(p) <= Rank(q))

\* _scored_rows: of a settled session, the prediction the seat was most confident in.
ScoredRow(seat) ==
    LET own == {p \in predicted : p.seat = seat} IN
    IF outcome = None \/ own = {} THEN None
    ELSE LET best == CHOOSE p \in own : \A q \in own : Backs(p, q)
         IN [confidence |-> best.confidence, right |-> best.option = outcome]

-----------------------------------------------------------------------------

\* a is the whole result of a request of kind k, in seating order.
Whole(k, a) ==
    /\ kind[a.by] = k
    /\ \A i \in DOMAIN Seating :
          /\ a.payload[i].seat = Seating[i]
          /\ {g.pair[1] : g \in a.payload[i].answers} = DOMAIN Questions(a.by)
          /\ Cardinality(a.payload[i].answers) = Len(Questions(a.by))

\* What is stored of a kind is the result of one request, every seat's answer to every
\* question of that kind, in seating order: never what some of the seats said
\* (decisions.py: "what gets stored never depends on who was quickest").
ArtefactWhole == \A k \in Kinds : artefact[k] # None => Whole(k, artefact[k])

\* A stream that says done has shown every seat's every answer, and its result was
\* stored before it said so (Progressive: "awaited after the queue is drained").
DoneAfterAll ==
    \A r \in Requests : side[r].pc = "done" =>
        /\ r \in Streams => side[r].told = Pairs(r)
        /\ \E t \in stored : t.by = r

\* What the calibration counts for a seat was said by that seat, of that option, in
\* a scoring that was stored, also when a crash or another scoring came in between.
RowsAreEarned ==
    \A i \in DOMAIN Seating :
        LET row == ScoredRow(Seating[i]) IN
        row # None =>
            \E t \in stored : \E g \in t.got :
                /\ kind[t.by] = "score" /\ g.pair[2] = Seating[i] /\ g.confidence = row.confidence
                /\ row.right = (Options[g.pair[1]] = outcome)

\* A request that was accepted ends: with its result, an error, or a client that left
\* (Progressive.work: "a raising fan-out still releases the loop below").
StreamEnds ==
    \A r \in Requests :
        side[r].pc \in {"drafting", "open"} ~> side[r].pc \in {"done", "error", "gone"}

=============================================================================
