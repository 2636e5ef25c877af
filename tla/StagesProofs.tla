----------------------------- MODULE StagesProofs -----------------------------
(***************************************************************************)
(* For any requests, kinds, seats and options: that a stream which says    *)
(* done has shown every seat's every answer and stored the result before;  *)
(* that what is stored of a kind is whole; and that what the calibration   *)
(* counts was said.  The argument: every answer goes into the queue,       *)
(* nothing goes in after the end marker, the loop waits for the marker,    *)
(* and until a seat raises no answer is missing from what was collected.   *)
(***************************************************************************)
EXTENDS Stages, FiniteSetTheorems, FunctionTheorems, TLAPS

Scores(r) == [pair : Pairs(r), confidence : 0..Certain]
Fans(r) ==
    [pc : {"new", "asking", "returned", "raised"}, option : 0..Len(Questions(r)),
     waiting : SUBSET Seats, failing : BOOLEAN, got : SUBSET Scores(r),
     queue : Seq(Pairs(r) \cup {End})]

\* The threads are typed; the coroutines are records with these fields, whatever is
\* still to be recorded.
Shaped ==
    /\ kind \in [Requests -> Kinds]
    /\ DOMAIN fan = Requests /\ DOMAIN side = Requests
    /\ \A r \in Requests :
          /\ fan[r] \in Fans(r)
          /\ DOMAIN side[r] = {"pc", "told", "todo"} /\ side[r].told \subseteq Pairs(r)

\* The end marker is the last of its queue, and the fan-out is over once it is there.
EndIsLast ==
    \A r \in Requests :
        /\ \A i \in DOMAIN fan[r].queue : fan[r].queue[i] = End => i = Len(fan[r].queue)
        /\ fan[r].pc \in {"new", "asking"} => \A i \in DOMAIN fan[r].queue : fan[r].queue[i] # End

Queued(r) == {fan[r].queue[i] : i \in DOMAIN fan[r].queue}

\* An answer of a stream's fan-out is in the queue or was shown.
Passed(r) ==
    r \in Streams /\ ~fan[r].failing /\ fan[r].pc # "new" =>
        \A k \in 1..fan[r].option, s \in Seats :
            \/ k = fan[r].option /\ s \in fan[r].waiting
            \/ <<k, s>> \in side[r].told \cup Queued(r)

\* A fan-out that returned has asked everything and waits for nobody.
Over(r) ==
    fan[r].pc = "returned" =>
        ~fan[r].failing /\ fan[r].waiting = {} /\ fan[r].option = Len(Questions(r))

\* What was asked, shown and stored by the time a request asks, stores, records, or is done.
Kept(r) ==
    /\ side[r].pc \in {"new", "drafting"} => fan[r].pc = "new"
    /\ r \in Streams /\ side[r].pc \in {"saving", "predicting", "done"} => side[r].told = Pairs(r)
    /\ side[r].pc \in {"predicting", "done"} => \E t \in stored : t.by = r

\* The seats are asked about an option.
Asked(r) == fan[r].pc = "asking" => fan[r].option > 0

IInv ==
    /\ Shaped /\ EndIsLast
    /\ \A r \in Requests : Passed(r) /\ Over(r) /\ Kept(r) /\ Asked(r)

\* There is a question.
LEMMA QuestionsType ==
    ASSUME NEW r
    PROVE  /\ Len(Questions(r)) \in Nat /\ Len(Questions(r)) > 0
           /\ DOMAIN Questions(r) = 1..Len(Questions(r))
<1>1. CASE kind[r] = "score"
  BY <1>1, OptionsAssumption DEF Questions
<1>2. CASE kind[r] # "score"
  BY <1>2 DEF Questions
<1> QED
  BY <1>1, <1>2

LEMMA SeatsOfPairs ==
    ASSUME NEW r \in Requests, NEW k \in 1..Len(Questions(r)), NEW s \in Seats
    PROVE  <<k, s>> \in Pairs(r) /\ <<k, s>> # End
<1>1. k \in DOMAIN Questions(r) /\ k \in Nat
  BY QuestionsType
<1> DEFINE pair == <<k, s>>
<1>2. pair \in Nat \X Seats
  BY <1>1
<1>3. pair # End
  <2> HIDE DEF pair
  <2> QED
    BY <1>2, EndAssumption
<1> QED
  BY <1>1, <1>3 DEF Pairs

LEMMA AllPairs ==
    ASSUME NEW r \in Requests, NEW S,
           \A k \in 1..Len(Questions(r)), s \in Seats : <<k, s>> \in S
    PROVE  Pairs(r) \subseteq S
BY QuestionsType DEF Pairs

LEMMA CertainType == Certain \in Nat /\ 0 \in 0..Certain
BY DEF Certain

LEMMA OpinionsType == \A r \in Requests : \A c \in Opinions(r) : c \in 0..Certain
<1> SUFFICES ASSUME NEW r \in Requests, NEW c \in Opinions(r)
             PROVE  c \in 0..Certain
  OBVIOUS
<1>1. Confidences[r] \in SUBSET (0..Certain)
  BY ConfidencesAssumption
<1> QED
  BY <1>1, CertainType DEF Opinions

LEMMA NotAskedType ==
    ASSUME kind \in [Requests -> Kinds], NEW r \in Requests
    PROVE  NotAsked \in Fans(r) /\ NotAsked.pc = "new" /\ NotAsked.queue = <<>>
BY QuestionsType DEF NotAsked, Fans

\* What a request is for never changes.
LEMMA SameQuestions ==
    ASSUME kind' = kind, NEW r
    PROVE  Questions(r)' = Questions(r) /\ Pairs(r)' = Pairs(r) /\ Fans(r)' = Fans(r)
<1>1. Questions(r)' = Questions(r)
  BY DEF Questions
<1>2. Pairs(r)' = Pairs(r)
  BY <1>1 DEF Pairs
<1>3. Scores(r)' = Scores(r)
  BY <1>2 DEF Scores
<1> QED
  BY <1>1, <1>2, <1>3 DEF Fans

LEMMA InitIInv == Init => IInv
<1> SUFFICES ASSUME Init PROVE IInv
  OBVIOUS
<1>1. fan = [r \in Requests |-> NotAsked] /\ kind \in [Requests -> Kinds]
  BY DEF Init
<1>2. side = [r \in Requests |-> [pc |-> "new", told |-> {}, todo |-> {}]]
  BY DEF Init
<1>3. Shaped
  BY <1>1, <1>2, NotAskedType DEF Shaped
<1>4. \A r \in Requests : fan[r].pc = "new" /\ fan[r].queue = <<>> /\ side[r].pc = "new"
  BY <1>1, <1>2, NotAskedType
<1>5. EndIsLast
  BY <1>4 DEF EndIsLast
<1>6. \A r \in Requests : Passed(r) /\ Over(r) /\ Kept(r) /\ Asked(r)
  BY <1>4 DEF Passed, Over, Kept, Asked
<1> QED
  BY <1>3, <1>5, <1>6 DEF IInv

\* A step that touches one request only.
Alone(r) == \A q \in Requests \ {r} : fan'[q] = fan[q] /\ side'[q] = side[q]

LEMMA OneRequest ==
    ASSUME IInv, NEW r \in Requests, kind' = kind, Alone(r), stored \subseteq stored', Shaped',
           Passed(r)', Over(r)', Kept(r)', Asked(r)',
           \A i \in DOMAIN fan'[r].queue : fan'[r].queue[i] = End =>
               i = Len(fan'[r].queue) /\ fan'[r].pc \notin {"new", "asking"}
    PROVE  IInv'
<1>1. EndIsLast'
  BY DEF IInv, EndIsLast, Alone
<1>2. \A q \in Requests : Passed(q)' /\ Over(q)' /\ Kept(q)' /\ Asked(q)'
  <2> SUFFICES ASSUME NEW q \in Requests, q # r
               PROVE  Passed(q)' /\ Over(q)' /\ Kept(q)' /\ Asked(q)'
    OBVIOUS
  <2>1. fan'[q] = fan[q] /\ side'[q] = side[q]
    BY DEF Alone
  <2>2. Passed(q) /\ Over(q) /\ Kept(q) /\ Asked(q)
    BY DEF IInv
  <2> QED
    BY <2>1, <2>2, SameQuestions DEF Passed, Over, Kept, Asked, Queued
<1> QED
  BY <1>1, <1>2 DEF IInv

\* A step of the coroutine that leaves what was shown and the queue alone.
LEMMA SideStep ==
    ASSUME IInv, NEW r \in Requests, kind' = kind, fan' = fan, DOMAIN side' = Requests,
           DOMAIN side'[r] = {"pc", "told", "todo"}, side'[r].told = side[r].told,
           \A q \in Requests \ {r} : side'[q] = side[q], stored \subseteq stored', Kept(r)'
    PROVE  IInv'
<1>1. Shaped'
  BY SameQuestions DEF IInv, Shaped
<1>2. Alone(r)
  BY DEF Alone
<1>5. fan'[r] = fan[r] /\ Queued(r)' = Queued(r) /\ side'[r].told = side[r].told
  BY DEF Queued
<1>6. Passed(r) /\ Over(r) /\ Asked(r)
  BY DEF IInv
<1>3. Passed(r)' /\ Over(r)' /\ Asked(r)'
  BY <1>5, <1>6, SameQuestions DEF Passed, Over, Asked
<1>4. \A i \in DOMAIN fan'[r].queue : fan'[r].queue[i] = End =>
          i = Len(fan'[r].queue) /\ fan'[r].pc \notin {"new", "asking"}
  BY DEF IInv, EndIsLast
<1> QED
  BY <1>1, <1>2, <1>3, <1>4, OneRequest

LEMMA AsksStep ==
    ASSUME IInv, NEW r \in Requests, side[r].pc \in {"new", "drafting"}, Asks(r),
           kind' = kind, stored' = stored
    PROVE  IInv'
<1>1. /\ fan' = [fan EXCEPT ![r].pc = "asking", ![r].option = 1, ![r].waiting = Seats]
      /\ side' = [side EXCEPT ![r].pc = "open"]
      /\ fan[r] \in Fans(r) /\ fan[r].pc = "new" /\ kind \in [Requests -> Kinds]
  BY DEF Asks, IInv, Shaped, Kept
<1>2. 1 \in 0..Len(Questions(r))
  BY <1>1, QuestionsType
<1>3. /\ DOMAIN fan' = Requests /\ fan'[r] \in Fans(r)
      /\ \A q \in Requests \ {r} : fan'[q] = fan[q]
  BY <1>1, <1>2 DEF IInv, Shaped, Fans
<1>4. /\ DOMAIN side' = Requests /\ side'[r].told = side[r].told /\ side'[r].pc = "open"
      /\ DOMAIN side'[r] = {"pc", "told", "todo"}
      /\ \A q \in Requests \ {r} : side'[q] = side[q]
  BY <1>1 DEF IInv, Shaped
<1>5. Shaped'
  BY <1>3, <1>4, SameQuestions DEF IInv, Shaped
<1>6. /\ fan'[r].pc = "asking" /\ fan'[r].option = 1 /\ fan'[r].waiting = Seats
      /\ fan'[r].queue = fan[r].queue
  BY <1>1 DEF IInv, Shaped, Fans
<1>7. Alone(r)
  BY <1>3, <1>4 DEF Alone
<1>8. Passed(r)' /\ Over(r)' /\ Kept(r)' /\ Asked(r)'
  BY <1>4, <1>6 DEF Passed, Over, Kept, Asked
<1>9. \A i \in DOMAIN fan'[r].queue : fan'[r].queue[i] # End
  BY <1>1, <1>6 DEF IInv, EndIsLast
<1> QED
  BY <1>5, <1>7, <1>8, <1>9, OneRequest

LEMMA AskStep == ASSUME IInv, NEW r \in Requests, Ask(r) PROVE IInv'
BY AsksStep DEF Ask, tables

\* What a step of the thread has to keep.
LEMMA FanStep ==
    ASSUME IInv, NEW r \in Requests, NEW f \in Fans(r), fan' = [fan EXCEPT ![r] = f],
           kind' = kind, side' = side, stored' = stored, fan[r].pc # "new", f.pc # "new",
           f.pc = "asking" => f.option > 0,
           \A i \in DOMAIN f.queue : f.queue[i] = End =>
               i = Len(f.queue) /\ f.pc \notin {"new", "asking"},
           f.pc = "returned" => ~f.failing /\ f.waiting = {} /\ f.option = Len(Questions(r)),
           r \in Streams /\ ~f.failing =>
               \A k \in 1..f.option, s \in Seats :
                   \/ k = f.option /\ s \in f.waiting
                   \/ <<k, s>> \in side[r].told
                   \/ \E i \in DOMAIN f.queue : f.queue[i] = <<k, s>>
    PROVE  IInv'
<1>1. /\ DOMAIN fan' = Requests /\ fan'[r] = f
      /\ \A q \in Requests \ {r} : fan'[q] = fan[q]
  BY DEF IInv, Shaped
<1>2. Shaped'
  BY <1>1, SameQuestions DEF IInv, Shaped
<1>3. Alone(r)
  BY <1>1 DEF Alone
<1>6. Passed(r)'
  <2> SUFFICES ASSUME r \in Streams, ~f.failing, NEW k \in 1..f.option, NEW s \in Seats
               PROVE  \/ k = f.option /\ s \in f.waiting
                      \/ <<k, s>> \in (side[r].told \cup Queued(r))'
    BY <1>1 DEF Passed
  <2> DEFINE pair == <<k, s>>
  <2>1. \/ k = f.option /\ s \in f.waiting
        \/ pair \in side[r].told
        \/ \E i \in DOMAIN f.queue : f.queue[i] = pair
    OBVIOUS
  <2> HIDE DEF pair
  <2>2. \/ k = f.option /\ s \in f.waiting
        \/ pair \in (side[r].told \cup Queued(r))'
    BY <1>1, <2>1 DEF Queued
  <2> QED
    BY <2>2 DEF pair
<1>4. Over(r)' /\ Asked(r)'
  BY <1>1, SameQuestions DEF Over, Asked
<1>5. Kept(r)'
  BY <1>1, SameQuestions DEF IInv, Kept
<1> QED
  BY <1>1, <1>2, <1>3, <1>4, <1>5, <1>6, OneRequest

\* Where the answers of a request under way are.
LEMMA UnderWay ==
    ASSUME IInv, NEW r \in Requests, fan[r].pc = "asking"
    PROVE  /\ fan[r] \in Fans(r) /\ fan[r].option \in 1..Len(Questions(r))
           /\ kind \in [Requests -> Kinds]
           /\ \A i \in DOMAIN fan[r].queue : fan[r].queue[i] # End
           /\ r \in Streams /\ ~fan[r].failing =>
                  \A k \in 1..fan[r].option, t \in Seats :
                      \/ k = fan[r].option /\ t \in fan[r].waiting
                      \/ <<k, t>> \in side[r].told
                      \/ \E i \in DOMAIN fan[r].queue : fan[r].queue[i] = <<k, t>>
<1>1. fan[r] \in Fans(r) /\ EndIsLast /\ Passed(r) /\ kind \in [Requests -> Kinds]
  BY DEF IInv, Shaped
<1>2. \A i \in DOMAIN fan[r].queue : fan[r].queue[i] # End
  BY <1>1 DEF EndIsLast
<1>3. ASSUME r \in Streams, ~fan[r].failing
      PROVE  \A k \in 1..fan[r].option, t \in Seats :
                 \/ k = fan[r].option /\ t \in fan[r].waiting
                 \/ <<k, t>> \in side[r].told \cup Queued(r)
  BY <1>1, <1>3 DEF Passed
<1>4. fan[r].option > 0 /\ fan[r].option \in 0..Len(Questions(r))
  BY <1>1 DEF IInv, Asked, Fans
<1>5. fan[r].option \in 1..Len(Questions(r))
  BY <1>1, <1>4, QuestionsType
<1> QED
  BY <1>1, <1>2, <1>3, <1>5 DEF Queued

LEMMA SeatDoneStep ==
    ASSUME IInv, NEW r \in Requests, NEW s \in Seats, SeatDone(r, s)
    PROVE  IInv'
<1> DEFINE f == fan[r]
<1>1. /\ f.pc = "asking" /\ s \in f.waiting
      /\ kind' = kind /\ side' = side /\ stored' = stored
      /\ Answer(r, s) \/ Raise(r, s)
  BY DEF SeatDone, tables
<1>2. /\ f \in Fans(r) /\ f.option \in 1..Len(Questions(r)) /\ Len(Questions(r)) \in Nat
      /\ kind \in [Requests -> Kinds]
      /\ \A i \in DOMAIN f.queue : f.queue[i] # End
      /\ r \in Streams /\ ~f.failing =>
             \A k \in 1..f.option, t \in Seats :
                 \/ k = f.option /\ t \in f.waiting
                 \/ <<k, t>> \in side[r].told
                 \/ \E i \in DOMAIN f.queue : f.queue[i] = <<k, t>>
  BY <1>1, UnderWay, QuestionsType
<1>3. CASE Raise(r, s)
  <2> DEFINE waiting == f.waiting \ {s}
             g == [f EXCEPT !.waiting = waiting, !.failing = TRUE]
  <2>1. fan' = [fan EXCEPT ![r] = g]
    BY <1>3 DEF Raise
  <2>2. waiting \in SUBSET Seats
    BY <1>2 DEF Fans
  <2>3. f.option > 0
    <3> HIDE DEF f
    <3> QED
      BY <1>2
  <2>4. /\ g \in Fans(r) /\ g.pc = "asking" /\ g.failing /\ g.queue = f.queue
        /\ g.option = f.option
    <3> HIDE DEF f, waiting
    <3> QED
      BY <1>1, <1>2, <2>2 DEF Fans
  <2>5. fan[r].pc # "new"
    BY <1>1
  <2> HIDE DEF f, g
  <2> QED
    BY <1>1, <1>2, <2>1, <2>3, <2>4, <2>5, FanStep
<1>4. CASE Answer(r, s)
  <2>1. PICK c \in Opinions(r) :
            LET pair == <<f.option, s>> IN
            fan' = [fan EXCEPT
                ![r].waiting = @ \ {s},
                ![r].got = IF f.failing THEN @ ELSE @ \cup {[pair |-> pair, confidence |-> c]},
                ![r].queue = IF f.failing \/ r \notin Streams THEN @ ELSE Append(@, pair)]
    BY <1>4 DEF Answer
  <2> DEFINE pair == <<f.option, s>>
             got == IF f.failing THEN f.got ELSE f.got \cup {[pair |-> pair, confidence |-> c]}
             queue == IF f.failing \/ r \notin Streams THEN f.queue ELSE Append(f.queue, pair)
             waiting == f.waiting \ {s}
             g == [f EXCEPT !.waiting = waiting, !.got = got, !.queue = queue]
  <2>2. fan' = [fan EXCEPT ![r] = g]
    BY <2>1
  <2>3. f.option \in 1..Len(Questions(r)) /\ f.option > 0 /\ pair \in Pairs(r) /\ pair # End
    BY <1>2, SeatsOfPairs
  <2>4. c \in 0..Certain
    BY OpinionsType
  <2>5. got \in SUBSET Scores(r) /\ waiting \in SUBSET Seats
    <3>1. f.got \in SUBSET Scores(r) /\ f.waiting \in SUBSET Seats
      BY <1>2 DEF Fans
    <3>2. [pair |-> pair, confidence |-> c] \in Scores(r)
      BY <2>3, <2>4 DEF Scores
    <3> QED
      BY <3>1, <3>2
  <2>6. /\ f.queue \in Seq(Pairs(r) \cup {End}) /\ f.option \in Nat /\ f.failing \in BOOLEAN
    BY <1>2 DEF Fans
  <2> HIDE DEF f, pair
  <2>7. /\ queue \in Seq(Pairs(r) \cup {End})
        /\ \A i \in DOMAIN queue : queue[i] # End
        /\ \A i \in DOMAIN f.queue : i \in DOMAIN queue /\ queue[i] = f.queue[i]
        /\ r \in Streams /\ ~f.failing => \E i \in DOMAIN queue : queue[i] = pair
    <3>1. Append(f.queue, pair) \in Seq(Pairs(r) \cup {End})
      BY <2>3, <2>6
    <3>2. \A i \in DOMAIN Append(f.queue, pair) :
              /\ i \in 1..Len(f.queue) + 1
              /\ Append(f.queue, pair)[i] = IF i = Len(f.queue) + 1 THEN pair ELSE f.queue[i]
      BY <2>6
    <3>3. /\ Len(f.queue) + 1 \in DOMAIN Append(f.queue, pair)
          /\ \A i \in DOMAIN f.queue : i \in DOMAIN Append(f.queue, pair) /\ i # Len(f.queue) + 1
          /\ \A i \in DOMAIN Append(f.queue, pair) : i # Len(f.queue) + 1 => i \in DOMAIN f.queue
      BY <2>6
    <3>4. CASE f.failing \/ r \notin Streams
      BY <1>2, <2>6, <3>4
    <3>5. CASE ~(f.failing \/ r \notin Streams)
      BY <1>2, <2>3, <3>1, <3>2, <3>3, <3>5
    <3> QED
      BY <3>4, <3>5
  <2> HIDE DEF got, queue, waiting
  <2>8. /\ g \in Fans(r) /\ g.pc = "asking" /\ g.option = f.option /\ g.failing = f.failing
        /\ g.waiting = waiting /\ g.queue = queue
    BY <1>1, <1>2, <2>5, <2>7 DEF Fans
  <2>9. r \in Streams /\ ~g.failing =>
            \A k \in 1..g.option, t \in Seats :
                \/ k = g.option /\ t \in g.waiting
                \/ <<k, t>> \in side[r].told
                \/ \E i \in DOMAIN g.queue : g.queue[i] = <<k, t>>
    <3> SUFFICES ASSUME r \in Streams, ~f.failing, NEW k \in 1..f.option, NEW t \in Seats
                 PROVE  \/ k = f.option /\ t \in waiting
                        \/ <<k, t>> \in side[r].told
                        \/ \E i \in DOMAIN queue : queue[i] = <<k, t>>
      BY <2>8
    <3>1. CASE k = f.option /\ t = s
      BY <2>7, <3>1 DEF pair
    <3>2. CASE ~(k = f.option /\ t = s)
      BY <1>2, <2>7, <3>2 DEF waiting
    <3> QED
      BY <3>1, <3>2
  <2>10. \A i \in DOMAIN g.queue : g.queue[i] = End =>
             i = Len(g.queue) /\ g.pc \notin {"new", "asking"}
    BY <2>7, <2>8
  <2>11. /\ g.pc # "new" /\ (g.pc = "asking" => g.option > 0)
         /\ g.pc = "returned" => ~g.failing /\ g.waiting = {} /\ g.option = Len(Questions(r))
    BY <2>3, <2>8
  <2>12. /\ g \in Fans(r) /\ kind' = kind /\ side' = side /\ stored' = stored
         /\ fan[r].pc # "new"
    BY <1>1, <2>8 DEF f
  <2> HIDE DEF g
  <2> QED
    BY <2>2, <2>9, <2>10, <2>11, <2>12, FanStep
<1> QED
  BY <1>1, <1>3, <1>4

LEMMA NextOptionStep ==
    ASSUME IInv, NEW r \in Requests, NextOption(r) PROVE IInv'
<1> DEFINE f == fan[r]
           next == f.option + 1
           g == [f EXCEPT !.option = next, !.waiting = Seats]
<1>1. /\ f.pc = "asking" /\ f.waiting = {} /\ ~f.failing /\ f.option < Len(Questions(r))
      /\ fan' = [fan EXCEPT ![r] = g] /\ fan[r].pc = "asking"
      /\ kind' = kind /\ side' = side /\ stored' = stored
  BY DEF NextOption, tables
<1>2. /\ f \in Fans(r) /\ f.option \in 1..Len(Questions(r)) /\ Len(Questions(r)) \in Nat
      /\ kind \in [Requests -> Kinds]
      /\ \A i \in DOMAIN f.queue : f.queue[i] # End
      /\ r \in Streams /\ ~f.failing =>
             \A k \in 1..f.option, t \in Seats :
                 \/ k = f.option /\ t \in f.waiting
                 \/ <<k, t>> \in side[r].told
                 \/ \E i \in DOMAIN f.queue : f.queue[i] = <<k, t>>
  BY <1>1, UnderWay, QuestionsType
<1> HIDE DEF f
<1>3. /\ next \in 0..Len(Questions(r)) /\ next > 0
      /\ \A k \in 1..next : k = next \/ k \in 1..f.option
  BY <1>1, <1>2
<1> HIDE DEF next
<1>4. /\ g \in Fans(r) /\ g.pc = "asking" /\ g.option = next /\ g.waiting = Seats
      /\ g.queue = f.queue /\ ~g.failing
  BY <1>1, <1>2, <1>3 DEF Fans
<1>5. \A i \in DOMAIN g.queue : g.queue[i] = End =>
          i = Len(g.queue) /\ g.pc \notin {"new", "asking"}
  BY <1>2, <1>4
<1>6. /\ g.pc # "new" /\ (g.pc = "asking" => g.option > 0)
      /\ g.pc = "returned" => ~g.failing /\ g.waiting = {} /\ g.option = Len(Questions(r))
  BY <1>3, <1>4
<1>7. r \in Streams /\ ~g.failing =>
          \A k \in 1..g.option, t \in Seats :
              \/ k = g.option /\ t \in g.waiting
              \/ <<k, t>> \in side[r].told
              \/ \E i \in DOMAIN g.queue : g.queue[i] = <<k, t>>
  BY <1>1, <1>2, <1>3, <1>4
<1> HIDE DEF g
<1> QED
  BY <1>1, <1>4, <1>5, <1>6, <1>7, FanStep

LEMMA FanEndsStep ==
    ASSUME IInv, NEW r \in Requests, FanEnds(r) PROVE IInv'
<1> DEFINE f == fan[r]
           pc == IF f.failing THEN "raised" ELSE "returned"
           queue == IF r \in Streams THEN Append(f.queue, End) ELSE f.queue
           g == [f EXCEPT !.pc = pc, !.queue = queue]
<1>1. /\ f.pc = "asking" /\ f.waiting = {} /\ (f.failing \/ f.option = Len(Questions(r)))
      /\ fan' = [fan EXCEPT ![r] = g] /\ fan[r].pc = "asking"
      /\ kind' = kind /\ side' = side /\ stored' = stored
  BY DEF FanEnds, Closing, tables
<1>2. /\ f \in Fans(r) /\ f.option \in 1..Len(Questions(r)) /\ Len(Questions(r)) \in Nat
      /\ kind \in [Requests -> Kinds]
      /\ \A i \in DOMAIN f.queue : f.queue[i] # End
      /\ r \in Streams /\ ~f.failing =>
             \A k \in 1..f.option, t \in Seats :
                 \/ k = f.option /\ t \in f.waiting
                 \/ <<k, t>> \in side[r].told
                 \/ \E i \in DOMAIN f.queue : f.queue[i] = <<k, t>>
  BY <1>1, UnderWay, QuestionsType
<1> HIDE DEF f
<1>3. f.queue \in Seq(Pairs(r) \cup {End}) /\ f.failing \in BOOLEAN
  BY <1>2 DEF Fans
<1>4. /\ queue \in Seq(Pairs(r) \cup {End})
      /\ \A i \in DOMAIN queue : queue[i] = End => i = Len(queue)
      /\ \A i \in DOMAIN f.queue : i \in DOMAIN queue /\ queue[i] = f.queue[i]
  <2>1. Append(f.queue, End) \in Seq(Pairs(r) \cup {End})
    BY <1>3
  <2>2. \A i \in DOMAIN Append(f.queue, End) :
            \/ i = Len(Append(f.queue, End))
            \/ i \in DOMAIN f.queue /\ Append(f.queue, End)[i] = f.queue[i]
    BY <1>3
  <2>3. \A i \in DOMAIN f.queue :
            i \in DOMAIN Append(f.queue, End) /\ Append(f.queue, End)[i] = f.queue[i]
    BY <1>3
  <2>4. CASE r \in Streams
    BY <1>2, <2>1, <2>2, <2>3, <2>4
  <2>5. CASE r \notin Streams
    BY <1>2, <1>3, <2>5
  <2> QED
    BY <2>4, <2>5
<1>5. pc \in {"raised", "returned"} /\ (pc = "returned" => ~f.failing)
  OBVIOUS
<1> HIDE DEF pc, queue
<1>6. /\ g \in Fans(r) /\ g.pc = pc /\ g.option = f.option /\ g.waiting = {}
      /\ g.queue = queue /\ g.failing = f.failing
  BY <1>1, <1>2, <1>4, <1>5 DEF Fans
<1>7. \A i \in DOMAIN g.queue : g.queue[i] = End =>
          i = Len(g.queue) /\ g.pc \notin {"new", "asking"}
  BY <1>4, <1>5, <1>6
<1>8. /\ g.pc # "new" /\ (g.pc = "asking" => g.option > 0)
      /\ g.pc = "returned" => ~g.failing /\ g.waiting = {} /\ g.option = Len(Questions(r))
  BY <1>1, <1>5, <1>6
<1>9. r \in Streams /\ ~g.failing =>
          \A k \in 1..g.option, t \in Seats :
              \/ k = g.option /\ t \in g.waiting
              \/ <<k, t>> \in side[r].told
              \/ \E i \in DOMAIN g.queue : g.queue[i] = <<k, t>>
  <2> SUFFICES ASSUME r \in Streams, ~f.failing, NEW k \in 1..f.option, NEW t \in Seats
               PROVE  \/ <<k, t>> \in side[r].told
                      \/ \E i \in DOMAIN queue : queue[i] = <<k, t>>
    BY <1>6
  <2>1. t \notin f.waiting
    BY <1>1
  <2>2. \/ <<k, t>> \in side[r].told
        \/ \E i \in DOMAIN f.queue : f.queue[i] = <<k, t>>
    BY <1>2, <2>1
  <2> QED
    BY <1>4, <2>2
<1> HIDE DEF g
<1> QED
  BY <1>1, <1>6, <1>7, <1>8, <1>9, FanStep

LEMMA DeliverStep ==
    ASSUME IInv, NEW r \in Requests, Deliver(r) PROVE IInv'
<1> DEFINE f == fan[r]
           queue == Tail(f.queue)
           head == Head(f.queue)
           g == [f EXCEPT !.queue = queue]
<1>1. /\ r \in Streams /\ side[r].pc = "open" /\ f.queue # <<>> /\ head # End
      /\ fan' = [fan EXCEPT ![r] = g] /\ kind' = kind /\ stored' = stored
      /\ side' = [side EXCEPT ![r].told = @ \cup {head}]
  BY DEF Deliver, Drained, tables
<1>2. f \in Fans(r)
  BY DEF IInv, Shaped
<1>3. /\ \A i \in DOMAIN f.queue : f.queue[i] = End => i = Len(f.queue)
      /\ f.pc \in {"new", "asking"} => \A i \in DOMAIN f.queue : f.queue[i] # End
  BY DEF IInv, EndIsLast
<1>4. /\ DOMAIN side' = Requests /\ side'[r].pc = "open"
      /\ side'[r].told = side[r].told \cup {head}
      /\ DOMAIN side'[r] = {"pc", "told", "todo"}
      /\ \A q \in Requests \ {r} : side'[q] = side[q]
  BY <1>1 DEF IInv, Shaped
<1>5. f.queue \in Seq(Pairs(r) \cup {End})
  BY <1>2 DEF Fans
<1> HIDE DEF f
<1>6. /\ queue \in Seq(Pairs(r) \cup {End}) /\ head \in Pairs(r)
      /\ Len(queue) = Len(f.queue) - 1
      /\ \A i \in DOMAIN queue : i + 1 \in DOMAIN f.queue /\ queue[i] = f.queue[i + 1]
  <2>1. f.queue # <<>> /\ head # End
    BY <1>1
  <2>2. 1 \in DOMAIN f.queue /\ head = f.queue[1]
    BY <2>1, <1>5
  <2>3. head \in Pairs(r) \cup {End}
    BY <2>2, <1>5
  <2>4. queue \in Seq(Pairs(r) \cup {End}) /\ Len(queue) = Len(f.queue) - 1
    BY <2>1, <1>5
  <2>5. \A i \in DOMAIN queue : i + 1 \in DOMAIN f.queue /\ queue[i] = f.queue[i + 1]
    BY <2>1, <1>5
  <2> QED
    BY <2>1, <2>3, <2>4, <2>5
<1>7. \A i \in DOMAIN f.queue : f.queue[i] = head \/ \E j \in DOMAIN queue : queue[j] = f.queue[i]
  <2> SUFFICES ASSUME NEW i \in DOMAIN f.queue, i # 1
               PROVE  \E j \in DOMAIN queue : queue[j] = f.queue[i]
    BY <1>5
  <2>1. i - 1 \in DOMAIN queue /\ queue[i - 1] = f.queue[i]
    BY <1>1, <1>5
  <2> QED
    BY <2>1
<1>8. \A i \in DOMAIN queue : queue[i] = End =>
          i = Len(queue) /\ f.pc \notin {"new", "asking"}
  <2> SUFFICES ASSUME NEW i \in DOMAIN queue, queue[i] = End
               PROVE  i = Len(queue) /\ f.pc \notin {"new", "asking"}
    OBVIOUS
  <2>1. i + 1 \in DOMAIN f.queue /\ f.queue[i + 1] = End
    BY <1>6
  <2>2. i + 1 = Len(f.queue) /\ f.pc \notin {"new", "asking"}
    BY <2>1, <1>3
  <2> QED
    BY <2>2, <1>6, <1>5
<1> HIDE DEF queue, head
<1>9. /\ g \in Fans(r) /\ g.queue = queue /\ g.pc = f.pc /\ g.option = f.option
      /\ g.waiting = f.waiting /\ g.failing = f.failing
  BY <1>2, <1>6 DEF Fans
<1> HIDE DEF g
<1>10. fan'[r] = g /\ \A q \in Requests \ {r} : fan'[q] = fan[q]
  BY <1>1 DEF IInv, Shaped
<1>11. Shaped'
  <2>1. DOMAIN fan' = Requests
    BY <1>1 DEF IInv, Shaped
  <2> QED
    BY <1>1, <1>4, <1>6, <1>9, <1>10, <2>1, SameQuestions DEF IInv, Shaped
<1>12. Alone(r)
  BY <1>4, <1>10 DEF Alone
<1>13. Passed(r)'
  <2> SUFFICES ASSUME ~f.failing, f.pc # "new", NEW k \in 1..f.option, NEW t \in Seats
               PROVE  \/ k = f.option /\ t \in f.waiting
                      \/ <<k, t>> \in (side[r].told \cup Queued(r))'
    BY <1>9, <1>10 DEF Passed
  <2> DEFINE pair == <<k, t>>
  <2>1. \/ k = f.option /\ t \in f.waiting
        \/ pair \in side[r].told
        \/ \E i \in DOMAIN f.queue : f.queue[i] = pair
    BY <1>1 DEF IInv, Passed, Queued, f
  <2> HIDE DEF pair
  <2>2. \/ k = f.option /\ t \in f.waiting
        \/ pair \in side'[r].told
        \/ \E i \in DOMAIN queue : queue[i] = pair
    BY <1>4, <1>7, <2>1
  <2>3. \/ k = f.option /\ t \in f.waiting
        \/ pair \in (side[r].told \cup Queued(r))'
    BY <1>9, <1>10, <2>2 DEF Queued
  <2> QED
    BY <2>3 DEF pair
<1>14. Over(r)' /\ Asked(r)'
  <2>1. Over(r) /\ Asked(r)
    BY DEF IInv
  <2> QED
    BY <1>1, <2>1, <1>9, <1>10, SameQuestions DEF Over, Asked, f
<1>15. Kept(r)'
  BY <1>4 DEF Kept
<1>16. \A i \in DOMAIN fan'[r].queue : fan'[r].queue[i] = End =>
           i = Len(fan'[r].queue) /\ fan'[r].pc \notin {"new", "asking"}
  BY <1>8, <1>9, <1>10
<1> QED
  BY <1>1, <1>11, <1>12, <1>13, <1>14, <1>15, <1>16, OneRequest

\* The marker is all that is left of the queue of a fan-out that is over.
LEMMA ShownInFull ==
    ASSUME IInv, NEW r \in Requests, r \in Streams, Drained(r), fan[r].pc # "raised"
    PROVE  side[r].told = Pairs(r)
<1> DEFINE f == fan[r]
<1>1. f \in Fans(r) /\ side[r].told \subseteq Pairs(r) /\ kind \in [Requests -> Kinds]
  BY DEF IInv, Shaped
<1>2. /\ \A i \in DOMAIN f.queue : f.queue[i] = End => i = Len(f.queue)
      /\ f.pc \in {"new", "asking"} => \A i \in DOMAIN f.queue : f.queue[i] # End
  BY DEF IInv, EndIsLast
<1>3. f.queue # <<>> /\ Head(f.queue) = End /\ f.pc # "raised"
  BY DEF Drained
<1>4. Passed(r) /\ Over(r)
  BY DEF IInv
<1>5. f.queue \in Seq(Pairs(r) \cup {End}) /\ f.pc \in {"new", "asking", "returned", "raised"}
  BY <1>1 DEF Fans
<1> HIDE DEF f
<1>6. 1 \in DOMAIN f.queue /\ f.queue[1] = End
  BY <1>3, <1>5
<1>7. f.pc = "returned" /\ Len(f.queue) = 1
  BY <1>2, <1>3, <1>5, <1>6
<1>8. \A i \in DOMAIN f.queue : f.queue[i] = End
  BY <1>5, <1>6, <1>7
<1>9. ~f.failing /\ f.waiting = {} /\ f.option = Len(Questions(r))
  BY <1>4, <1>7 DEF Over, f
<1>10. \A k \in 1..Len(Questions(r)), s \in Seats : <<k, s>> \in side[r].told
  <2> SUFFICES ASSUME NEW k \in 1..Len(Questions(r)), NEW s \in Seats
               PROVE  <<k, s>> \in side[r].told
    OBVIOUS
  <2>1. <<k, s>> \in side[r].told \cup Queued(r)
    BY <1>4, <1>7, <1>9 DEF Passed, f
  <2>2. <<k, s>> \notin Queued(r)
    BY <1>1, <1>8, SeatsOfPairs DEF Queued, f
  <2> QED
    BY <2>1, <2>2
<1> QED
  BY <1>1, <1>10, AllPairs

\* What the coroutine's own record looks like after a step.
LEMMA Recorded ==
    ASSUME IInv, NEW r \in Requests, NEW p, side' = [side EXCEPT ![r].pc = p]
    PROVE  /\ DOMAIN side' = Requests
           /\ DOMAIN side'[r] = {"pc", "told", "todo"} /\ side'[r].told = side[r].told
           /\ side'[r].pc = p
           /\ \A q \in Requests \ {r} : side'[q] = side[q]
BY DEF IInv, Shaped

LEMMA JoinStep ==
    ASSUME IInv, NEW r \in Requests, Join(r) PROVE IInv'
<1>1. r \in Streams /\ Drained(r) /\ kind' = kind /\ fan' = fan /\ stored' = stored
  BY DEF Join, tables
<1>2. CASE fan[r].pc = "raised"
  <2>1. side' = [side EXCEPT ![r].pc = "error"]
    BY <1>2 DEF Join
  <2>2. Kept(r)'
    BY <2>1, Recorded DEF Kept
  <2> QED
    BY <1>1, <2>1, <2>2, Recorded, SideStep
<1>3. CASE fan[r].pc # "raised"
  <2>1. side' = [side EXCEPT ![r].pc = "saving"]
    BY <1>3 DEF Join
  <2>2. side[r].told = Pairs(r)
    BY <1>1, <1>3, ShownInFull
  <2>3. side'[r].pc = "saving" /\ side'[r].told = Pairs(r)
    BY <2>1, <2>2, Recorded
  <2>4. Kept(r)'
    BY <1>1, <2>3, SameQuestions DEF Kept
  <2> QED
    BY <1>1, <2>1, <2>4, Recorded, SideStep
<1> QED
  BY <1>2, <1>3

LEMMA ReturnStep ==
    ASSUME IInv, NEW r \in Requests, Return(r) PROVE IInv'
<1> DEFINE p == IF fan[r].pc = "raised" THEN "error" ELSE "saving"
<1>1. /\ r \notin Streams /\ kind' = kind /\ fan' = fan /\ stored' = stored
      /\ side' = [side EXCEPT ![r].pc = p]
  BY DEF Return, tables
<1>2. p \notin {"new", "drafting", "predicting", "done"}
  OBVIOUS
<1> HIDE DEF p
<1>3. side'[r].pc = p
  BY <1>1, Recorded
<1>4. Kept(r)'
  BY <1>1, <1>2, <1>3 DEF Kept
<1> QED
  BY <1>1, <1>4, Recorded, SideStep

LEMMA SaveStep ==
    ASSUME IInv, NEW r \in Requests, Save(r) PROVE IInv'
<1> DEFINE todo == Recording(r)
<1>1. /\ side[r].pc = "saving" /\ kind' = kind /\ fan' = fan
      /\ side' = [side EXCEPT ![r].pc = "predicting", ![r].todo = todo]
      /\ stored' = stored \cup {[by |-> r, got |-> fan[r].got]}
  BY DEF Save
<1> HIDE DEF todo
<1>2. /\ DOMAIN side' = Requests
      /\ DOMAIN side'[r] = {"pc", "told", "todo"} /\ side'[r].told = side[r].told
      /\ side'[r].pc = "predicting"
      /\ \A q \in Requests \ {r} : side'[q] = side[q]
  BY <1>1 DEF IInv, Shaped
<1>3. \E t \in stored' : t.by = r
  <2> DEFINE own == [by |-> r, got |-> fan[r].got]
  <2>1. own \in stored' /\ own.by = r
    BY <1>1
  <2> HIDE DEF own
  <2> QED
    BY <2>1
<1>4. r \in Streams => side[r].told = Pairs(r)
  BY <1>1 DEF IInv, Kept
<1>5. Kept(r)'
  BY <1>1, <1>2, <1>3, <1>4, SameQuestions DEF Kept
<1>6. stored \subseteq stored'
  BY <1>1
<1> QED
  BY <1>1, <1>2, <1>5, <1>6, SideStep

LEMMA PredictStep ==
    ASSUME IInv, NEW r \in Requests, Predict(r) PROVE IInv'
<1>1. /\ side[r].pc = "predicting" /\ kind' = kind /\ fan' = fan /\ stored' = stored
      /\ \E todo : side' = [side EXCEPT ![r].todo = todo]
  BY DEF Predict
<1>2. /\ DOMAIN side' = Requests
      /\ DOMAIN side'[r] = {"pc", "told", "todo"} /\ side'[r].told = side[r].told
      /\ side'[r].pc = side[r].pc
      /\ \A q \in Requests \ {r} : side'[q] = side[q]
  BY <1>1 DEF IInv, Shaped
<1>3. Kept(r)'
  BY <1>1, <1>2, SameQuestions DEF IInv, Kept
<1> QED
  BY <1>1, <1>2, <1>3, SideStep

LEMMA DoneStep ==
    ASSUME IInv, NEW r \in Requests, Done(r) PROVE IInv'
<1>1. /\ side[r].pc = "predicting" /\ kind' = kind /\ fan' = fan /\ stored' = stored
      /\ \/ side' = [side EXCEPT ![r].pc = "done"]
         \/ side' = [side EXCEPT ![r].pc = "gone"]
  BY DEF Done, tables
<1>2. CASE side' = [side EXCEPT ![r].pc = "done"]
  <2>1. Kept(r)'
    BY <1>1, <1>2, Recorded, SameQuestions DEF IInv, Kept
  <2> QED
    BY <1>1, <1>2, <2>1, Recorded, SideStep
<1>3. CASE side' = [side EXCEPT ![r].pc = "gone"]
  <2>1. Kept(r)'
    BY <1>3, Recorded DEF Kept
  <2> QED
    BY <1>1, <1>3, <2>1, Recorded, SideStep
<1> QED
  BY <1>1, <1>2, <1>3

LEMMA LeaveStep ==
    ASSUME IInv, NEW r \in Requests, Leave(r) PROVE IInv'
<1>1. /\ kind' = kind /\ fan' = fan /\ stored' = stored
      /\ side' = [side EXCEPT ![r].pc = "gone"]
  BY DEF Leave, tables
<1>2. Kept(r)'
  BY <1>1, Recorded DEF Kept
<1> QED
  BY <1>1, <1>2, Recorded, SideStep

\* A memo is drafted, or its drafting fails.
LEMMA DraftStep ==
    ASSUME IInv, NEW r \in Requests, NEW p, p # "done", p # "saving", p # "predicting",
           side[r].pc \in {"new", "drafting"}, side' = [side EXCEPT ![r].pc = p],
           kind' = kind, fan' = fan, stored' = stored
    PROVE  IInv'
<1>1. fan[r].pc = "new"
  BY DEF IInv, Kept
<1>2. Kept(r)'
  BY <1>1, Recorded DEF Kept
<1> QED
  BY <1>2, Recorded, SideStep

LEMMA DraftMemoStep == ASSUME IInv, NEW r \in Requests, DraftMemo(r) PROVE IInv'
<1> DEFINE p == IF artefact["score"] = None THEN "error" ELSE "drafting"
<1>1. /\ side[r].pc = "new" /\ side' = [side EXCEPT ![r].pc = p]
      /\ kind' = kind /\ fan' = fan /\ stored' = stored
  BY DEF DraftMemo, tables
<1>2. p # "done" /\ p # "saving" /\ p # "predicting"
  OBVIOUS
<1> HIDE DEF p
<1> QED
  BY <1>1, <1>2, DraftStep

LEMMA DraftedStep == ASSUME IInv, NEW r \in Requests, Drafted(r) PROVE IInv'
<1>1. side[r].pc = "drafting" /\ kind' = kind /\ stored' = stored
  BY DEF Drafted, tables
<1>2. CASE Asks(r)
  BY <1>1, <1>2, AsksStep
<1>3. CASE side' = [side EXCEPT ![r].pc = "error"] /\ fan' = fan
  BY <1>1, <1>3, DraftStep
<1>4. Asks(r) \/ (side' = [side EXCEPT ![r].pc = "error"] /\ fan' = fan)
  BY DEF Drafted
<1> QED
  BY <1>2, <1>3, <1>4

LEMMA QuietStep ==
    ASSUME IInv, kind' = kind, fan' = fan, side' = side, stored' = stored PROVE IInv'
<1>1. Shaped' /\ EndIsLast'
  BY SameQuestions DEF IInv, Shaped, EndIsLast
<1>2. \A r \in Requests : Passed(r)' /\ Over(r)' /\ Kept(r)' /\ Asked(r)'
  <2> SUFFICES ASSUME NEW r \in Requests
               PROVE  Passed(r)' /\ Over(r)' /\ Kept(r)' /\ Asked(r)'
    OBVIOUS
  <2>1. Passed(r) /\ Over(r) /\ Kept(r) /\ Asked(r)
    BY DEF IInv
  <2>2. Passed(r)' /\ Over(r)'
    BY <2>1, SameQuestions DEF Passed, Over, Queued
  <2>3. Kept(r)' /\ Asked(r)'
    BY <2>1, SameQuestions DEF Kept, Asked
  <2> QED
    BY <2>2, <2>3
<1> QED
  BY <1>1, <1>2 DEF IInv

LEMMA RestartStep == ASSUME IInv, Restart PROVE IInv'
<1> DEFINE gone == [pc |-> "gone", told |-> {}, todo |-> {}]
<1>1. /\ fan' = [r \in Requests |-> NotAsked] /\ stored' = stored
      /\ kind' = kind /\ kind \in [Requests -> Kinds]
      /\ side' = [r \in Requests |-> IF side[r].pc = "new" THEN side[r] ELSE gone]
  BY DEF Restart, tables, IInv, Shaped
<1>2. DOMAIN gone = {"pc", "told", "todo"} /\ gone.told = {} /\ gone.pc = "gone"
  OBVIOUS
<1> HIDE DEF gone
<1>3. \A r \in Requests :
          /\ DOMAIN side'[r] = {"pc", "told", "todo"} /\ side'[r].told \subseteq Pairs(r)
          /\ side'[r].pc \in {"new", "gone"}
  <2> SUFFICES ASSUME NEW r \in Requests
               PROVE  /\ DOMAIN side'[r] = {"pc", "told", "todo"} /\ side'[r].told \subseteq Pairs(r)
                      /\ side'[r].pc \in {"new", "gone"}
    OBVIOUS
  <2>1. CASE side[r].pc = "new"
    BY <1>1, <2>1 DEF IInv, Shaped
  <2>2. CASE side[r].pc # "new"
    BY <1>1, <1>2, <2>2
  <2> QED
    BY <2>1, <2>2
<1>4. Shaped'
  <2>1. /\ DOMAIN fan' = Requests /\ DOMAIN side' = Requests
        /\ \A r \in Requests : fan'[r] \in Fans(r)
    BY <1>1, NotAskedType
  <2> QED
    BY <1>1, <2>1, <1>3, SameQuestions DEF Shaped
<1>5. \A r \in Requests : fan'[r].pc = "new" /\ fan'[r].queue = <<>>
  BY <1>1, NotAskedType
<1>6. EndIsLast'
  BY <1>5 DEF EndIsLast
<1>7. \A r \in Requests : Passed(r)' /\ Over(r)' /\ Kept(r)' /\ Asked(r)'
  BY <1>3, <1>5 DEF Passed, Over, Kept, Asked
<1> QED
  BY <1>4, <1>6, <1>7 DEF IInv

LEMMA StepIInv == ASSUME IInv, [Next]_vars PROVE IInv'
<1>1. ASSUME NEW r \in Requests,
             Ask(r) \/ DraftMemo(r) \/ Thread(r) \/ Coroutine(r) \/ Leave(r)
      PROVE  IInv'
  BY <1>1, AskStep, DraftMemoStep, DraftedStep, SeatDoneStep, NextOptionStep, FanEndsStep,
     DeliverStep, JoinStep, ReturnStep, SaveStep, PredictStep, DoneStep, LeaveStep DEF Thread, Coroutine
<1>2. CASE RecordOutcome \/ UNCHANGED vars
  BY <1>2, QuietStep DEF RecordOutcome, vars
<1>3. CASE Restart
  BY <1>3, RestartStep
<1> QED
  BY <1>1, <1>2, <1>3 DEF Next

\* A stream that says done has shown the answer of every seat to every question, and
\* whatever says done has stored its result (Progressive and the handlers of the stages).
THEOREM DoneIsTrue == Spec => []DoneAfterAll
<1>1. IInv => DoneAfterAll
  BY DEF IInv, Kept, DoneAfterAll
<1> QED
  BY <1>1, InitIInv, StepIInv, PTL DEF Spec

-----------------------------------------------------------------------------
(* What is collected, stored and counted.                                  *)

\* Answers are collected once each, and until a seat raises none is missing.
Collected(r) ==
    LET f == fan[r] IN
    /\ f.pc = "new" => f.got = {}
    /\ \A g, h \in f.got : g.pair = h.pair => g = h
    /\ \A g \in f.got :
          g.pair[1] <= f.option /\ ~(g.pair[1] = f.option /\ g.pair[2] \in f.waiting)
    /\ ~f.failing /\ f.pc # "new" =>
          \A k \in 1..f.option, s \in Seats :
              (k = f.option /\ s \in f.waiting) \/ \E g \in f.got : g.pair = <<k, s>>

\* A result is that of a fan-out that returned; what is left to record of it was stored.
HasResult(r) ==
    /\ side[r].pc = "saving" => fan[r].pc = "returned"
    /\ side[r].todo \subseteq Scores(r)
    /\ \A g \in side[r].todo : kind[r] = "score" /\ \E t \in stored : t.by = r /\ g \in t.got

\* A prediction was said by that seat, of that option, in a scoring that was stored.
Earned(p) ==
    /\ p.confidence \in 0..Certain
    /\ \E t \in stored : \E g \in t.got :
          /\ kind[t.by] = "score" /\ g.pair[1] \in DOMAIN Options
          /\ g.pair[2] = p.seat /\ g.confidence = p.confidence /\ Options[g.pair[1]] = p.option

TablesOK == DOMAIN artefact = Kinds /\ ArtefactWhole /\ \A p \in predicted : Earned(p)

RInv == TablesOK /\ \A r \in Requests : Collected(r) /\ HasResult(r)

LEMMA InitRInv == Init => RInv
<1> SUFFICES ASSUME Init PROVE RInv
  OBVIOUS
<1>1. fan = [r \in Requests |-> NotAsked] /\ artefact = [k \in Kinds |-> None] /\ predicted = {}
  BY DEF Init
<1>2. side = [r \in Requests |-> [pc |-> "new", told |-> {}, todo |-> {}]]
  BY DEF Init
<1>3. \A r \in Requests : Collected(r)
  BY <1>1 DEF Collected, NotAsked
<1>4. \A r \in Requests : HasResult(r)
  BY <1>2 DEF HasResult
<1>5. TablesOK
  BY <1>1 DEF TablesOK, ArtefactWhole
<1> QED
  BY <1>3, <1>4, <1>5 DEF RInv

\* The tables of artefacts and predictions are left alone, or more was stored.
LEMMA SameTables ==
    ASSUME TablesOK, kind' = kind, artefact' = artefact, predicted' = predicted,
           stored \subseteq stored'
    PROVE  TablesOK'
<1>1. \A r : Questions(r)' = Questions(r)
  BY DEF Questions
<1>2. ArtefactWhole'
  BY <1>1 DEF TablesOK, ArtefactWhole, Whole
<1>3. \A p : Earned(p) => Earned(p)'
  BY DEF Earned
<1> QED
  BY <1>2, <1>3 DEF TablesOK

\* What a request leaves alone stays so when others store.
LEMMA SameResult ==
    ASSUME NEW r \in Requests, kind' = kind, stored \subseteq stored', HasResult(r),
           fan'[r].pc = fan[r].pc, side'[r].pc = side[r].pc, side'[r].todo \subseteq side[r].todo
    PROVE  HasResult(r)'
BY SameQuestions DEF HasResult, Scores

LEMMA SameCollection ==
    ASSUME NEW r \in Requests, Collected(r), fan'[r].pc = "new" <=> fan[r].pc = "new",
           fan'[r].got = fan[r].got, fan'[r].option = fan[r].option,
           fan'[r].waiting = fan[r].waiting, fan'[r].failing = fan[r].failing
    PROVE  Collected(r)'
BY DEF Collected

LEMMA OneResult ==
    ASSUME RInv, NEW r \in Requests, kind' = kind, Alone(r), stored \subseteq stored',
           Collected(r)', HasResult(r)', TablesOK'
    PROVE  RInv'
<1>1. ASSUME NEW q \in Requests, q # r PROVE Collected(q)' /\ HasResult(q)'
  <2>1. fan'[q] = fan[q] /\ side'[q] = side[q] /\ Collected(q) /\ HasResult(q)
    BY <1>1 DEF Alone, RInv
  <2> QED
    BY <2>1, SameResult, SameCollection
<1> QED
  BY <1>1 DEF RInv

\* A step of the coroutine that neither stores nor records.
LEMMA MovesOn ==
    ASSUME IInv, RInv, NEW r \in Requests, NEW p, side' = [side EXCEPT ![r].pc = p],
           p = "saving" => fan[r].pc = "returned",
           kind' = kind, fan' = fan, artefact' = artefact, predicted' = predicted, stored' = stored
    PROVE  RInv'
<1>1. side'[r].pc = p /\ side'[r].todo = side[r].todo /\ Alone(r)
  BY DEF IInv, Shaped, Alone
<1>2. Collected(r)' /\ TablesOK'
  BY SameCollection, SameTables DEF RInv
<1>3. HasResult(r)'
  BY <1>1, SameQuestions DEF RInv, HasResult, Scores
<1> QED
  BY <1>1, <1>2, <1>3, OneResult

\* A step of the thread, or a frame that is sent.
LEMMA Waits ==
    ASSUME IInv, RInv, NEW r \in Requests, NEW f, fan' = [fan EXCEPT ![r] = f],
           side'[r].pc = side[r].pc, side'[r].todo = side[r].todo, side[r].pc # "saving",
           \A q \in Requests \ {r} : side'[q] = side[q], Collected(r)',
           kind' = kind, artefact' = artefact, predicted' = predicted, stored' = stored
    PROVE  RInv'
<1>1. Alone(r)
  BY DEF IInv, Shaped, Alone
<1>2. HasResult(r)'
  BY SameQuestions DEF RInv, HasResult, Scores
<1>3. TablesOK'
  BY SameTables DEF RInv
<1> QED
  BY <1>1, <1>2, <1>3, OneResult

LEMMA AsksResult ==
    ASSUME IInv, RInv, NEW r \in Requests, side[r].pc \in {"new", "drafting"}, Asks(r),
           kind' = kind, artefact' = artefact, predicted' = predicted, stored' = stored
    PROVE  RInv'
<1>1. /\ fan' = [fan EXCEPT ![r].pc = "asking", ![r].option = 1, ![r].waiting = Seats]
      /\ side' = [side EXCEPT ![r].pc = "open"]
      /\ fan[r] \in Fans(r) /\ fan[r].pc = "new" /\ Collected(r) /\ HasResult(r)
  BY DEF Asks, IInv, Shaped, Kept, RInv
<1>2. /\ fan'[r].pc = "asking" /\ fan'[r].option = 1 /\ fan'[r].waiting = Seats
      /\ fan'[r].got = fan[r].got
  BY <1>1 DEF IInv, Shaped, Fans
<1>3. fan[r].got = {}
  BY <1>1 DEF Collected
<1>4. Collected(r)'
  BY <1>2, <1>3 DEF Collected
<1>5. side'[r].pc = "open" /\ side'[r].todo = side[r].todo /\ Alone(r)
  BY <1>1 DEF IInv, Shaped, Alone
<1>6. HasResult(r)'
  BY <1>1, <1>5, SameQuestions DEF HasResult, Scores
<1>7. TablesOK'
  BY SameTables DEF RInv
<1> QED
  BY <1>4, <1>5, <1>6, <1>7, OneResult

LEMMA AnswerResult ==
    ASSUME IInv, RInv, NEW r \in Requests, NEW s \in Seats, SeatDone(r, s)
    PROVE  RInv'
<1> DEFINE f == fan[r]
           pair == <<f.option, s>>
           waiting == f.waiting \ {s}
<1>1. /\ f.pc = "asking" /\ s \in f.waiting /\ side' = side
      /\ kind' = kind /\ artefact' = artefact /\ predicted' = predicted /\ stored' = stored
      /\ Answer(r, s) \/ Raise(r, s)
  BY DEF SeatDone, tables
<1>2. f \in Fans(r) /\ Collected(r) /\ f.option \in Nat /\ side[r].pc # "saving"
  BY <1>1, UnderWay, QuestionsType DEF RInv, HasResult
<1>3. /\ \A g, h \in f.got : g.pair = h.pair => g = h
      /\ \A g \in f.got : g.pair[1] <= f.option /\ ~(g.pair[1] = f.option /\ g.pair[2] \in f.waiting)
      /\ ~f.failing => \A k \in 1..f.option, t \in Seats :
             (k = f.option /\ t \in f.waiting) \/ \E g \in f.got : g.pair = <<k, t>>
  BY <1>1, <1>2 DEF Collected
<1>4. CASE Raise(r, s)
  <2> DEFINE g == [f EXCEPT !.waiting = waiting, !.failing = TRUE]
  <2>1. fan' = [fan EXCEPT ![r] = g]
    BY <1>4 DEF Raise
  <2>2. /\ g.pc = "asking" /\ g.option = f.option /\ g.waiting = waiting
        /\ g.failing /\ g.got = f.got
    BY <1>1, <1>2 DEF Fans
  <2>3. fan'[r] = g
    BY <2>1 DEF IInv, Shaped
  <2> HIDE DEF g, f
  <2>4. Collected(r)'
    BY <1>3, <2>2, <2>3 DEF Collected
  <2> QED
    BY <1>1, <1>2, <2>1, <2>4, Waits
<1>5. CASE Answer(r, s)
  <2>1. PICK c \in Opinions(r) :
            LET q == <<f.option, s>> IN
            fan' = [fan EXCEPT
                ![r].waiting = @ \ {s},
                ![r].got = IF f.failing THEN @ ELSE @ \cup {[pair |-> q, confidence |-> c]},
                ![r].queue = IF f.failing \/ r \notin Streams THEN @ ELSE Append(@, q)]
    BY <1>5 DEF Answer
  <2> DEFINE new == [pair |-> pair, confidence |-> c]
             got == IF f.failing THEN f.got ELSE f.got \cup {new}
             queue == IF f.failing \/ r \notin Streams THEN f.queue ELSE Append(f.queue, pair)
             g == [f EXCEPT !.waiting = waiting, !.got = got, !.queue = queue]
  <2>2. fan' = [fan EXCEPT ![r] = g]
    BY <2>1
  <2>3. new.pair = pair /\ pair[1] = f.option /\ pair[2] = s
    OBVIOUS
  <2> HIDE DEF queue, got, new, pair
  <2>4. /\ g.pc = "asking" /\ g.option = f.option /\ g.waiting = waiting
        /\ g.failing = f.failing /\ g.got = got
    BY <1>1, <1>2 DEF Fans
  <2>5. fan'[r] = g
    BY <2>2 DEF IInv, Shaped
  <2> HIDE DEF g, f
  <2>6. \A x, y \in got : x.pair = y.pair => x = y
    <3>1. \A x \in f.got : x.pair # pair
      BY <1>1, <1>3, <2>3
    <3> QED
      BY <1>3, <2>3, <3>1 DEF got
  <2>7. \A x \in got : x.pair[1] <= f.option /\ ~(x.pair[1] = f.option /\ x.pair[2] \in waiting)
    BY <1>2, <1>3, <2>3 DEF got
  <2>8. ASSUME ~f.failing, NEW k \in 1..f.option, NEW t \in Seats
        PROVE  (k = f.option /\ t \in waiting) \/ \E x \in got : x.pair = <<k, t>>
    <3>1. CASE k = f.option /\ t = s
      BY <2>3, <2>8, <3>1 DEF got, pair
    <3>2. CASE ~(k = f.option /\ t = s)
      BY <1>3, <2>8, <3>2 DEF got
    <3> QED
      BY <3>1, <3>2
  <2>9. Collected(r)'
    BY <2>4, <2>5, <2>6, <2>7, <2>8 DEF Collected
  <2> QED
    BY <1>1, <1>2, <2>2, <2>9, Waits
<1> QED
  BY <1>1, <1>4, <1>5

LEMMA NextOptionResult ==
    ASSUME IInv, RInv, NEW r \in Requests, NextOption(r) PROVE RInv'
<1> DEFINE f == fan[r]
           next == f.option + 1
           g == [f EXCEPT !.option = next, !.waiting = Seats]
<1>1. /\ f.pc = "asking" /\ f.waiting = {} /\ ~f.failing /\ fan' = [fan EXCEPT ![r] = g]
      /\ side' = side /\ kind' = kind /\ artefact' = artefact /\ predicted' = predicted
      /\ stored' = stored
  BY DEF NextOption, tables
<1>2. f \in Fans(r) /\ Collected(r) /\ f.option \in Nat /\ side[r].pc # "saving"
  BY <1>1, UnderWay, QuestionsType DEF RInv, HasResult
<1>3. /\ \A x, y \in f.got : x.pair = y.pair => x = y
      /\ \A x \in f.got : x.pair[1] <= f.option /\ x.pair \in Pairs(r)
      /\ \A k \in 1..f.option, t \in Seats : \E x \in f.got : x.pair = <<k, t>>
  <2>1. \A x \in f.got : x.pair \in Pairs(r)
    BY <1>2 DEF Fans, Scores
  <2>2. ~f.failing /\ f.pc # "new" /\ f.waiting = {}
    BY <1>1
  <2> QED
    BY <1>2, <2>1, <2>2 DEF Collected
<1>4. /\ g.pc = "asking" /\ g.option = next /\ g.waiting = Seats /\ ~g.failing /\ g.got = f.got
  BY <1>1, <1>2 DEF Fans
<1>5. fan'[r] = g
  BY <1>1 DEF IInv, Shaped
<1>6. \A x \in f.got : x.pair[1] \in Nat
  BY <1>3, QuestionsType DEF Pairs
<1> HIDE DEF f, g
<1>7. \A x \in f.got : x.pair[1] <= next /\ x.pair[1] # next
  BY <1>2, <1>3, <1>6
<1>8. \A k \in 1..next : k = next \/ k \in 1..f.option
  BY <1>2
<1> HIDE DEF next
<1>9. Collected(r)'
  BY <1>3, <1>4, <1>5, <1>7, <1>8 DEF Collected
<1> QED
  BY <1>1, <1>2, <1>9, Waits

\* Only the queue and the state of the fan-out change.
LEMMA FanEndsResult ==
    ASSUME IInv, RInv, NEW r \in Requests, FanEnds(r) PROVE RInv'
<1> DEFINE f == fan[r]
           pc == IF f.failing THEN "raised" ELSE "returned"
           queue == IF r \in Streams THEN Append(f.queue, End) ELSE f.queue
           g == [f EXCEPT !.pc = pc, !.queue = queue]
<1>1. /\ f.pc = "asking" /\ fan' = [fan EXCEPT ![r] = g]
      /\ side' = side /\ kind' = kind /\ artefact' = artefact /\ predicted' = predicted
      /\ stored' = stored
  BY DEF FanEnds, Closing, tables
<1>2. f \in Fans(r) /\ Collected(r) /\ side[r].pc # "saving" /\ pc # "new"
  BY <1>1 DEF IInv, Shaped, RInv, HasResult
<1> HIDE DEF pc, queue
<1>3. /\ g.pc = pc /\ g.option = f.option /\ g.waiting = f.waiting
      /\ g.failing = f.failing /\ g.got = f.got
  BY <1>2 DEF Fans
<1>4. fan'[r] = g
  BY <1>1 DEF IInv, Shaped
<1> HIDE DEF g
<1>5. Collected(r)'
  BY <1>1, <1>2, <1>3, <1>4, SameCollection
<1> QED
  BY <1>1, <1>2, <1>5, Waits

LEMMA DeliverResult ==
    ASSUME IInv, RInv, NEW r \in Requests, Deliver(r) PROVE RInv'
<1> DEFINE f == fan[r]
           queue == Tail(f.queue)
           g == [f EXCEPT !.queue = queue]
<1>1. /\ side[r].pc = "open" /\ fan' = [fan EXCEPT ![r] = g]
      /\ side' = [side EXCEPT ![r].told = @ \cup {Head(f.queue)}]
      /\ kind' = kind /\ artefact' = artefact /\ predicted' = predicted /\ stored' = stored
  BY DEF Deliver, tables
<1>2. f \in Fans(r) /\ Collected(r)
  BY DEF IInv, Shaped, RInv
<1> HIDE DEF queue
<1>3. /\ g.pc = f.pc /\ g.option = f.option /\ g.waiting = f.waiting
      /\ g.failing = f.failing /\ g.got = f.got
  BY <1>2 DEF Fans
<1>4. fan'[r] = g
  BY <1>1 DEF IInv, Shaped
<1> HIDE DEF g
<1>5. Collected(r)'
  BY <1>2, <1>3, <1>4, SameCollection
<1>6. /\ side'[r].pc = side[r].pc /\ side'[r].todo = side[r].todo
      /\ \A q \in Requests \ {r} : side'[q] = side[q]
  BY <1>1 DEF IInv, Shaped
<1> QED
  BY <1>1, <1>5, <1>6, Waits

\* The coroutine opens, joins, returns, is done or gone: nothing is stored or recorded.
LEMMA CoroutineMoves ==
    ASSUME IInv, RInv, NEW r \in Requests,
           DraftMemo(r) \/ Drafted(r) \/ Join(r) \/ Return(r) \/ Done(r) \/ Leave(r)
    PROVE  RInv'
<1>1. kind' = kind /\ artefact' = artefact /\ predicted' = predicted /\ stored' = stored
  BY DEF DraftMemo, Drafted, Join, Return, Done, Leave, tables
<1>2. ASSUME NEW p, side' = [side EXCEPT ![r].pc = p], fan' = fan, p # "saving"
      PROVE  RInv'
  BY <1>1, <1>2, MovesOn
<1>3. CASE DraftMemo(r)
  <2> DEFINE p == IF artefact["score"] = None THEN "error" ELSE "drafting"
  <2>1. p # "saving"
    OBVIOUS
  <2>2. side' = [side EXCEPT ![r].pc = p] /\ fan' = fan
    BY <1>3 DEF DraftMemo
  <2> HIDE DEF p
  <2> QED
    BY <1>2, <2>1, <2>2
<1>4. CASE Drafted(r)
  <2>1. side[r].pc = "drafting"
    BY <1>4 DEF Drafted
  <2>2. CASE Asks(r)
    BY <1>1, <2>1, <2>2, AsksResult
  <2>3. CASE side' = [side EXCEPT ![r].pc = "error"] /\ fan' = fan
    BY <1>2, <2>3
  <2> QED
    BY <1>4, <2>2, <2>3 DEF Drafted
<1>5. CASE Join(r) \/ Return(r)
  <2>1. fan' = fan /\ (fan[r].pc = "raised" => side' = [side EXCEPT ![r].pc = "error"])
    BY <1>5 DEF Join, Return
  <2>2. fan[r].pc # "raised" => side' = [side EXCEPT ![r].pc = "saving"]
    BY <1>5 DEF Join, Return
  <2>3. fan[r].pc \in {"returned", "raised"}
    <3>1. CASE Join(r)
      <4>1. fan[r].queue # <<>> /\ Head(fan[r].queue) = End /\ EndIsLast /\ fan[r] \in Fans(r)
        BY <3>1 DEF Join, Drained, IInv, Shaped
      <4>2. 1 \in DOMAIN fan[r].queue /\ fan[r].queue[1] = End
        BY <4>1 DEF Fans
      <4> QED
        BY <4>1, <4>2 DEF EndIsLast, Fans
    <3>2. CASE Return(r)
      BY <3>2 DEF Return
    <3> QED
      BY <1>5, <3>1, <3>2
  <2>4. CASE fan[r].pc = "raised"
    BY <1>2, <2>1, <2>4
  <2>5. CASE fan[r].pc # "raised"
    BY <1>1, <2>1, <2>2, <2>3, <2>5, MovesOn
  <2> QED
    BY <2>4, <2>5
<1>6. CASE Done(r) \/ Leave(r)
  <2>1. fan' = fan /\ \E p \in {"done", "gone"} : side' = [side EXCEPT ![r].pc = p]
    BY <1>6 DEF Done, Leave
  <2> QED
    BY <1>2, <2>1
<1> QED
  BY <1>3, <1>4, <1>5, <1>6

\* What a fan-out that returned collected: of every seat one answer to each question.
LEMMA WholeRow ==
    ASSUME IInv, RInv, NEW r \in Requests, fan[r].pc = "returned", NEW i \in DOMAIN Seating
    PROVE  /\ Payload(r)[i].seat = Seating[i]
           /\ {g.pair[1] : g \in Payload(r)[i].answers} = DOMAIN Questions(r)
           /\ Cardinality(Payload(r)[i].answers) = Len(Questions(r))
<1> DEFINE n == Len(Questions(r))
           s == Seating[i]
           row == {g \in fan[r].got : g.pair[2] = s}
           of == [k \in 1..n |-> CHOOSE g \in row : g.pair[1] = k]
<1>1. Payload(r)[i].seat = s /\ Payload(r)[i].answers = row
  BY DEF Payload
<1>2. /\ fan[r] \in Fans(r) /\ ~fan[r].failing /\ fan[r].waiting = {} /\ fan[r].option = n
      /\ Collected(r)
  BY DEF IInv, Shaped, Over, RInv
<1>3. n \in Nat /\ DOMAIN Questions(r) = 1..n /\ s \in Seats
  BY QuestionsType DEF Seats
<1>4. \A g, h \in row : g.pair = h.pair => g = h
  BY <1>2 DEF Collected
<1>5. \A g \in row : /\ g.pair[1] \in 1..n /\ g.pair[2] = s
                     /\ g.pair = <<g.pair[1], s>>
  BY <1>2, <1>3 DEF Fans, Scores, Pairs
<1> HIDE DEF n, s
<1>6. \A k \in 1..n : \E g \in row : g.pair[1] = k
  <2> SUFFICES ASSUME NEW k \in 1..n PROVE \E g \in row : g.pair[1] = k
    OBVIOUS
  <2>1. PICK g \in fan[r].got : g.pair = <<k, s>>
    BY <1>2, <1>3 DEF Collected
  <2>2. g.pair[1] = k /\ g.pair[2] = s
    BY <2>1
  <2> QED
    BY <2>2
<1> HIDE DEF row
<1>7. {g.pair[1] : g \in row} = 1..n
  BY <1>5, <1>6
<1>8. \A k \in 1..n : of[k] \in row /\ of[k].pair[1] = k
  BY <1>6
<1>9. \A g \in row : of[g.pair[1]] = g
  BY <1>4, <1>5, <1>8
<1>10. of \in Bijection(1..n, row)
  <2>1. of \in [1..n -> row]
    BY <1>8
  <2>2. \A k, m \in 1..n : of[k] = of[m] => k = m
    BY <1>8
  <2>3. \A g \in row : \E k \in 1..n : of[k] = g
    BY <1>5, <1>9
  <2> HIDE DEF of
  <2>4. of \in Injection(1..n, row)
    BY <2>1, <2>2, Fun_IsInj
  <2>5. of \in Surjection(1..n, row)
    BY <2>1, <2>3, Fun_IsSurj
  <2> QED
    BY <2>4, <2>5 DEF Bijection
<1> HIDE DEF of
<1>11. Cardinality(row) = n
  <2>1. ExistsBijection(1..n, row)
    BY <1>10 DEF ExistsBijection
  <2> QED
    BY <1>3, <2>1, FS_CountingElements
<1> QED
  BY <1>1, <1>3, <1>7, <1>11 DEF n, s

LEMMA SaveResult == ASSUME IInv, RInv, NEW r \in Requests, Save(r) PROVE RInv'
<1> DEFINE new == [by |-> r, payload |-> Payload(r)]
           own == [by |-> r, got |-> fan[r].got]
           todo == Recording(r)
<1>1. /\ side[r].pc = "saving" /\ kind' = kind /\ fan' = fan /\ predicted' = predicted
      /\ artefact' = [artefact EXCEPT ![kind[r]] = new]
      /\ stored' = stored \cup {own}
      /\ side' = [side EXCEPT ![r].pc = "predicting", ![r].todo = todo]
  BY DEF Save
<1>2. /\ kind[r] \in Kinds /\ fan[r] \in Fans(r) /\ fan[r].pc = "returned"
      /\ TablesOK /\ Collected(r) /\ HasResult(r)
  BY <1>1 DEF IInv, Shaped, RInv, HasResult
<1>3. new.by = r /\ new.payload = Payload(r) /\ own.by = r /\ own.got = fan[r].got
  OBVIOUS
<1>4. \A q : Questions(q)' = Questions(q)
  BY <1>1 DEF Questions
<1> HIDE DEF new, own
<1>5. ArtefactWhole'
  <2>1. \A k, a : Whole(k, a)' <=> Whole(k, a)
    BY <1>1, <1>4 DEF Whole
  <2>2. Whole(kind[r], new)
    BY <1>2, <1>3, WholeRow DEF Whole
  <2>3. \A k \in Kinds : artefact'[k] = IF k = kind[r] THEN new ELSE artefact[k]
    BY <1>1, <1>2 DEF TablesOK
  <2> QED
    BY <1>2, <2>1, <2>2, <2>3 DEF TablesOK, ArtefactWhole
<1>6. \A p \in predicted' : Earned(p)'
  BY <1>1, <1>2 DEF TablesOK, Earned
<1>7. TablesOK'
  <2>1. DOMAIN artefact' = Kinds
    BY <1>1, <1>2 DEF TablesOK
  <2> QED
    BY <1>5, <1>6, <2>1 DEF TablesOK
<1>8. todo \subseteq fan[r].got /\ \A g \in todo : kind[r] = "score"
  BY DEF Recording
<1> HIDE DEF todo
<1>9. side'[r].pc = "predicting" /\ side'[r].todo = todo /\ Alone(r)
  BY <1>1 DEF IInv, Shaped, Alone
<1>10. HasResult(r)'
  <2>1. own \in stored' /\ \A g \in todo : kind[r] = "score" /\ g \in own.got
    BY <1>1, <1>3, <1>8
  <2>2. todo \subseteq Scores(r)
    BY <1>2, <1>8 DEF Fans
  <2>3. Scores(r)' = Scores(r)
    <3>1. kind' = kind
      BY <1>1
    <3>2. Pairs(r)' = Pairs(r)
      BY <3>1, SameQuestions
    <3> QED
      BY <3>2 DEF Scores
  <2> QED
    BY <1>1, <1>3, <1>9, <2>1, <2>2, <2>3 DEF HasResult
<1>11. Collected(r)'
  BY <1>1, <1>2, SameCollection
<1> QED
  BY <1>1, <1>7, <1>9, <1>10, <1>11, OneResult

LEMMA PredictResult == ASSUME IInv, RInv, NEW r \in Requests, Predict(r) PROVE RInv'
<1>1. PICK g \in side[r].todo :
          LET p == [option |-> Options[g.pair[1]], seat |-> g.pair[2],
                    confidence |-> g.confidence] IN
          /\ predicted' = {q \in predicted : q.option # p.option \/ q.seat # p.seat} \cup {p}
          /\ side' = [side EXCEPT ![r].todo = @ \ {g}]
  BY DEF Predict
<1> DEFINE p == [option |-> Options[g.pair[1]], seat |-> g.pair[2], confidence |-> g.confidence]
<1>2. predicted' \subseteq predicted \cup {p} /\ kind' = kind /\ fan' = fan /\ stored' = stored
      /\ artefact' = artefact
  BY <1>1 DEF Predict
<1>3. HasResult(r) /\ Collected(r) /\ TablesOK
  BY DEF RInv
<1>4. g \in Scores(r) /\ kind[r] = "score" /\ \E t \in stored : t.by = r /\ g \in t.got
  BY <1>3 DEF HasResult
<1>5. g.pair[1] \in DOMAIN Options /\ g.confidence \in 0..Certain
  BY <1>4 DEF Scores, Pairs, Questions
<1>6. p.option = Options[g.pair[1]] /\ p.seat = g.pair[2] /\ p.confidence = g.confidence
  OBVIOUS
<1> HIDE DEF p
<1>7. Earned(p)
  BY <1>4, <1>5, <1>6 DEF Earned
<1>8. TablesOK'
  <2>1. \A r1 : Questions(r1)' = Questions(r1)
    BY <1>2 DEF Questions
  <2>2. ArtefactWhole'
    BY <1>2, <1>3, <2>1 DEF TablesOK, ArtefactWhole, Whole
  <2>3. \A q \in predicted' : Earned(q)'
    BY <1>2, <1>3, <1>7 DEF TablesOK, Earned
  <2> QED
    BY <1>2, <1>3, <2>2, <2>3 DEF TablesOK
<1>9. /\ side'[r].pc = side[r].pc /\ side'[r].todo = side[r].todo \ {g} /\ Alone(r)
  BY <1>1, <1>2 DEF IInv, Shaped, Alone
<1>10. Collected(r)' /\ HasResult(r)'
  BY <1>2, <1>3, <1>9, SameCollection, SameResult
<1> QED
  BY <1>2, <1>8, <1>9, <1>10, OneResult

LEMMA RestartResult == ASSUME IInv, RInv, Restart PROVE RInv'
<1>1. /\ fan' = [r \in Requests |-> NotAsked] /\ kind' = kind /\ artefact' = artefact
      /\ predicted' = predicted /\ stored' = stored
      /\ side' = [r \in Requests |->
                     IF side[r].pc = "new" THEN side[r]
                     ELSE [pc |-> "gone", told |-> {}, todo |-> {}]]
  BY DEF Restart, tables
<1>2. TablesOK'
  BY <1>1, SameTables DEF RInv
<1>3. ASSUME NEW r \in Requests PROVE Collected(r)' /\ HasResult(r)'
  <2>1. Collected(r)'
    BY <1>1 DEF Collected, NotAsked
  <2>2. side'[r].pc # "saving" /\ side'[r].todo \subseteq side[r].todo
    BY <1>1
  <2>3. HasResult(r)'
    BY <1>1, <2>2, SameQuestions DEF RInv, HasResult, Scores
  <2> QED
    BY <2>1, <2>3
<1> QED
  BY <1>2, <1>3 DEF RInv

LEMMA QuietResult ==
    ASSUME RInv, kind' = kind, fan' = fan, side' = side, artefact' = artefact,
           predicted' = predicted, stored' = stored
    PROVE  RInv'
<1>1. \A r \in Requests : Collected(r)' /\ HasResult(r)'
  BY SameCollection, SameResult DEF RInv
<1> QED
  BY <1>1, SameTables DEF RInv

LEMMA StepRInv == IInv /\ RInv /\ [Next]_vars => RInv'
<1> SUFFICES ASSUME IInv, RInv, [Next]_vars PROVE RInv'
  OBVIOUS
<1>1. ASSUME NEW r \in Requests, Ask(r) PROVE RInv'
  BY <1>1, AsksResult DEF Ask, tables
<1>2. ASSUME NEW r \in Requests, Thread(r) PROVE RInv'
  BY <1>2, AnswerResult, NextOptionResult, FanEndsResult DEF Thread
<1>3. ASSUME NEW r \in Requests, DraftMemo(r) \/ Coroutine(r) \/ Leave(r) PROVE RInv'
  BY <1>3, CoroutineMoves, DeliverResult, SaveResult, PredictResult DEF Coroutine
<1>4. CASE RecordOutcome \/ UNCHANGED vars
  BY <1>4, QuietResult DEF RecordOutcome, vars
<1>5. CASE Restart
  BY <1>5, RestartResult
<1> QED
  BY <1>1, <1>2, <1>3, <1>4, <1>5 DEF Next

LEMMA Results == Spec => [](IInv /\ RInv)
BY InitIInv, StepIInv, InitRInv, StepRInv, PTL DEF Spec

\* What is stored of a kind is the whole result of one request: every seat's answer to
\* every question, in seating order, whatever raised, was left or restarted
\* (_fan_out, Progressive and save_artefacts).
THEOREM ArtefactsAreWhole == Spec => []ArtefactWhole
<1>1. RInv => ArtefactWhole
  BY DEF RInv, TablesOK
<1> QED
  BY <1>1, Results, PTL

\* A set of numbers has a least one.
LEMMA LeastNumber ==
    ASSUME NEW S, S \subseteq Nat, S # {}
    PROVE  \E n \in S : \A m \in S : n <= m
<1>1. IsWellFoundedOn({ss \in Nat \X Nat : ss[1] < ss[2]}, Nat)
  BY NatLessThanWellFounded, Zenon DEF OpToRel
<1> DEFINE Less == {ss \in Nat \X Nat : ss[1] < ss[2]}
<1>2. \A m, n \in Nat : m < n => <<m, n>> \in Less
  OBVIOUS
<1>6. IsWellFoundedOn(Less, Nat)
  BY <1>1
<1> HIDE DEF Less
<1>3. \E n \in S : \A m \in S : ~(<<m, n>> \in Less)
  BY <1>6, WFMin
<1>4. PICK n \in S : \A m \in S : ~(<<m, n>> \in Less)
  BY <1>3
<1>5. \A m \in S : ~(m < n) /\ m \in Nat /\ n \in Nat
  BY <1>2, <1>4
<1> QED
  BY <1>5

\* _scored_rows always has a prediction to count: of the most confident ones the first.
LEMMA MostConfident ==
    ASSUME NEW S, S # {}, \A p \in S : Earned(p)
    PROVE  \E p \in S : \A q \in S : Backs(p, q)
<1> DEFINE doubts == {Certain - p.confidence : p \in S}
           sure(d) == {p \in S : Certain - p.confidence = d}
           ranks(d) == {Rank(p) : p \in sure(d)}
<1>1. ASSUME NEW p \in S PROVE p.confidence \in 0..Certain /\ Rank(p) \in Nat
  <2>1. p.confidence \in 0..Certain /\ \E k \in DOMAIN Options : Options[k] = p.option
    BY DEF Earned
  <2>2. \E j \in DOMAIN Alphabet : Alphabet[j] = p.option
    BY <2>1, OptionsAssumption
  <2>3. Rank(p) \in DOMAIN Alphabet
    BY <2>2 DEF Rank
  <2>4. DOMAIN Alphabet \subseteq Nat
    BY OptionsAssumption
  <2> QED
    BY <2>1, <2>3, <2>4
<1>2. \E d \in doubts : \A e \in doubts : d <= e
  <2>1. ASSUME NEW p \in S PROVE Certain - p.confidence \in Nat
    BY <1>1, CertainType
  <2>2. doubts \subseteq Nat /\ doubts # {}
    BY <2>1
  <2> HIDE DEF doubts
  <2> QED
    BY <2>2, LeastNumber
<1>3. PICK d \in doubts : \A q \in S : d <= Certain - q.confidence
  BY <1>2
<1>4. \E n \in ranks(d) : \A m \in ranks(d) : n <= m
  <2>1. ranks(d) \subseteq Nat /\ ranks(d) # {}
    BY <1>1
  <2> HIDE DEF ranks
  <2> QED
    BY <2>1, LeastNumber
<1>5. PICK p \in sure(d) : \A q \in sure(d) : Rank(p) <= Rank(q)
  BY <1>4
<1>6. ASSUME NEW q \in S PROVE Backs(p, q)
  <2>1. p \in S /\ Certain - p.confidence = d /\ d <= Certain - q.confidence
    <3>1. p \in S /\ Certain - p.confidence = d
      BY <1>5
    <3> QED
      BY <1>3, <3>1
  <2>2. p.confidence \in Int /\ q.confidence \in Int
    BY <1>1, <2>1
  <2>3. CASE q.confidence = p.confidence
    <3>1. q \in sure(d)
      BY <2>1, <2>3
    <3> HIDE DEF sure
    <3> QED
      BY <1>5, <2>3, <3>1 DEF Backs
  <2>4. CASE q.confidence # p.confidence
    BY <2>1, <2>2, <2>4, CertainType DEF Backs
  <2> QED
    BY <2>3, <2>4
<1> QED
  BY <1>5, <1>6

\* What the calibration counts for a seat was said by that seat, of that option, in a
\* scoring that was stored, through crashes and later scorings (record_prediction and
\* _scored_rows).
THEOREM CountedWasSaid == Spec => []RowsAreEarned
<1>1. RInv => RowsAreEarned
  <2> SUFFICES ASSUME RInv, NEW i \in DOMAIN Seating, ScoredRow(Seating[i]) # None
               PROVE  LET row == ScoredRow(Seating[i]) IN
                      \E t \in stored : \E g \in t.got :
                          /\ kind[t.by] = "score" /\ g.pair[2] = Seating[i]
                          /\ g.confidence = row.confidence
                          /\ row.right = (Options[g.pair[1]] = outcome)
    BY DEF RowsAreEarned
  <2> DEFINE own == {p \in predicted : p.seat = Seating[i]}
             best == CHOOSE p \in own : \A q \in own : Backs(p, q)
             row == ScoredRow(Seating[i])
  <2>1. own # {} /\ row = [confidence |-> best.confidence, right |-> best.option = outcome]
    BY DEF ScoredRow
  <2>2. \A p \in own : Earned(p) /\ p.seat = Seating[i]
    BY DEF RInv, TablesOK
  <2>3. best \in own
    <3> HIDE DEF own
    <3> QED
      BY <2>1, <2>2, MostConfident
  <2>4. row.confidence = best.confidence /\ row.right = (best.option = outcome)
    BY <2>1
  <2> HIDE DEF own, best, row
  <2>5. PICK t \in stored : \E g \in t.got :
            /\ kind[t.by] = "score" /\ g.pair[2] = Seating[i]
            /\ g.confidence = best.confidence /\ Options[g.pair[1]] = best.option
    BY <2>2, <2>3 DEF Earned
  <2> QED
    BY <2>4, <2>5 DEF row
<1> QED
  BY <1>1, Results, PTL

=============================================================================
