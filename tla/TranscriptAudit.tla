--------------------------- MODULE TranscriptAudit ---------------------------
(***************************************************************************)
(* What is computed from a stored transcript and changes nothing: the      *)
(* verification of crew/transcript.py, the history that the Facilitator    *)
(* gives the seats of a round, and the chamber's view.  All three read the *)
(* rows in ordinal order.                                                  *)
(***************************************************************************)
EXTENDS Boardroom, SequencesExt

CONSTANTS
    HISTORY_ROUNDS,     \* past rounds a seat is meant to see in full
    SUMMARY_TURNS       \* older turns that the summary carries at most

ASSUME HistoryAssumption ==
    HISTORY_ROUNDS \in Nat \ {0} /\ SUMMARY_TURNS \in Nat \ {0}
\* None stands for the lack of a signature too.
ASSUME NoSigAssumption == None \notin Nat

\* The turns at these places, in their order.
TurnsAt(rec, places) ==
    LET upto(p) == {q \in places : q <= p} IN
    [i \in 1..Cardinality(places) |->
        rec[CHOOSE p \in places : Cardinality(upto(p)) = i]]

\* SELECT * FROM turns ... ORDER BY ordinal.
Transcript(table) == TurnsAt(table, DOMAIN table)

\* No request is at work: what is stored is what the last one left.
AtRest == \A w \in Workers : loc[w].pc = "idle"

-----------------------------------------------------------------------------
(* Transcript.verify.                                                      *)

\* hmac over the payload: only the turn that was signed has its signature.
\* `signedTurns` is what was signed; a row edited by hand is not among it.
Genuine(t, signedTurns) == t \in signedTurns

\* Mutant of Broken: a turn that fails does not break the chain after it.
BrokenHere(rec, signedTurns) ==
    {i \in DOMAIN rec :
        \/ rec[i].prev_sig # (IF i = 1 THEN GENESIS ELSE rec[i - 1].sig)
        \/ ~Genuine(rec[i], signedTurns)}

\* expected_prev after every turn: its signature, or None, which no prev_sig
\* equals, from the first turn that fails.
Expected(rec, signedTurns) ==
    LET expected[i \in 0..Len(rec)] ==
            IF i = 0 THEN GENESIS
            ELSE IF /\ expected[i - 1] # None
                    /\ rec[i].prev_sig = expected[i - 1]
                    /\ Genuine(rec[i], signedTurns)
                 THEN rec[i].sig
                 ELSE None
    IN expected

\* The places verify() reports.
Broken(rec, signedTurns) ==
    LET expected == Expected(rec, signedTurns) IN
    {i \in DOMAIN rec : expected[i] = None}

\* The record as stored verifies; any edited turn, any removed turn but the last
\* and any swap makes verify() report every turn from there to the end
\* (transcript.py: "changing turn 2 of 5 invalidates 2, 3, 4 and 5, and removing
\* a turn from the middle breaks everything after the gap").
TamperEvident ==
    LET rec == Transcript(turns)
        made == ToSet(rec)
        From(i, edited) == i..Len(edited)
    IN AtRest =>
    /\ Broken(rec, made) = {}
    /\ \A i \in DOMAIN rec :
          /\ \A said \in Texts \ {rec[i].text} :
                LET edited == [rec EXCEPT ![i].text = said] IN
                Broken(edited, made) = From(i, edited)
          /\ \A who \in Speakers \ {rec[i].speaker} :
                LET edited == [rec EXCEPT ![i].speaker = who] IN
                Broken(edited, made) = From(i, edited)
          /\ LET edited == RemoveAt(rec, i) IN
             Broken(edited, made) = From(i, edited)
          /\ \A j \in (i + 1)..Len(rec) :
                LET edited == [rec EXCEPT ![i] = rec[j], ![j] = rec[i]] IN
                Broken(edited, made) = From(i, edited)

-----------------------------------------------------------------------------
(* Facilitator._history, for a round whose number is round_no.             *)

\* The seats' turns that are no longer given in full.
Earlier(rec, round_no) ==
    {p \in DOMAIN rec : /\ 0 < rec[p].round_no /\ rec[p].round_no <= round_no - HISTORY_ROUNDS
                        /\ rec[p].speaker \in Seats}

\* Mutant of Brief: the summary keeps the first turns, not the last.
BriefFirst(rec, round_no) ==
    LET earlier == TurnsAt(rec, Earlier(rec, round_no))
        kept == IF Len(earlier) > SUMMARY_TURNS THEN SUMMARY_TURNS ELSE Len(earlier)
    IN SubSeq(earlier, 1, kept)

\* The turns summarised to one clipped line each.
Brief(rec, round_no) ==
    LET earlier == TurnsAt(rec, Earlier(rec, round_no))
        dropped == IF Len(earlier) > SUMMARY_TURNS THEN Len(earlier) - SUMMARY_TURNS ELSE 0
    IN SubSeq(earlier, dropped + 1, Len(earlier))

\* What a seat is given: the turns of round 0 and the summary, one clipped line
\* each, and the recent turns in full.  cutoff is max(0, round_no - HISTORY_ROUNDS).
History(rec, round_no) ==
    LET cutoff == IF round_no > HISTORY_ROUNDS THEN round_no - HISTORY_ROUNDS ELSE 0
    IN [clipped |-> TurnsAt(rec, {p \in DOMAIN rec : rec[p].round_no = 0})
                        \o Brief(rec, round_no),
        full    |-> TurnsAt(rec, {p \in DOMAIN rec : rec[p].round_no > cutoff})]

\* The handlers that are asking the seats of a round; until it is saved their
\* transcript is the one they loaded, which is the stored one while no other
\* request is at work.
Listening == {w \in Workers : loc[w].pc = "listen"}
Given(w) == History(Transcript(turns), loc[w].row.round_no)

\* No seat of the last round that was argued is left out of what the next round
\* is told, however long the session is and whatever was interjected or crashed
\* in between, the opening is always in it, and nobody hears a turn twice
\* (_history: "it is always kept").
LastArgumentsReach ==
    \A w \in Listening :
        LET rec == Transcript(turns)
            told == ToSet(Given(w).clipped) \cup ToSet(Given(w).full)
            argued == {p \in DOMAIN rec : rec[p].speaker \in Seats}
            Since(p) == Cardinality({q \in argued : p < q})
        IN
        /\ SUMMARY_TURNS >= Len(Seating) =>
              \A p \in argued : Since(p) < Len(Seating) => rec[p] \in told
        /\ \A i \in DOMAIN rec : rec[i].text = "opening" => rec[i] \in told
        /\ IsInjective(Given(w).clipped \o Given(w).full)

-----------------------------------------------------------------------------
(* crew/chamber.py.                                                        *)

\* Mutant of ChamberRounds: every turn counts, not only those of the seats.
RoundsOfAll(rec) == {rec[i].round_no : i \in DOMAIN rec}

\* chamber_state: the rounds some seat spoke in, and whether the chain verifies.
ChamberRounds(rec) ==
    {rec[i].round_no : i \in {j \in DOMAIN rec : rec[j].speaker \in Seats}}

\* The chamber replays rounds 1 to n with no gap, and n is the number of the
\* session row, or one more when a round is stored and its row not yet (or, after
\* a crash, not ever): never a round that the record lacks.
ChamberComplete ==
    AtRest /\ row # None =>
        \E n \in {row.round_no, row.round_no + 1} :
            ChamberRounds(Transcript(turns)) = 1..n

=============================================================================
