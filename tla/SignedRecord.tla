----------------------------- MODULE SignedRecord -----------------------------
(***************************************************************************)
(* What COUNSEL promises of the record of a session, and nothing of how it *)
(* keeps it: an append-only chain of signed turns, shown to clients only   *)
(* once it is stored, in which no seat argues after the session is closed. *)
(***************************************************************************)
EXTENDS Integers, Sequences

VARIABLES
    record,     \* the stored turns, in order
    closed,     \* the session is closed
    shown       \* signatures that clients were shown as recorded

vars == <<record, closed, shown>>

Sigs(rec) == {rec[i].sig : i \in DOMAIN rec}

\* Each turn carries its number and the signature of the turn before it.
Chained(rec) ==
    \A i \in DOMAIN rec :
        /\ rec[i].turn_id = i - 1
        /\ rec[i].prev_sig = IF i = 1 THEN 0 ELSE rec[i - 1].sig

Init ==
    /\ record = <<>>
    /\ closed = FALSE
    /\ shown = {}

Extends ==
    /\ Len(record) < Len(record')
    /\ \A i \in DOMAIN record : record'[i] = record[i]

Add ==
    /\ Extends
    /\ Chained(record')
    /\ closed => \A i \in DOMAIN record' \ DOMAIN record :
                    record'[i].text # "argument"
    /\ UNCHANGED closed

\* Only a session whose record says so is closed.
Close ==
    /\ \E i \in DOMAIN record : record[i].text = "closing"
    /\ closed' = TRUE
    /\ UNCHANGED record

\* The answer to a request may show what is stored by the time it is sent.
Show ==
    /\ shown \subseteq shown'
    /\ shown' \subseteq Sigs(record')

Next == (Add \/ Close \/ UNCHANGED <<record, closed>>) /\ Show

Spec == Init /\ [][Next]_vars

=============================================================================
