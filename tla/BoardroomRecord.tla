--------------------------- MODULE BoardroomRecord ---------------------------
(***************************************************************************)
(* The session store keeps a SignedRecord, as long as no two requests for  *)
(* the session overlap.  The record is what a crash would leave: the       *)
(* committed rows of table turns, by ordinal.                              *)
(***************************************************************************)
EXTENDS Boardroom

RecordBar == [i \in 1..Cardinality(Committed) |-> turns[i - 1]]
ClosedBar == row # None /\ row.closed

Record == INSTANCE SignedRecord WITH
    record <- RecordBar, closed <- ClosedBar, shown <- acked

\* The handlers, the Facilitator and the store together implement the promise
\* (routers/sessions.py): every step adds whole chained turns to the end,
\* closes a session whose record says so, or changes nothing a reader can see.
KeepsRecord == Record!Spec

=============================================================================
