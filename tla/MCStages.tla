------------------------------ MODULE MCStages ------------------------------
(* Two seats and two options, a streamed and a synchronous request.          *)
EXTENDS Stages

TwoSeats == <<"cfo", "devil">>
TwoOptions == <<"plant", "hypermarket">>
Sorted == <<"hypermarket", "plant">>

\* The stream's seats tell the options apart, the other request's are in between.
Belief == [r \in Requests |-> IF r \in Streams THEN {6, 9} ELSE {7}]

=============================================================================
