---------------------------- MODULE MCBoardroom ----------------------------
(* Small instances of Boardroom for TLC.                                     *)
EXTENDS BoardroomRecord, TranscriptAudit

TwoSeats == <<"cfo", "devil">>
ThreeSeats == <<"cfo", "devil", "cto">>

=============================================================================
