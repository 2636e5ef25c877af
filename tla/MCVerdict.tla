----------------------------- MODULE MCVerdict -----------------------------
(* Two seats, two options and two evidence ids, for TLC.                     *)
EXTENDS Verdict

TwoSeats == <<"cfo", "devil">>

\* What Python makes of the halves that 0.5005 and 0.5006 can sum up to: both go up.
FloatHalves == {<<10011, 2>>, <<20022, 4>>}

=============================================================================
