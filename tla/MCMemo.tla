------------------------------- MODULE MCMemo -------------------------------
(* Every text of up to five characters, and two drafts that repeat a         *)
(* sentence, in one list and across both.                                    *)
EXTENDS Memo

ShortTexts == TextsUpTo(5)
TwoDrafts == {[context |-> <<"a", "a">>, reasoning |-> <<"b">>],
              [context |-> <<"a">>, reasoning |-> <<"b", "a">>]}

=============================================================================
