------------------------------ MODULE MCPages -------------------------------
(* Values for the model checking of Pages: a range of 14 and one of 3.     *)
EXTENDS Pages

TwoMeters == 1..2
FirstMeter == {Detail(1)}
ShortAndFull == {3, 14}
NoneOldOrRecent == {<<0, 0>>, <<2, 5>>, <<16, 0>>}
=============================================================================
