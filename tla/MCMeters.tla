------------------------------ MODULE MCMeters ------------------------------
(* Values for the model checking of Meters.                                 *)
EXTENDS Meters

TwoCodes == 1..2
BothCodes == <<1, 2>>
OneCode == {2}
OneSlot == {1}
=============================================================================
