------------------------------- MODULE MCWatch -------------------------------
(* Values for the model checking of Watch.                                  *)
EXTENDS Watch

TwoStarts == {"start1", "start2"}
=============================================================================
