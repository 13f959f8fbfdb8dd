------------------------------ MODULE MCTriage ------------------------------
(* Values for the model checking of Triage.                                 *)
EXTENDS Triage, TLC

Symmetry == Permutations(Pages) \cup Permutations(Handlers) \cup Permutations(Notes)

NoFaults == {}
AllFaults == FaultKinds
=============================================================================
