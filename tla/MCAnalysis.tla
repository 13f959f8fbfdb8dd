----------------------------- MODULE MCAnalysis -----------------------------
(* Instances of Analysis for TLC.  Handlers are interchangeable, and so are *)
(* the process slots; symmetry is used by the safety runs only.             *)
EXTENDS Analysis, TLC

Symmetry == Permutations(Requests) \cup Permutations(Instances)

AllFaults == {"refused", "lost", "crash"}
CrashOnly == {"crash"}
=============================================================================
