--------------------------- MODULE AnalysisBoard ---------------------------
(***************************************************************************)
(* What the analysis job promises to its clients, without processes,       *)
(* steps, locks or failures: analyses are launched one at a time, in id    *)
(* order, and each ends once, either done with its results stored in the   *)
(* same step or failed without any.                                        *)
(***************************************************************************)
EXTENDS Naturals

CONSTANT MaxAnalyses

VARIABLES
    board,   \* what is known of each analysis
    stored   \* analyses whose results are stored

boardVars == <<board, stored>>

Ids == 1..MaxAnalyses

BoardInit ==
    /\ board = [a \in Ids |-> "free"]
    /\ stored = {}

\* A new analysis takes the next free id, and none is running.
Launch(a) ==
    /\ board[a] = "free"
    /\ \A b \in Ids : b < a => board[b] \in {"done", "failed"}
    /\ board' = [board EXCEPT ![a] = "running"]
    /\ UNCHANGED stored

Finish(a) ==
    /\ board[a] = "running"
    /\ board' = [board EXCEPT ![a] = "done"]
    /\ stored' = stored \cup {a}

Abort(a) ==
    /\ board[a] = "running"
    /\ board' = [board EXCEPT ![a] = "failed"]
    /\ UNCHANGED stored

BoardNext == \E a \in Ids : Launch(a) \/ Finish(a) \/ Abort(a)

BoardSpec == BoardInit /\ [][BoardNext]_boardVars
=============================================================================
