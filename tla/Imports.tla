------------------------------- MODULE Imports -------------------------------
(***************************************************************************)
(* The page of the imports: a card for readings and one for events, each    *)
(* with its dropzone, one history of the latest uploads of everybody and a  *)
(* banner that offers an analysis when rows were inserted.  An upload       *)
(* outlives the page that sent it; the history is read again whenever an    *)
(* upload of the page ends.  What the service does with the rows of a file  *)
(* is the subject of module Ingestion.                                      *)
(***************************************************************************)
EXTENDS Naturals, FiniteSets

CONSTANTS
    Cards,       \* the cards: readings and events
    Good,        \* files whose rows are valid
    Bad,         \* files the service rejects for their rows or format
    Refused,     \* files the dropzone rejects: extension, empty, too large
    Limit,       \* uploads the history asks for: 20
    MaxUploads,  \* bound: uploads, of this page or of others
    MaxTurns     \* bound: pages left and calls that fail

ASSUME ImportsBounds == {Limit, MaxUploads, MaxTurns} \subseteq Nat /\ Limit > 0

VARIABLES
    upload,   \* server: every upload, from its request to its answer
    begun,    \* server: batches numbered so far
    card,     \* the cards: file, uploading and outcome
    history,  \* useFetch of the history: what it shows and its request
    banner,   \* hasNewData
    shown,    \* FALSE while the operator is on another page
    turns

vars == <<upload, begun, card, history, banner, shown, turns>>

Uploads == 1..MaxUploads
Files == Good \cup Bad
NoFile == "none"
Nobody == "nobody"

NoUpload == [pc |-> "idle", card |-> Nobody, file |-> NoFile, here |-> FALSE,
             number |-> 0, status |-> "none", inserted |-> FALSE]
NoOutcome == [kind |-> "none", of |-> NoFile]
EmptyCard == [file |-> NoFile, uploading |-> FALSE, outcome |-> NoOutcome]

-----------------------------------------------------------------------------
(* The history.                                                             *)

Reading == [pc |-> "sent", answer |-> {}]
Off == [pc |-> "off", answer |-> {}]

\* Mutant: a request in flight is not repeated.
ExecuteUnlessLoading(h) == IF h.load = Off THEN [h EXCEPT !.load = Reading, !.error = FALSE] ELSE h

\* execute: the request in flight is aborted and another sent.
Execute(h) == [h EXCEPT !.load = Reading, !.error = FALSE]

\* useFetch when the page is mounted: nothing to show, a request sent.
Fresh == [data |-> {}, loaded |-> FALSE, error |-> FALSE, load |-> Reading]

Recorded == {i \in Uploads : upload[i].status # "none"}
Newer(i) == {j \in Recorded : upload[j].number > upload[i].number}

\* ListImportBatches: the last ones by number, which a batch has since its
\* transaction began, though it is visible only from its commit on.
Latest == {i \in Recorded : Cardinality(Newer(i)) < Limit}

ReadHistory ==
    /\ history.load.pc = "sent"
    /\ history' = [history EXCEPT !.load = [pc |-> "answered", answer |-> Latest]]
    /\ UNCHANGED <<upload, begun, card, banner, shown, turns>>

DeliverHistory ==
    /\ history.load.pc = "answered"
    /\ history' = [data |-> history.load.answer, loaded |-> TRUE, error |-> FALSE, load |-> Off]
    /\ UNCHANGED <<upload, begun, card, banner, shown, turns>>

Turn == turns < MaxTurns /\ turns' = turns + 1

\* The list on screen stays when a refresh of it fails.
FailHistory ==
    /\ history.load.pc = "sent"
    /\ Turn
    /\ history' = [history EXCEPT !.load = Off, !.error = TRUE]
    /\ UNCHANGED <<upload, begun, card, banner, shown>>

\* The button Reintentar, which is there only while nothing was ever loaded.
Retry ==
    /\ shown /\ history.error /\ ~ history.loaded
    /\ history' = Execute(history)
    /\ UNCHANGED <<upload, begun, card, banner, shown, turns>>

-----------------------------------------------------------------------------
(* The cards.                                                               *)

Init ==
    /\ upload = [i \in Uploads |-> NoUpload]
    /\ begun = 0
    /\ card = [c \in Cards |-> EmptyCard]
    /\ history = Fresh
    /\ banner = FALSE
    /\ shown = TRUE
    /\ turns = 0

\* accept: a file of the wrong kind is an outcome, and the card keeps none.
Choose(c, f) ==
    /\ shown /\ card[c].file = NoFile
    /\ \/ /\ f \in Files
          /\ card' = [card EXCEPT ![c].file = f, ![c].outcome = NoOutcome]
       \/ /\ f \in Refused
          /\ card' = [card EXCEPT ![c].outcome = [kind |-> "error", of |-> f]]
    /\ UNCHANGED <<upload, begun, history, banner, shown, turns>>

\* Mutant: the button that removes a file works during its upload.
RemoveAnyTime(c) ==
    /\ shown /\ card[c].file # NoFile
    /\ card' = [card EXCEPT ![c].file = NoFile, ![c].outcome = NoOutcome]
    /\ UNCHANGED <<upload, begun, history, banner, shown, turns>>

\* clear, disabled during an upload.
Remove(c) ==
    /\ shown /\ card[c].file # NoFile /\ ~ card[c].uploading
    /\ card' = [card EXCEPT ![c].file = NoFile, ![c].outcome = NoOutcome]
    /\ UNCHANGED <<upload, begun, history, banner, shown, turns>>

\* The next upload of the server, by a card of this page or by somebody else.
Send(by, f, here) ==
    \E i \in Uploads :
        /\ upload[i] = NoUpload /\ \A j \in 1..i - 1 : upload[j] # NoUpload
        /\ upload' = [upload EXCEPT ![i] = [NoUpload EXCEPT
                         !.pc = "sent", !.card = by, !.file = f, !.here = here]]

\* upload: the outcome of an earlier attempt stays until the answer.
Upload(c) ==
    /\ shown /\ card[c].file # NoFile /\ ~ card[c].uploading
    /\ Send(c, card[c].file, TRUE)
    /\ card' = [card EXCEPT ![c].uploading = TRUE]
    /\ UNCHANGED <<begun, history, banner, shown, turns>>

UploadOfOthers ==
    /\ \E f \in Good : Send(Nobody, f, FALSE)
    /\ UNCHANGED <<begun, card, history, banner, shown, turns>>

-----------------------------------------------------------------------------
(* The service.                                                             *)

\* A valid file begins a transaction, and numbers its batch.
Begin(i) ==
    /\ upload[i].pc = "sent" /\ upload[i].file \in Good
    /\ begun' = begun + 1
    /\ upload' = [upload EXCEPT ![i].pc = "begun", ![i].number = begun + 1]
    /\ UNCHANGED <<card, history, banner, shown, turns>>

\* Rows of the file that no import has stored.
AnyNew(i) == \A j \in Uploads : upload[j].file = upload[i].file => upload[j].status # "COMPLETED"

\* The commit, or the rollback when a statement fails.
End(i) ==
    /\ upload[i].pc = "begun"
    /\ \/ /\ upload' = [upload EXCEPT ![i].pc = "ended", ![i].status = "COMPLETED", ![i].inserted = AnyNew(i)]
          /\ UNCHANGED turns
       \/ Turn /\ upload' = [upload EXCEPT ![i].pc = "ended"]
    /\ UNCHANGED <<begun, card, history, banner, shown>>

\* RecordFailure, which may fail itself and is then only logged.
Reject(i) ==
    /\ upload[i].pc = "sent" /\ upload[i].file \in Bad
    /\ \/ /\ begun' = begun + 1
          /\ upload' = [upload EXCEPT ![i].pc = "ended", ![i].number = begun + 1, ![i].status = "FAILED"]
          /\ UNCHANGED turns
       \/ /\ Turn
          /\ upload' = [upload EXCEPT ![i].pc = "ended"]
          /\ UNCHANGED begun
    /\ UNCHANGED <<card, history, banner, shown>>

-----------------------------------------------------------------------------
(* The answer.                                                              *)

OutcomeOf(i) ==
    [kind |-> IF upload[i].status = "COMPLETED" THEN "success"
              ELSE IF upload[i].file \in Bad THEN "rows" ELSE "error",
     of |-> upload[i].file]

\* catch and finally: the card keeps its file and says why, and the history
\* is read again.
Fail(i, outcome) ==
    /\ card' = [card EXCEPT ![upload[i].card] = [@ EXCEPT !.uploading = FALSE, !.outcome = outcome]]
    /\ history' = Execute(history)
    /\ UNCHANGED banner

\* The file is done with; the banner never goes until the page is left.
Succeed(i) ==
    /\ card' = [card EXCEPT ![upload[i].card] = [EmptyCard EXCEPT !.outcome = OutcomeOf(i)]]
    /\ history' = Execute(history)
    /\ banner' = (banner \/ upload[i].inserted)

\* The answer of an upload.  A page left since does not hear of it, nor does
\* one opened since.
Answer(i) ==
    /\ upload[i].pc = "ended" /\ upload[i].here
    /\ upload' = [upload EXCEPT ![i].pc = "answered"]
    /\ IF upload[i].status = "COMPLETED" THEN Succeed(i) ELSE Fail(i, OutcomeOf(i))
    /\ UNCHANGED <<begun, shown, turns>>

\* Mutant: nothing but an answer ends the upload of the card.
LoseSilently(i) ==
    /\ upload[i].pc \in {"sent", "begun", "ended"} /\ upload[i].here
    /\ Turn
    /\ upload' = [upload EXCEPT ![i].here = FALSE]
    /\ UNCHANGED <<begun, card, history, banner, shown>>

\* The connection fails at any time: the card says so, whatever the service
\* has done or will do.
Lose(i) ==
    /\ upload[i].pc \in {"sent", "begun", "ended"} /\ upload[i].here
    /\ Turn
    /\ upload' = [upload EXCEPT ![i].here = FALSE]
    /\ Fail(i, [kind |-> "error", of |-> upload[i].file])
    /\ UNCHANGED <<begun, shown>>

\* Another page, and this one again, mounted anew.
Leave ==
    /\ shown /\ Turn
    /\ shown' = FALSE
    /\ card' = [c \in Cards |-> EmptyCard]
    /\ history' = [Fresh EXCEPT !.load = Off]
    /\ banner' = FALSE
    /\ upload' = [i \in Uploads |-> [upload[i] EXCEPT !.here = FALSE]]
    /\ UNCHANGED begun

Return ==
    /\ ~ shown
    /\ shown' = TRUE
    /\ history' = Fresh
    /\ UNCHANGED <<upload, begun, card, banner, turns>>

-----------------------------------------------------------------------------
Network ==
    \/ ReadHistory \/ DeliverHistory
    \/ \E i \in Uploads : Begin(i) \/ End(i) \/ Reject(i) \/ Answer(i)

Next ==
    \/ Network \/ FailHistory \/ Retry \/ UploadOfOthers \/ Leave \/ Return
    \/ \E c \in Cards : Remove(c) \/ Upload(c) \/ \E f \in Files \cup Refused : Choose(c, f)
    \/ \E i \in Uploads : Lose(i)

\* Requests are handled and answered; the rest is up to the operators.
Spec == Init /\ [][Next]_vars /\ WF_vars(Network)

-----------------------------------------------------------------------------
(* Properties.                                                              *)

\* Every upload of this page whose answer came is in the history once that is
\* at rest without an error, unless newer ones fill it, however the two cards
\* and their refreshes interleave; and the banner is there if any of them
\* inserted rows.
AnsweredIsShown ==
    \A i \in Uploads : upload[i].here /\ upload[i].pc = "answered" =>
        /\ upload[i].inserted => banner
        /\ history.load = Off /\ ~ history.error /\ i \in Recorded =>
              i \in history.data \/ Cardinality(Newer(i)) >= Limit

\* A card that has a file and an outcome shows the outcome of that file, also
\* when the answer comes late.
OutcomeIsOfTheFile ==
    \A c \in Cards : card[c].file # NoFile /\ card[c].outcome # NoOutcome => card[c].outcome.of = card[c].file

\* A card does not stay in its upload: an answer, an error or the operator
\* who leaves ends it.
UploadsEnd == \A c \in Cards : card[c].uploading ~> ~ card[c].uploading

=============================================================================
