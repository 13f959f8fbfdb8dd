------------------------------- MODULE Triage -------------------------------
(***************************************************************************)
(* The follow-up of one anomaly: operators look at it in their browsers    *)
(* and move its status with PATCH /api/anomalies/{id}/status.  A page       *)
(* shows a status it read earlier and offers the transitions from it; the  *)
(* handler (anomaly/service.go UpdateStatus) reads the row, checks the     *)
(* transition, writes the row and reads it again for its answer, in three  *)
(* separate statements.                                                    *)
(***************************************************************************)
EXTENDS Naturals, FiniteSets

CONSTANTS
    Pages,       \* browser pages open on the anomaly
    Handlers,    \* PATCH handlers that can be in flight at once
    Notes,       \* notes whose text fits both limits
    WideNote,    \* a note of at most 500 characters and more than 500 bytes
    NoNote,      \* no note: absent, or blank once trimmed
    NoPage,      \* the page of a request that was left behind
    MaxClicks,   \* bound: transitions requested in a behaviour
    Faults       \* the kinds of fault that can happen, a subset of FaultKinds

FaultKinds == {"refused", "lost"}

ASSUME TriageBounds == MaxClicks \in Nat /\ Faults \subseteq FaultKinds
ASSUME TriageNotes == NoNote \notin Notes \cup {WideNote} /\ WideNote \notin Notes
ASSUME TriagePages == NoPage \notin Pages

VARIABLES
    row,      \* the anomaly's row: status and resolution note
    page,     \* what each page shows and the transition it waits for
    handler,  \* each PATCH request, from the click to its answer
    clicks    \* transitions requested so far

vars == <<row, page, handler, clicks>>

Status == {"OPEN", "INVESTIGATING", "RESOLVED", "DISMISSED"}
AllNotes == Notes \cup {WideNote, NoNote}
NoTarget == "none"

\* allowedTransitions of the service, as pairs.
AllowedTransitions ==
    {"OPEN", "INVESTIGATING"} \X {"RESOLVED", "DISMISSED"}
        \cup {"INVESTIGATING", "RESOLVED", "DISMISSED"} \X {"OPEN"}
        \cup {<<"OPEN", "INVESTIGATING">>}

\* Mutant: the page still offers to dismiss what was resolved.
OfferedDismissal == AllowedTransitions \cup {<<"RESOLVED", "DISMISSED">>}

\* ALLOWED_TRANSITIONS of the front end, the page's own copy of the table.
OfferedTransitions ==
    {<<"OPEN", s>> : s \in {"INVESTIGATING", "RESOLVED", "DISMISSED"}}
        \cup {<<"INVESTIGATING", s>> : s \in {"OPEN", "RESOLVED", "DISMISSED"}}
        \cup {<<s, "OPEN">> : s \in {"RESOLVED", "DISMISSED"}}

Idle == [pc |-> "idle", page |-> NoPage, target |-> NoTarget, note |-> NoNote,
         from |-> NoTarget, reply |-> NoTarget, alone |-> TRUE]

InFlight == {h \in Handlers : handler[h].pc # "idle"}

Init ==
    /\ row = [status |-> "OPEN", note |-> NoNote]
    /\ page = [p \in Pages |-> [shown |-> "OPEN", pending |-> NoTarget, note |-> NoNote]]
    /\ handler = [h \in Handlers |-> Idle]
    /\ clicks = 0

-----------------------------------------------------------------------------
(* The page.                                                                *)

\* The operator types or erases a note; the text stays until a success.
Type(p, note) ==
    /\ page[p].note # note
    /\ clicks < MaxClicks
    /\ page' = [page EXCEPT ![p].note = note]
    /\ UNCHANGED <<row, handler, clicks>>

\* The request of a click: the target, the note and what the page shows.  It
\* overlaps those in flight, and they overlap it.
Send(p, h, next) ==
    /\ handler[h].pc = "idle"
    /\ clicks < MaxClicks
    /\ clicks' = clicks + 1
    /\ page' = [page EXCEPT ![p].pending = next]
    /\ handler' = [g \in Handlers |->
                      IF g = h
                      THEN [Idle EXCEPT !.pc = "sent", !.page = p, !.target = next, !.note = page[p].note,
                                        !.from = page[p].shown, !.alone = (InFlight = {})]
                      ELSE [handler[g] EXCEPT !.alone = @ /\ g \notin InFlight]]
    /\ UNCHANGED row

\* Mutant: only the clicked button is disabled.
ClickAnother(p, h, next) ==
    /\ page[p].pending # next
    /\ <<page[p].shown, next>> \in OfferedTransitions
    /\ Send(p, h, next)

\* The operator clicks one of the buttons; all are disabled while one waits.
\* (A note that is too long for the page disables them too.)
Click(p, h, next) ==
    /\ page[p].pending = NoTarget
    /\ <<page[p].shown, next>> \in OfferedTransitions
    /\ Send(p, h, next)

\* The operator leaves the page and opens it again.  The request is not
\* aborted: the server goes on with it and its answer finds no page.
Reopen(p) ==
    /\ page' = [page EXCEPT ![p] = [shown |-> row.status, pending |-> NoTarget, note |-> NoNote]]
    /\ page' # page
    /\ handler' = [h \in Handlers |->
                      IF handler[h].page = p THEN [handler[h] EXCEPT !.page = NoPage] ELSE handler[h]]
    /\ UNCHANGED <<row, clicks>>

\* Mutant: the catch branch forgets the pending transition.
ForgetAnswer(h) ==
    page' = [p \in Pages |->
                IF p # handler[h].page \/ handler[h].pc # "changed" THEN page[p]
                ELSE [shown |-> handler[h].reply, pending |-> NoTarget, note |-> NoNote]]

\* An answer reaches the page: a success replaces what it shows and clears
\* the note, an error leaves both, and either ends the wait.
ShowAnswer(h) ==
    page' = [p \in Pages |->
                CASE p # handler[h].page -> page[p]
                  [] p = handler[h].page /\ handler[h].pc = "changed" ->
                        [shown |-> handler[h].reply, pending |-> NoTarget, note |-> NoNote]
                  [] OTHER -> [page[p] EXCEPT !.pending = NoTarget]]

Deliver(h) ==
    /\ handler[h].pc \in {"changed", "conflict", "invalid", "failed"}
    /\ ShowAnswer(h)
    /\ handler' = [handler EXCEPT ![h] = Idle]
    /\ UNCHANGED <<row, clicks>>

-----------------------------------------------------------------------------
(* The handler.                                                             *)

Goto(h, pc) == handler' = [handler EXCEPT ![h].pc = pc]

\* len(*note) counts bytes; a blank note was turned into none before.
NoteFits(note) == note # WideNote

\* A request is refused before any statement when its note is too long.
Validate(h) ==
    /\ handler[h].pc = "sent"
    /\ Goto(h, IF NoteFits(handler[h].note) THEN "valid" ELSE "invalid")
    /\ UNCHANGED <<row, page, clicks>>

\* Mutant: the transition is not checked.
ReadCurrentUnchecked(h) ==
    /\ handler[h].pc = "valid"
    /\ Goto(h, "checked")
    /\ UNCHANGED <<row, page, clicks>>

\* GetById, and the transition checked against what it read.
ReadCurrent(h) ==
    /\ handler[h].pc = "valid"
    /\ \/ Goto(h, IF <<row.status, handler[h].target>> \in AllowedTransitions
                  THEN "checked" ELSE "conflict")
       \/ "refused" \in Faults /\ Goto(h, "failed")
    /\ UNCHANGED <<row, page, clicks>>

\* UpdateAnomalyStatus: no condition on the status; COALESCE keeps the note.
Update(h) ==
    row' = [status |-> handler[h].target,
            note |-> IF handler[h].note = NoNote THEN row.note ELSE handler[h].note]

Write(h) ==
    /\ handler[h].pc = "checked"
    /\ \/ Update(h) /\ Goto(h, "written")
       \/ "refused" \in Faults /\ Goto(h, "failed") /\ UNCHANGED row
       \/ "lost" \in Faults /\ Update(h) /\ Goto(h, "failed")
    /\ UNCHANGED <<page, clicks>>

Reply(h, status) ==
    handler' = [handler EXCEPT ![h] = [@ EXCEPT !.pc = "changed", !.reply = status]]

\* Mutant: the answer is what was read before the update.
AnswerWithCurrent(h) ==
    /\ handler[h].pc = "written"
    /\ Reply(h, handler[h].from)
    /\ UNCHANGED <<row, page, clicks>>

\* Get: the answer is the row as it is now, which another request may have
\* changed since the update.  If this read fails the answer is an error
\* although the change is stored.
Answer(h) ==
    /\ handler[h].pc = "written"
    /\ \/ Reply(h, row.status)
       \/ "refused" \in Faults /\ Goto(h, "failed")
    /\ UNCHANGED <<row, page, clicks>>

\* The connection to the browser drops before the answer arrives; the handler's
\* statements are not undone.
Disconnect(h) ==
    /\ "lost" \in Faults
    /\ handler[h].pc = "changed"
    /\ Goto(h, "failed")
    /\ UNCHANGED <<row, page, clicks>>

-----------------------------------------------------------------------------
HandlerStep(h) ==
    Validate(h) \/ ReadCurrent(h) \/ Write(h) \/ Answer(h) \/ Deliver(h)

Next ==
    \/ \E p \in Pages : \/ Reopen(p)
                        \/ \E note \in AllNotes : Type(p, note)
                        \/ \E h \in Handlers, next \in Status : Click(p, h, next)
    \/ \E h \in Handlers : HandlerStep(h) \/ Disconnect(h)

\* A request that was sent is processed and answered.
Fairness == \A h \in Handlers : WF_vars(HandlerStep(h))

Safe == Init /\ [][Next]_vars
Spec == Safe /\ Fairness

-----------------------------------------------------------------------------
(* Properties.                                                              *)

\* The type of every variable.
TypeOK ==
    /\ row \in [status : Status, note : AllNotes]
    /\ page \in [Pages -> [shown : Status, pending : Status \cup {NoTarget}, note : AllNotes]]
    /\ handler \in [Handlers -> [pc : {"idle", "sent", "valid", "checked", "written",
                                       "changed", "conflict", "invalid", "failed"},
                                 page : Pages \cup {NoPage},
                                 target : Status \cup {NoTarget},
                                 note : AllNotes,
                                 from : Status \cup {NoTarget},
                                 reply : Status \cup {NoTarget},
                                 alone : BOOLEAN]]
    /\ clicks \in 0..MaxClicks

\* The anomaly only moves along the documented transitions, however stale the
\* pages that ask for them are.  (UpdateStatus checks what it read and then
\* updates without a condition.)
WorkflowRespected ==
    [][row'.status # row.status => <<row.status, row'.status>> \in AllowedTransitions]_vars

\* A request that overlaps no other moves the anomaly along a documented
\* transition, however stale its page is and whatever failed before: what it
\* checked still holds when it writes, answered or not.
SerialWorkflow ==
    [][\A h \in Handlers :
          Write(h) /\ handler[h].alone /\ row'.status # row.status
              => <<row.status, row'.status>> \in AllowedTransitions]_vars

\* A conflict only tells an operator that the page was stale: the page never
\* offers a transition from the current status that the service refuses.
ConflictMeansStale ==
    [][\A h \in Handlers :
          handler[h].pc = "valid" /\ handler'[h].pc = "conflict"
              => handler[h].from # row.status]_vars

\* A page that is told its change was made, by a request that overlapped no
\* other, shows the row as it is at that moment: the change it asked for, with
\* its note, and not what it was before.
SuccessShowsTheRow ==
    [][\A p \in Pages, h \in Handlers :
          (/\ handler[h].page = p /\ handler[h].alone
           /\ handler[h].pc = "changed" /\ handler'[h].pc = "idle")
              => /\ page'[p].shown = page[p].pending
                 /\ page'[p].shown = row.status
                 /\ handler[h].note \in {NoNote, row.note}]_vars

\* A page waits for a request of its own, the one it shows as pending: no
\* answer of an earlier visit can release or mislead it.
PendingHasItsRequest ==
    \A p \in Pages : page[p].pending # NoTarget =>
        \E h \in Handlers :
            /\ handler[h].page = p
            /\ handler[h].target = page[p].pending
            /\ \A g \in Handlers : handler[g].page = p => g = h

\* The buttons of a page are always released.
EveryClickEnds == \A p \in Pages : page[p].pending # NoTarget ~> page[p].pending = NoTarget

-----------------------------------------------------------------------------
(* What the proofs of these properties rest on.                             *)

\* A request carries a transition that its page offered.
SentWasOffered ==
    \A h \in Handlers :
        handler[h].pc # "idle" => <<handler[h].from, handler[h].target>> \in OfferedTransitions

\* A successful answer carries the status it read.
ChangedHasReply == \A h \in Handlers : handler[h].pc = "changed" => handler[h].reply \in Status

\* The request of a page is in flight and is the one the page waits for.
OwnedIsPending ==
    \A h \in Handlers : handler[h].page # NoPage =>
        /\ handler[h].pc # "idle"
        /\ page[handler[h].page].pending = handler[h].target
        /\ handler[h].target # NoTarget

\* A request that overlaps no other is the only one in flight.
AloneIsAlone == \A h \in InFlight : handler[h].alone => InFlight = {h}

\* A transition that such a request checked is still allowed when it is written.
CheckedStillAllowed ==
    \A h \in Handlers :
        handler[h].pc = "checked" /\ handler[h].alone => <<row.status, handler[h].target>> \in AllowedTransitions

=============================================================================
