---------------------------- MODULE TriageProofs ----------------------------
(***************************************************************************)
(* Theorems about Triage for any number of pages, requests and clicks.     *)
(***************************************************************************)
EXTENDS Triage, TLAPS

\* The front end's copy of the transition table and the service's agree.
LEMMA SameTable == OfferedTransitions = AllowedTransitions
<1>1. \A t : t \in OfferedTransitions => t \in AllowedTransitions
  BY DEF OfferedTransitions, AllowedTransitions
<1>2. \A t : t \in AllowedTransitions => t \in OfferedTransitions
  BY DEF OfferedTransitions, AllowedTransitions
<1>3. QED
  BY <1>1, <1>2

\* Both ends of an offered transition are statuses, never the empty target.
LEMMA OfferedAreStatuses ==
  ASSUME NEW a, NEW b, <<a, b>> \in OfferedTransitions
  PROVE  a \in Status /\ b \in Status /\ b # NoTarget
BY DEF OfferedTransitions, Status, NoTarget

\* What a successful answer leaves of the request.
LEMMA ReplyEffect ==
  ASSUME TypeOK, NEW h \in Handlers, NEW status \in Status, Reply(h, status)
  PROVE  /\ handler'[h].pc = "changed" /\ handler'[h].reply = status
         /\ handler'[h].from = handler[h].from /\ handler'[h].target = handler[h].target
         /\ handler'[h].page = handler[h].page /\ handler'[h].note = handler[h].note
         /\ handler'[h].alone = handler[h].alone
         /\ \A g \in Handlers : g # h => handler'[g] = handler[g]
BY DEF TypeOK, Reply

\* What going on leaves of the request.
LEMMA GotoKeeps ==
  ASSUME TypeOK, NEW h \in Handlers, NEW pc, Goto(h, pc)
  PROVE  /\ handler'[h].pc = pc
         /\ handler'[h].from = handler[h].from /\ handler'[h].target = handler[h].target
         /\ handler'[h].page = handler[h].page /\ handler'[h].note = handler[h].note
         /\ handler'[h].alone = handler[h].alone
         /\ \A g \in Handlers : g # h => handler'[g] = handler[g]
BY DEF TypeOK, Goto

\* What a click sends, and what it leaves of the other requests.
LEMMA SendEffect ==
  ASSUME TypeOK, NEW p \in Pages, NEW h \in Handlers, NEW next \in Status, Send(p, h, next)
  PROVE  /\ handler'[h].pc = "sent" /\ handler'[h].page = p /\ handler'[h].target = next
         /\ handler'[h].note = page[p].note /\ handler'[h].from = page[p].shown
         /\ handler'[h].alone => InFlight = {}
         /\ \A g \in Handlers : g # h =>
               /\ handler'[g].pc = handler[g].pc /\ handler'[g].page = handler[g].page
               /\ handler'[g].target = handler[g].target /\ handler'[g].note = handler[g].note
               /\ handler'[g].from = handler[g].from /\ handler'[g].reply = handler[g].reply
               /\ handler'[g].alone => handler[g].alone /\ g \notin InFlight
<1> DEFINE a == InFlight = {}
           b == [g \in Handlers |-> handler[g].alone /\ g \notin InFlight]
<1>1. handler'[h] = [Idle EXCEPT !.pc = "sent", !.page = p, !.target = next, !.note = page[p].note,
                                 !.from = page[p].shown, !.alone = a]
  BY DEF Send
<1>2. \A g \in Handlers : g # h => handler'[g] = [handler[g] EXCEPT !.alone = b[g]]
  BY DEF Send
<1>3. (a => InFlight = {}) /\ \A g \in Handlers : b[g] => handler[g].alone /\ g \notin InFlight
  OBVIOUS
<1> HIDE DEF a, b
<1>4. /\ handler'[h].pc = "sent" /\ handler'[h].page = p /\ handler'[h].target = next
      /\ handler'[h].note = page[p].note /\ handler'[h].from = page[p].shown
      /\ handler'[h].alone = a
  BY <1>1 DEF Idle
<1>5. \A g \in Handlers : g # h =>
         /\ handler'[g].pc = handler[g].pc /\ handler'[g].page = handler[g].page
         /\ handler'[g].target = handler[g].target /\ handler'[g].note = handler[g].note
         /\ handler'[g].from = handler[g].from /\ handler'[g].reply = handler[g].reply
         /\ handler'[g].alone = b[g]
  <2> SUFFICES ASSUME NEW g \in Handlers, g # h
               PROVE  /\ handler'[g].pc = handler[g].pc /\ handler'[g].page = handler[g].page
                      /\ handler'[g].target = handler[g].target /\ handler'[g].note = handler[g].note
                      /\ handler'[g].from = handler[g].from /\ handler'[g].reply = handler[g].reply
                      /\ handler'[g].alone = b[g]
    OBVIOUS
  <2> DEFINE r == handler[g]
             c == b[g]
  <2>1. handler'[g] = [r EXCEPT !.alone = c]
    BY <1>2
  <2>2. r \in [pc : {"idle", "sent", "valid", "checked", "written",
                     "changed", "conflict", "invalid", "failed"},
               page : Pages \cup {NoPage}, target : Status \cup {NoTarget}, note : AllNotes,
               from : Status \cup {NoTarget}, reply : Status \cup {NoTarget}, alone : BOOLEAN]
    BY DEF TypeOK
  <2> HIDE DEF r, c
  <2>3. /\ handler'[g].pc = r.pc /\ handler'[g].page = r.page
        /\ handler'[g].target = r.target /\ handler'[g].note = r.note
        /\ handler'[g].from = r.from /\ handler'[g].reply = r.reply
        /\ handler'[g].alone = c
    BY <2>1, <2>2
  <2>4. QED
    BY <2>3 DEF r, c
<1>6. QED
  BY <1>3, <1>4, <1>5

-----------------------------------------------------------------------------
(* What a request carries, for all values of the constants.                 *)

WellFormed == TypeOK /\ SentWasOffered /\ ChangedHasReply

LEMMA WellFormedInit == Init => WellFormed
BY TriageBounds DEF Init, WellFormed, TypeOK, SentWasOffered, ChangedHasReply, Status, AllNotes, Idle

\* A click sends a transition between two statuses.
LEMMA WellFormedClick ==
  ASSUME WellFormed, NEW p \in Pages, NEW h \in Handlers, NEW next \in Status, Click(p, h, next)
  PROVE  WellFormed'
<1> USE DEF WellFormed
<1>1. TypeOK'
  <2>1. page' \in [Pages -> [shown : Status, pending : Status \cup {NoTarget}, note : AllNotes]]
    <3>1. page' = [page EXCEPT ![p].pending = next]
      BY DEF Click, Send
    <3>2. QED
      BY <3>1 DEF TypeOK
  <2>2. clicks' \in 0..MaxClicks /\ row' = row
    <3>1. clicks < MaxClicks /\ clicks' = clicks + 1 /\ row' = row
      BY DEF Click, Send
    <3>2. QED
      BY <3>1, TriageBounds DEF TypeOK
  <2> DEFINE Rec == [pc : {"idle", "sent", "valid", "checked", "written",
                           "changed", "conflict", "invalid", "failed"},
                     page : Pages \cup {NoPage}, target : Status \cup {NoTarget}, note : AllNotes,
                     from : Status \cup {NoTarget}, reply : Status \cup {NoTarget}, alone : BOOLEAN]
  <2>3. [Idle EXCEPT !.pc = "sent", !.page = p, !.target = next, !.note = page[p].note,
                     !.from = page[p].shown, !.alone = (InFlight = {})] \in Rec
    <3>1. page[p].note \in AllNotes /\ page[p].shown \in Status
      BY DEF TypeOK
    <3>2. QED
      BY <3>1 DEF Idle
  <2>4. \A g \in Handlers : [handler[g] EXCEPT !.alone = (handler[g].alone /\ g \notin InFlight)] \in Rec
    BY DEF TypeOK
  <2>5. handler' \in [Handlers -> Rec]
    <3> HIDE DEF Rec
    <3>1. QED
      BY <2>3, <2>4 DEF Click, Send
  <2>6. QED
    BY <2>1, <2>2, <2>5 DEF TypeOK
<1>2. SentWasOffered'
  <2> SUFFICES ASSUME NEW g \in Handlers, handler'[g].pc # "idle"
               PROVE  <<handler'[g].from, handler'[g].target>> \in OfferedTransitions
    BY DEF SentWasOffered
  <2>1. CASE g = h
    BY <2>1, SendEffect DEF Click
  <2>2. CASE g # h
    BY <2>2, SendEffect DEF Click, SentWasOffered
  <2>3. QED
    BY <2>1, <2>2
<1>3. ChangedHasReply'
  BY SendEffect DEF Click, ChangedHasReply
<1>4. QED
  BY <1>1, <1>2, <1>3

\* A request that goes on, without an answer yet, carries the same transition.
LEMMA GotoEffect ==
  ASSUME WellFormed, NEW h \in Handlers, handler[h].pc # "idle", UNCHANGED <<page, clicks>>,
         NEW pc \in {"valid", "checked", "written", "conflict", "invalid", "failed"}, Goto(h, pc),
         row' \in [status : Status, note : AllNotes]
  PROVE  WellFormed'
BY DEF WellFormed, TypeOK, Goto, SentWasOffered, ChangedHasReply

\* Every step of a handler keeps what the request carries.
LEMMA WellFormedHandler ==
  ASSUME WellFormed, NEW h \in Handlers, HandlerStep(h)
  PROVE  WellFormed'
<1> USE DEF WellFormed, TypeOK
<1>1. CASE Validate(h)
  <2>1. Goto(h, "valid") \/ Goto(h, "invalid")
    BY <1>1 DEF Validate
  <2>2. QED
    BY <1>1, <2>1, GotoEffect DEF Validate
<1>2. CASE ReadCurrent(h)
  <2>1. Goto(h, "checked") \/ Goto(h, "conflict") \/ Goto(h, "failed")
    BY <1>2 DEF ReadCurrent
  <2>2. QED
    BY <1>2, <2>1, GotoEffect DEF ReadCurrent
<1>3. CASE Write(h)
  <2>1. handler[h].target \in Status
    <3>1. <<handler[h].from, handler[h].target>> \in OfferedTransitions
      BY <1>3 DEF Write, SentWasOffered
    <3>2. QED
      BY <3>1, OfferedAreStatuses
  <2>2. row' = row \/ Update(h)
    BY <1>3 DEF Write
  <2>3. row' \in [status : Status, note : AllNotes]
    BY <2>1, <2>2 DEF Update
  <2>4. QED
    <3>1. Goto(h, "written") \/ Goto(h, "failed")
      BY <1>3 DEF Write
    <3>2. handler[h].pc # "idle" /\ UNCHANGED <<page, clicks>>
      BY <1>3 DEF Write
    <3>3. QED
      BY <2>3, <3>1, <3>2, GotoEffect
<1>4. CASE Answer(h)
  <2>1. CASE Goto(h, "failed")
    BY <1>4, <2>1, GotoEffect DEF Answer
  <2>2. CASE Reply(h, row.status)
    <3>1. row.status \in Status /\ handler[h].pc = "written" /\ UNCHANGED <<row, page, clicks>>
      BY <1>4 DEF Answer
    <3>2. TypeOK'
      <4>1. [handler[h] EXCEPT !.pc = "changed", !.reply = row.status]
               \in [pc : {"changed"}, page : Pages \cup {NoPage}, target : Status \cup {NoTarget},
                    note : AllNotes, from : Status \cup {NoTarget}, reply : Status, alone : BOOLEAN]
        BY <3>1
      <4>2. QED
        BY <2>2, <3>1, <4>1 DEF Reply
    <3>3. SentWasOffered' /\ ChangedHasReply'
      BY <2>2, <3>1, ReplyEffect DEF SentWasOffered, ChangedHasReply
    <3>4. QED
      BY <3>2, <3>3
  <2>3. QED
    BY <1>4, <2>1, <2>2 DEF Answer
<1>5. CASE Deliver(h)
  <2>1. page' \in [Pages -> [shown : Status, pending : Status \cup {NoTarget}, note : AllNotes]]
    BY <1>5 DEF Deliver, ShowAnswer, AllNotes, ChangedHasReply
  <2>2. handler' = [handler EXCEPT ![h] = Idle] /\ UNCHANGED <<row, clicks>>
    BY <1>5 DEF Deliver
  <2>3. QED
    BY <2>1, <2>2 DEF Idle, AllNotes, SentWasOffered, ChangedHasReply
<1>6. QED
  BY <1>1, <1>2, <1>3, <1>4, <1>5 DEF HandlerStep

LEMMA WellFormedNext ==
  ASSUME WellFormed, [Next]_vars
  PROVE  WellFormed'
<1> USE DEF WellFormed, TypeOK
<1>1. ASSUME NEW p \in Pages, Reopen(p) PROVE WellFormed'
  <2>1. page' \in [Pages -> [shown : Status, pending : Status \cup {NoTarget}, note : AllNotes]]
    BY <1>1 DEF Reopen, AllNotes
  <2>2. \A h \in Handlers : handler'[h] = IF handler[h].page = p THEN [handler[h] EXCEPT !.page = NoPage]
                                          ELSE handler[h]
    BY <1>1 DEF Reopen
  <2>3. row' = row /\ clicks' = clicks /\ handler' = [h \in Handlers |-> handler'[h]]
    BY <1>1 DEF Reopen
  <2> DEFINE Rec == [pc : {"idle", "sent", "valid", "checked", "written",
                           "changed", "conflict", "invalid", "failed"},
                     page : Pages \cup {NoPage}, target : Status \cup {NoTarget}, note : AllNotes,
                     from : Status \cup {NoTarget}, reply : Status \cup {NoTarget}, alone : BOOLEAN]
  <2>4. \A h \in Handlers : /\ handler'[h] \in Rec
                            /\ handler'[h].pc = handler[h].pc /\ handler'[h].from = handler[h].from
                            /\ handler'[h].target = handler[h].target /\ handler'[h].reply = handler[h].reply
    <3> TAKE h \in Handlers
    <3>1. handler[h] \in Rec
      OBVIOUS
    <3>2. CASE handler'[h] = handler[h]
      BY <3>1, <3>2
    <3>3. CASE handler'[h] = [handler[h] EXCEPT !.page = NoPage]
      <4> DEFINE r == handler[h]
      <4>1. r \in Rec /\ handler'[h] = [r EXCEPT !.page = NoPage]
        BY <3>1, <3>3
      <4> HIDE DEF r
      <4>2. /\ handler'[h] \in Rec /\ handler'[h].pc = r.pc /\ handler'[h].from = r.from
            /\ handler'[h].target = r.target /\ handler'[h].reply = r.reply
        BY <4>1
      <4>3. QED
        BY <4>2 DEF r
    <3>4. QED
      BY <2>2, <3>2, <3>3
  <2>5. TypeOK'
    <3>1. handler' \in [Handlers -> Rec]
      <4> HIDE DEF Rec
      <4>1. QED
        BY <2>3, <2>4
    <3>2. QED
      BY <2>1, <2>3, <3>1
  <2>6. SentWasOffered' /\ ChangedHasReply'
    BY <2>4 DEF SentWasOffered, ChangedHasReply
  <2>7. QED
    BY <2>5, <2>6
<1>2. ASSUME NEW p \in Pages, NEW note \in AllNotes, Type(p, note) PROVE WellFormed'
  BY <1>2 DEF Type, SentWasOffered, ChangedHasReply
<1>3. ASSUME NEW h \in Handlers, Disconnect(h) PROVE WellFormed'
  BY <1>3 DEF Disconnect, Goto, SentWasOffered, ChangedHasReply
<1>4. CASE UNCHANGED vars
  BY <1>4 DEF vars, SentWasOffered, ChangedHasReply
<1>5. QED
  BY <1>1, <1>2, <1>3, <1>4, WellFormedClick, WellFormedHandler DEF Next

THEOREM WellFormedHolds == Safe => []WellFormed
<1>1. WellFormed /\ [Next]_vars => WellFormed'
  BY WellFormedNext
<1>2. QED
  BY <1>1, WellFormedInit, PTL DEF Safe

\* The type invariant holds for any number of pages, requests and clicks.
THEOREM TriageTypeCorrect == Safe => []TypeOK
<1>1. WellFormed => TypeOK
  BY DEF WellFormed
<1>2. QED
  BY <1>1, WellFormedHolds, PTL

-----------------------------------------------------------------------------
(* A conflict means the page was stale, because the two copies of the table *)
(* agree.                                                                   *)

\* In every step that answers with a conflict the row had left the status
\* from which the page offered the transition.
THEOREM ConflictMeansStaleHolds == Safe => ConflictMeansStale
<1>1. WellFormed /\ [Next]_vars =>
        [\A h \in Handlers : handler[h].pc = "valid" /\ handler'[h].pc = "conflict"
                                 => handler[h].from # row.status]_vars
  <2> SUFFICES ASSUME WellFormed, [Next]_vars,
                      NEW h \in Handlers, handler[h].pc = "valid", handler'[h].pc = "conflict"
               PROVE  handler[h].from # row.status
    OBVIOUS
  <2> USE DEF WellFormed, TypeOK
  <2>1. ASSUME NEW p \in Pages, Reopen(p) PROVE FALSE
    BY <2>1 DEF Reopen
  <2>2. ASSUME NEW p \in Pages, NEW note \in AllNotes, Type(p, note) PROVE FALSE
    BY <2>2 DEF Type
  <2>3. ASSUME NEW p \in Pages, NEW g \in Handlers, NEW next \in Status, Click(p, g, next)
        PROVE  FALSE
    BY <2>3, SendEffect DEF Click
  <2>4. ASSUME NEW g \in Handlers, Disconnect(g) PROVE FALSE
    BY <2>4 DEF Disconnect, Goto
  <2>5. ASSUME NEW g \in Handlers, HandlerStep(g) PROVE handler[h].from # row.status
    <3>1. CASE g = h /\ ReadCurrent(g)
      <4>1. <<row.status, handler[h].target>> \notin AllowedTransitions
        BY <3>1 DEF ReadCurrent, Goto
      <4>2. <<handler[h].from, handler[h].target>> \in AllowedTransitions
        BY SameTable DEF SentWasOffered
      <4>3. QED
        BY <4>1, <4>2
    <3>2. CASE g # h
      <4>1. \/ Reply(g, row.status) \/ handler' = [handler EXCEPT ![g] = Idle]
            \/ \E pc \in {"valid", "checked", "written", "conflict", "invalid", "failed"} : Goto(g, pc)
        BY <2>5 DEF HandlerStep, Validate, ReadCurrent, Write, Answer, Deliver
      <4>2. handler'[h] = handler[h]
        BY <3>2, <4>1, ReplyEffect, GotoKeeps
      <4>3. QED
        BY <4>2
    <3>3. CASE g = h /\ ~ ReadCurrent(g)
      BY <2>5, <3>3 DEF HandlerStep, Validate, Write, Answer, Deliver, Goto
    <3>4. QED
      BY <3>1, <3>2, <3>3
  <2>6. CASE UNCHANGED vars
    BY <2>6 DEF vars
  <2>7. QED
    BY <2>1, <2>2, <2>3, <2>4, <2>5, <2>6 DEF Next
<1>2. QED
  BY <1>1, WellFormedHolds, PTL DEF Safe, ConflictMeansStale

-----------------------------------------------------------------------------
(* What a request checked still holds when it writes, if it overlaps no     *)
(* other: the workflow is respected however stale the pages are.            *)

\* A handler that takes a step is in flight, keeps what its request carries,
\* and leaves the other requests alone.
LEMMA HandlerKeeps ==
  ASSUME WellFormed, NEW h \in Handlers, HandlerStep(h) \/ Disconnect(h)
  PROVE  /\ h \in InFlight
         /\ \A g \in Handlers : g # h => handler'[g] = handler[g]
         /\ \/ handler'[h].pc = "idle"
            \/ /\ handler'[h].alone = handler[h].alone /\ handler'[h].target = handler[h].target
               /\ handler'[h].note = handler[h].note
<1> USE DEF WellFormed
<1>1. handler[h].pc # "idle"
  BY DEF HandlerStep, Disconnect, Validate, ReadCurrent, Write, Answer, Deliver
<1>2. \/ Reply(h, row.status) \/ handler' = [handler EXCEPT ![h] = Idle]
      \/ \E pc \in {"valid", "checked", "written", "conflict", "invalid", "failed"} : Goto(h, pc)
  BY DEF HandlerStep, Disconnect, Validate, ReadCurrent, Write, Answer, Deliver
<1>3. CASE Reply(h, row.status)
  <2>1. row.status \in Status
    BY DEF TypeOK
  <2>2. QED
    BY <1>1, <1>3, <2>1, ReplyEffect DEF InFlight
<1>4. CASE handler' = [handler EXCEPT ![h] = Idle]
  BY <1>1, <1>4 DEF Idle, InFlight, TypeOK
<1>5. CASE \E pc \in {"valid", "checked", "written", "conflict", "invalid", "failed"} : Goto(h, pc)
  <2>1. PICK pc : Goto(h, pc)
    BY <1>5
  <2>2. QED
    BY <1>1, <2>1, GotoKeeps DEF InFlight
<1>6. QED
  BY <1>2, <1>3, <1>4, <1>5

\* After a step of a handler, a request that overlaps no other is the one that
\* took the step.
LEMMA AloneTookTheStep ==
  ASSUME WellFormed, AloneIsAlone, NEW h \in Handlers, HandlerStep(h) \/ Disconnect(h),
         NEW g \in Handlers, handler'[g].pc # "idle", handler'[g].alone
  PROVE  g = h /\ handler[h].alone /\ InFlight = {h}
<1>1. g \in InFlight /\ handler[g].alone
  <2>1. CASE g = h
    BY <2>1, HandlerKeeps
  <2>2. CASE g # h
    BY <2>2, HandlerKeeps DEF InFlight
  <2>3. QED
    BY <2>1, <2>2
<1>2. InFlight = {g}
  BY <1>1 DEF AloneIsAlone
<1>3. h \in InFlight
  BY HandlerKeeps
<1>4. QED
  BY <1>1, <1>2, <1>3

\* A step that leaves the requests in flight, their marks and what they carry.
SameRequests ==
    \A h \in Handlers :
        /\ handler'[h].pc = handler[h].pc /\ handler'[h].alone = handler[h].alone
        /\ handler'[h].target = handler[h].target /\ handler'[h].note = handler[h].note
        /\ handler'[h].reply = handler[h].reply

LEMMA PageKeepsRequests ==
  ASSUME WellFormed,
         \/ \E p \in Pages : Reopen(p)
         \/ \E p \in Pages, note \in AllNotes : Type(p, note)
         \/ UNCHANGED vars
  PROVE  SameRequests /\ row' = row
<1> USE DEF WellFormed, TypeOK
<1>1. ASSUME NEW p \in Pages, Reopen(p) PROVE SameRequests /\ row' = row
  <2>1. \A h \in Handlers : handler'[h] \in {handler[h], [handler[h] EXCEPT !.page = NoPage]}
    BY <1>1 DEF Reopen
  <2>2. QED
    BY <1>1, <2>1 DEF Reopen, SameRequests
<1>2. ASSUME NEW p \in Pages, NEW note \in AllNotes, Type(p, note) PROVE SameRequests /\ row' = row
  BY <1>2 DEF Type, SameRequests
<1>3. CASE UNCHANGED vars
  BY <1>3 DEF vars, SameRequests
<1>4. QED
  BY <1>1, <1>2, <1>3

LEMMA AloneNext ==
  ASSUME WellFormed, AloneIsAlone, [Next]_vars
  PROVE  AloneIsAlone'
<1>1. CASE \/ \E p \in Pages : Reopen(p)
           \/ \E p \in Pages, note \in AllNotes : Type(p, note)
           \/ UNCHANGED vars
  BY <1>1, PageKeepsRequests DEF SameRequests, AloneIsAlone, InFlight
<1>2. ASSUME NEW p \in Pages, NEW h \in Handlers, NEW next \in Status, Click(p, h, next)
      PROVE  AloneIsAlone'
  <2> SUFFICES ASSUME NEW g \in Handlers, handler'[g].pc # "idle", handler'[g].alone
               PROVE  InFlight' = {g}
    BY DEF AloneIsAlone, InFlight
  <2>0. TypeOK /\ Send(p, h, next)
    BY <1>2 DEF WellFormed, Click
  <2>1. g = h /\ InFlight = {}
    BY <2>0, SendEffect DEF InFlight
  <2>2. QED
    BY <2>0, <2>1, SendEffect DEF InFlight
<1>3. ASSUME NEW h \in Handlers, HandlerStep(h) \/ Disconnect(h) PROVE AloneIsAlone'
  <2> SUFFICES ASSUME NEW g \in Handlers, handler'[g].pc # "idle", handler'[g].alone
               PROVE  InFlight' = {g}
    BY DEF AloneIsAlone, InFlight
  <2>1. g = h /\ InFlight = {h}
    BY <1>3, AloneTookTheStep
  <2>2. \A k \in Handlers : k # h => handler'[k].pc = "idle"
    BY <1>3, <2>1, HandlerKeeps DEF InFlight
  <2>3. QED
    BY <2>1, <2>2 DEF InFlight
<1>4. QED
  BY <1>1, <1>2, <1>3 DEF Next

\* Nothing else writes between the check of such a request and its own write.
LEMMA CheckedNext ==
  ASSUME WellFormed, AloneIsAlone, CheckedStillAllowed, [Next]_vars
  PROVE  CheckedStillAllowed'
<1> USE DEF CheckedStillAllowed
<1>1. CASE \/ \E p \in Pages : Reopen(p)
           \/ \E p \in Pages, note \in AllNotes : Type(p, note)
           \/ UNCHANGED vars
  BY <1>1, PageKeepsRequests DEF SameRequests
<1>2. ASSUME NEW p \in Pages, NEW h \in Handlers, NEW next \in Status, Click(p, h, next)
      PROVE  CheckedStillAllowed'
  <2>1. TypeOK /\ Send(p, h, next) /\ row' = row
    BY <1>2 DEF WellFormed, Click, Send
  <2>2. QED
    BY <2>1, SendEffect
<1>3. ASSUME NEW h \in Handlers, HandlerStep(h) \/ Disconnect(h) PROVE CheckedStillAllowed'
  <2> SUFFICES ASSUME NEW g \in Handlers, handler'[g].pc = "checked", handler'[g].alone
               PROVE  <<row'.status, handler'[g].target>> \in AllowedTransitions
    OBVIOUS
  <2>1. g = h
    BY <1>3, AloneTookTheStep
  <2>2. ReadCurrent(h)
    <3>1. handler'[h].pc = "checked" /\ TypeOK
      BY <2>1 DEF WellFormed
    <3>2. CASE Validate(h)
      BY <3>1, <3>2, GotoKeeps DEF Validate
    <3>3. CASE Write(h)
      BY <3>1, <3>3, GotoKeeps DEF Write
    <3>4. CASE Answer(h)
      <4>1. row.status \in Status
        BY <3>1 DEF TypeOK
      <4>2. QED
        BY <3>1, <3>4, <4>1, ReplyEffect, GotoKeeps DEF Answer
    <3>5. CASE Deliver(h)
      BY <3>1, <3>5 DEF Deliver, Idle, TypeOK
    <3>6. CASE Disconnect(h)
      BY <3>1, <3>6, GotoKeeps DEF Disconnect
    <3>7. QED
      BY <1>3, <3>2, <3>3, <3>4, <3>5, <3>6 DEF HandlerStep
  <2>3. TypeOK /\ row' = row
    BY <2>2 DEF WellFormed, ReadCurrent
  <2>4. <<row.status, handler[h].target>> \in AllowedTransitions
    <3>1. CASE <<row.status, handler[h].target>> \notin AllowedTransitions
      <4>1. Goto(h, "conflict") \/ Goto(h, "failed")
        BY <2>2, <3>1 DEF ReadCurrent
      <4>2. handler'[h].pc \in {"conflict", "failed"}
        BY <2>3, <4>1, GotoKeeps
      <4>3. QED
        BY <2>1, <4>2
    <3>2. QED
      BY <3>1
  <2>5. handler'[h].target = handler[h].target
    BY <1>3, <2>1, HandlerKeeps
  <2>6. QED
    BY <2>1, <2>3, <2>4, <2>5
<1>4. QED
  BY <1>1, <1>2, <1>3 DEF Next

Serial == AloneIsAlone /\ CheckedStillAllowed

LEMMA SerialHolds == Safe => []Serial
<1>1. Init => Serial
  BY DEF Init, Serial, AloneIsAlone, CheckedStillAllowed, InFlight, Idle
<1>2. WellFormed /\ Serial /\ [Next]_vars => Serial'
  BY AloneNext, CheckedNext DEF Serial
<1>3. QED
  BY <1>1, <1>2, WellFormedHolds, PTL DEF Safe

\* A request that overlaps no other moves the anomaly along a documented
\* transition, however stale its page is and whatever failed before it.
THEOREM SerialWorkflowHolds == Safe => SerialWorkflow
<1>1. Serial => [\A h \in Handlers :
                    Write(h) /\ handler[h].alone /\ row'.status # row.status
                        => <<row.status, row'.status>> \in AllowedTransitions]_vars
  <2> SUFFICES ASSUME Serial, NEW h \in Handlers, Write(h), handler[h].alone, row'.status # row.status
               PROVE  <<row.status, row'.status>> \in AllowedTransitions
    OBVIOUS
  <2>1. row' = row \/ Update(h)
    BY DEF Write
  <2>2. row'.status = handler[h].target
    BY <2>1 DEF Update
  <2>3. <<row.status, handler[h].target>> \in AllowedTransitions
    BY DEF Serial, CheckedStillAllowed, Write
  <2>4. QED
    BY <2>2, <2>3
<1>2. QED
  BY <1>1, SerialHolds, PTL DEF SerialWorkflow

-----------------------------------------------------------------------------
(* A page that waits has exactly one request, the one for what it shows as  *)
(* pending.                                                                 *)

PagesOwn == OwnedIsPending /\ PendingHasItsRequest

LEMMA PagesOwnNext ==
  ASSUME WellFormed, PagesOwn, [Next]_vars
  PROVE  PagesOwn'
<1> USE DEF WellFormed, TypeOK, PagesOwn
<1>1. ASSUME NEW p \in Pages, Reopen(p) PROVE PagesOwn'
  <2>1. \A h \in Handlers : handler'[h].page # p /\ handler'[h].target = handler[h].target
                            /\ handler'[h].pc = handler[h].pc
                            /\ (handler[h].page # p => handler'[h].page = handler[h].page)
                            /\ (handler[h].page = p => handler'[h].page = NoPage)
    BY <1>1, TriagePages DEF Reopen
  <2>2. page'[p].pending = NoTarget /\ \A q \in Pages : q # p => page'[q] = page[q]
    BY <1>1 DEF Reopen
  <2>3. OwnedIsPending'
    BY <2>1, <2>2 DEF OwnedIsPending
  <2>4. PendingHasItsRequest'
    <3> SUFFICES ASSUME NEW q \in Pages, page'[q].pending # NoTarget
                 PROVE  \E h \in Handlers : /\ handler'[h].page = q
                                            /\ handler'[h].target = page'[q].pending
                                            /\ \A g \in Handlers : handler'[g].page = q => g = h
      BY DEF PendingHasItsRequest
    <3>1. q # p /\ page'[q] = page[q]
      BY <2>2
    <3>2. PICK h \in Handlers : /\ handler[h].page = q /\ handler[h].target = page[q].pending
                               /\ \A g \in Handlers : handler[g].page = q => g = h
      BY <3>1 DEF PendingHasItsRequest
    <3>3. handler'[h].page = q /\ handler'[h].target = page'[q].pending
      BY <2>1, <3>1, <3>2
    <3>4. \A g \in Handlers : handler'[g].page = q => handler[g].page = q
      BY <2>1, <3>1, TriagePages
    <3>5. QED
      BY <3>2, <3>3, <3>4
  <2>5. QED
    BY <2>3, <2>4
<1>2. ASSUME NEW p \in Pages, NEW note \in AllNotes, Type(p, note) PROVE PagesOwn'
  <2>1. \A q \in Pages : page'[q].pending = page[q].pending
    BY <1>2 DEF Type
  <2>2. QED
    BY <1>2, <2>1 DEF Type, OwnedIsPending, PendingHasItsRequest
<1>3. ASSUME NEW p \in Pages, NEW h \in Handlers, NEW next \in Status, Click(p, h, next)
      PROVE  PagesOwn'
  <2>1. /\ page[p].pending = NoTarget /\ handler[h].pc = "idle" /\ next # NoTarget
        /\ page'[p].pending = next
        /\ \A q \in Pages : q # p => page'[q] = page[q]
    BY <1>3 DEF Click, Send, Status, NoTarget
  <2>2. /\ handler'[h].pc = "sent" /\ handler'[h].page = p /\ handler'[h].target = next
        /\ \A g \in Handlers : g # h =>
              /\ handler'[g].pc = handler[g].pc /\ handler'[g].page = handler[g].page
              /\ handler'[g].target = handler[g].target
    BY <1>3, SendEffect DEF Click
  <2>3. handler[h].page = NoPage /\ \A g \in Handlers : handler[g].page # p
    BY <2>1, TriagePages DEF OwnedIsPending
  <2>4. OwnedIsPending'
    BY <2>1, <2>2, <2>3 DEF OwnedIsPending
  <2>5. PendingHasItsRequest'
    BY <2>1, <2>2, <2>3, TriagePages DEF PendingHasItsRequest
  <2>6. QED
    BY <2>4, <2>5
<1>4. ASSUME NEW h \in Handlers, HandlerStep(h) \/ Disconnect(h), ~ Deliver(h)
      PROVE  PagesOwn'
  <2>1. \A g \in Handlers : /\ handler'[g].page = handler[g].page
                            /\ handler'[g].target = handler[g].target
                            /\ (handler[g].pc # "idle" => handler'[g].pc # "idle")
    <3>1. handler[h].pc # "idle"
      BY <1>4 DEF HandlerStep, Disconnect, Validate, ReadCurrent, Write, Answer
    <3>2. \/ Reply(h, row.status)
          \/ \E pc \in {"valid", "checked", "written", "conflict", "invalid", "failed"} : Goto(h, pc)
      BY <1>4 DEF HandlerStep, Disconnect, Validate, ReadCurrent, Write, Answer
    <3>3. QED
      BY <3>1, <3>2, ReplyEffect, GotoKeeps
  <2>2. page' = page
    BY <1>4 DEF HandlerStep, Disconnect, Validate, ReadCurrent, Write, Answer
  <2>3. QED
    BY <2>1, <2>2 DEF OwnedIsPending, PendingHasItsRequest
<1>5. ASSUME NEW h \in Handlers, Deliver(h) PROVE PagesOwn'
  <2>1. /\ handler'[h].page = NoPage
        /\ \A g \in Handlers : g # h => handler'[g] = handler[g]
    BY <1>5 DEF Deliver, Idle
  <2>2. \A q \in Pages : IF q = handler[h].page THEN page'[q].pending = NoTarget
                         ELSE page'[q] = page[q]
    <3> SUFFICES ASSUME NEW q \in Pages
                 PROVE  IF q = handler[h].page THEN page'[q].pending = NoTarget
                        ELSE page'[q] = page[q]
      OBVIOUS
    <3>1. CASE q # handler[h].page
      BY <1>5, <3>1 DEF Deliver, ShowAnswer
    <3>2. CASE q = handler[h].page /\ handler[h].pc = "changed"
      BY <1>5, <3>2 DEF Deliver, ShowAnswer
    <3>3. CASE q = handler[h].page /\ handler[h].pc # "changed"
      BY <1>5, <3>3 DEF Deliver, ShowAnswer
    <3>4. QED
      BY <3>1, <3>2, <3>3
  <2>3. \A g \in Handlers : g # h /\ handler[g].page # NoPage => handler[g].page # handler[h].page
    <3> SUFFICES ASSUME NEW g \in Handlers, NEW p \in Pages, g # h,
                        handler[g].page = p, handler[h].page = p
                 PROVE  FALSE
      OBVIOUS
    <3>1. page[p].pending # NoTarget
      BY TriagePages DEF OwnedIsPending
    <3>2. PICK k \in Handlers : \A f \in Handlers : handler[f].page = p => f = k
      BY <3>1 DEF PendingHasItsRequest
    <3>3. QED
      BY <3>2
  <2>4. OwnedIsPending'
    BY <2>1, <2>2, <2>3 DEF OwnedIsPending
  <2>5. PendingHasItsRequest'
    BY <2>1, <2>2, <2>3, TriagePages DEF PendingHasItsRequest
  <2>6. QED
    BY <2>4, <2>5
<1>6. CASE UNCHANGED vars
  BY <1>6 DEF vars, OwnedIsPending, PendingHasItsRequest
<1>7. QED
  BY <1>1, <1>2, <1>3, <1>4, <1>5, <1>6 DEF Next, HandlerStep

\* Every page that waits is waiting for its own request, and for no other.
THEOREM PendingHasItsRequestHolds == Safe => []PendingHasItsRequest
<1>1. Init => PagesOwn
  BY DEF Init, PagesOwn, OwnedIsPending, PendingHasItsRequest, Idle
<1>2. WellFormed /\ PagesOwn /\ [Next]_vars => PagesOwn'
  BY PagesOwnNext
<1>3. PagesOwn => PendingHasItsRequest
  BY DEF PagesOwn
<1>4. QED
  BY <1>1, <1>2, <1>3, WellFormedHolds, PTL DEF Safe

-----------------------------------------------------------------------------
(* What a request that overlaps no other stored is still the row when its   *)
(* answer arrives.                                                          *)

\* From its write to its answer such a request finds in the row what it stored,
\* and answers with it.
WrittenIsTheRow ==
    \A h \in Handlers : handler[h].alone =>
        /\ handler[h].pc \in {"written", "changed"} =>
               row.status = handler[h].target /\ handler[h].note \in {NoNote, row.note}
        /\ handler[h].pc = "changed" => handler[h].reply = row.status

\* A step of the request itself.
LEMMA WrittenStep ==
  ASSUME WellFormed, WrittenIsTheRow, NEW h \in Handlers, handler[h].alone,
         HandlerStep(h) \/ Disconnect(h)
  PROVE  /\ handler'[h].pc \in {"written", "changed"} =>
               row'.status = handler'[h].target /\ handler'[h].note \in {NoNote, row'.note}
         /\ handler'[h].pc = "changed" => handler'[h].reply = row'.status
<1> USE DEF WellFormed
<1>1. CASE Validate(h)
  <2>1. handler'[h].pc \in {"valid", "invalid"}
    BY <1>1, GotoKeeps DEF Validate
  <2>2. QED
    BY <2>1
<1>2. CASE ReadCurrent(h)
  <2>1. handler'[h].pc \in {"checked", "conflict", "failed"}
    BY <1>2, GotoKeeps DEF ReadCurrent
  <2>2. QED
    BY <2>1
<1>3. CASE Write(h)
  <2>1. CASE Goto(h, "failed")
    BY <2>1, GotoKeeps
  <2>2. CASE Update(h) /\ Goto(h, "written")
    <3>1. /\ handler'[h].pc = "written" /\ handler'[h].target = handler[h].target
          /\ handler'[h].note = handler[h].note
      BY <2>2, GotoKeeps
    <3>2. row'.status = handler[h].target /\ (handler[h].note # NoNote => row'.note = handler[h].note)
      BY <2>2 DEF Update
    <3>3. QED
      BY <3>1, <3>2
  <2>3. QED
    BY <1>3, <2>1, <2>2 DEF Write
<1>4. CASE Answer(h)
  <2>1. CASE Goto(h, "failed")
    BY <2>1, GotoKeeps
  <2>2. CASE Reply(h, row.status)
    <3>1. row.status \in Status
      BY DEF TypeOK
    <3>2. /\ handler'[h].pc = "changed" /\ handler'[h].reply = row.status
          /\ handler'[h].target = handler[h].target /\ handler'[h].note = handler[h].note
      BY <2>2, <3>1, ReplyEffect
    <3>3. row' = row /\ row.status = handler[h].target /\ handler[h].note \in {NoNote, row.note}
      BY <1>4 DEF Answer, WrittenIsTheRow
    <3>4. QED
      BY <3>2, <3>3
  <2>3. QED
    BY <1>4, <2>1, <2>2 DEF Answer
<1>5. CASE Deliver(h)
  BY <1>5 DEF Deliver, Idle, TypeOK
<1>6. CASE Disconnect(h)
  BY <1>6, GotoKeeps DEF Disconnect
<1>7. QED
  BY <1>1, <1>2, <1>3, <1>4, <1>5, <1>6 DEF HandlerStep

LEMMA WrittenNext ==
  ASSUME WellFormed, AloneIsAlone, WrittenIsTheRow, [Next]_vars
  PROVE  WrittenIsTheRow'
<1>1. CASE \/ \E p \in Pages : Reopen(p)
           \/ \E p \in Pages, note \in AllNotes : Type(p, note)
           \/ UNCHANGED vars
  BY <1>1, PageKeepsRequests DEF SameRequests, WrittenIsTheRow
<1>2. ASSUME NEW p \in Pages, NEW h \in Handlers, NEW next \in Status, Click(p, h, next)
      PROVE  WrittenIsTheRow'
  <2>1. TypeOK /\ Send(p, h, next) /\ row' = row
    BY <1>2 DEF WellFormed, Click, Send
  <2> SUFFICES ASSUME NEW g \in Handlers, handler'[g].alone, handler'[g].pc \in {"written", "changed"}
               PROVE  /\ row'.status = handler'[g].target /\ handler'[g].note \in {NoNote, row'.note}
                      /\ handler'[g].pc = "changed" => handler'[g].reply = row'.status
    BY DEF WrittenIsTheRow
  <2>2. g # h
    BY <2>1, SendEffect
  <2>3. handler'[g].pc = handler[g].pc /\ handler[g].alone /\ g \notin InFlight
    BY <2>1, <2>2, SendEffect
  <2>4. QED
    BY <2>3 DEF InFlight
<1>3. ASSUME NEW h \in Handlers, HandlerStep(h) \/ Disconnect(h) PROVE WrittenIsTheRow'
  <2> SUFFICES ASSUME NEW g \in Handlers, handler'[g].alone, handler'[g].pc \in {"written", "changed"}
               PROVE  /\ row'.status = handler'[g].target /\ handler'[g].note \in {NoNote, row'.note}
                      /\ handler'[g].pc = "changed" => handler'[g].reply = row'.status
    BY DEF WrittenIsTheRow
  <2>1. g = h /\ handler[h].alone
    BY <1>3, AloneTookTheStep
  <2>2. QED
    BY <1>3, <2>1, WrittenStep
<1>4. QED
  BY <1>1, <1>2, <1>3 DEF Next

\* A request that arrives with a success is delivered to its page.
LEMMA OnlyDeliveryEnds ==
  ASSUME WellFormed, [Next]_vars, NEW h \in Handlers, handler[h].pc = "changed", handler'[h].pc = "idle"
  PROVE  Deliver(h)
<1> USE DEF WellFormed, TypeOK
<1>1. ASSUME NEW p \in Pages, Reopen(p) PROVE FALSE
  BY <1>1 DEF Reopen
<1>2. ASSUME NEW p \in Pages, NEW note \in AllNotes, Type(p, note) PROVE FALSE
  BY <1>2 DEF Type
<1>3. ASSUME NEW p \in Pages, NEW g \in Handlers, NEW next \in Status, Click(p, g, next) PROVE FALSE
  BY <1>3, SendEffect DEF Click
<1>4. ASSUME NEW g \in Handlers, HandlerStep(g) \/ Disconnect(g) PROVE Deliver(h)
  <2>1. CASE g = h
    BY <1>4, <2>1 DEF HandlerStep, Disconnect, Validate, ReadCurrent, Write, Answer, Goto
  <2>2. CASE g # h
    <3>1. \/ Reply(g, row.status) \/ handler' = [handler EXCEPT ![g] = Idle]
          \/ \E pc \in {"valid", "checked", "written", "conflict", "invalid", "failed"} : Goto(g, pc)
      BY <1>4 DEF HandlerStep, Disconnect, Validate, ReadCurrent, Write, Answer, Deliver
    <3>2. handler'[h] = handler[h]
      BY <2>2, <3>1, ReplyEffect, GotoKeeps
    <3>3. QED
      BY <3>2
  <2>3. QED
    BY <2>1, <2>2
<1>5. CASE UNCHANGED vars
  BY <1>5 DEF vars
<1>6. QED
  BY <1>1, <1>2, <1>3, <1>4, <1>5 DEF Next

\* A page that is told its change was made, by a request that overlapped no
\* other, shows the row as it is: the change it asked for, with its note.
THEOREM SuccessShowsTheRowHolds == Safe => SuccessShowsTheRow
<1>1. Init => WrittenIsTheRow /\ PagesOwn
  BY DEF Init, WrittenIsTheRow, PagesOwn, OwnedIsPending, PendingHasItsRequest, Idle
<1>2. WellFormed /\ Serial /\ WrittenIsTheRow /\ [Next]_vars => WrittenIsTheRow'
  BY WrittenNext DEF Serial
<1>3. WellFormed /\ PagesOwn /\ [Next]_vars => PagesOwn'
  BY PagesOwnNext
<1>4. WellFormed /\ WrittenIsTheRow /\ PagesOwn /\ [Next]_vars =>
        [\A p \in Pages, h \in Handlers :
          (/\ handler[h].page = p /\ handler[h].alone
           /\ handler[h].pc = "changed" /\ handler'[h].pc = "idle")
              => /\ page'[p].shown = page[p].pending
                 /\ page'[p].shown = row.status
                 /\ handler[h].note \in {NoNote, row.note}]_vars
  <2> SUFFICES ASSUME WellFormed, WrittenIsTheRow, PagesOwn, [Next]_vars, NEW p \in Pages, NEW h \in Handlers,
                      handler[h].page = p, handler[h].alone,
                      handler[h].pc = "changed", handler'[h].pc = "idle"
               PROVE  /\ page'[p].shown = page[p].pending
                      /\ page'[p].shown = row.status
                      /\ handler[h].note \in {NoNote, row.note}
    OBVIOUS
  <2>1. row.status = handler[h].target /\ handler[h].note \in {NoNote, row.note}
        /\ handler[h].reply = row.status
    BY DEF WrittenIsTheRow
  <2>2. page[p].pending = handler[h].target
    BY TriagePages DEF PagesOwn, OwnedIsPending
  <2>3. page'[p].shown = handler[h].reply
    BY OnlyDeliveryEnds DEF Deliver, ShowAnswer
  <2>4. QED
    BY <2>1, <2>2, <2>3
<1>5. QED
  BY <1>1, <1>2, <1>3, <1>4, WellFormedHolds, SerialHolds, PTL DEF Safe, SuccessShowsTheRow
=============================================================================
