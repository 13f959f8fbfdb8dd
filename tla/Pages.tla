------------------------------- MODULE Pages --------------------------------
(***************************************************************************)
(* The pages that only read: the dashboard, the anomalies and the detail of *)
(* a meter, each with hooks useFetch of its own.  In the detail they form a *)
(* chain: the path of a hook is computed, at every render, from the data of *)
(* the others (the range ends at the meter's last reading, the profiles are *)
(* split at the change of its main anomaly), and so is the header of the    *)
(* anomalies.  A path that changes aborts the request in flight and sends   *)
(* another, while the data stays on screen.  Meanwhile readings are         *)
(* imported, analyses complete and the operator moves on.                   *)
(***************************************************************************)
EXTENDS Naturals, Integers, Sequences, FiniteSets

CONSTANTS
    Meters,       \* meters: numbers
    Entries,      \* the pages at which the browser enters
    Spans,        \* the ranges of the buttons: RANGE_OPTIONS
    FullSpan,     \* FULL_RANGE_DAYS, the range at first
    MaxSpan,      \* the longest range the service accepts
    Start,        \* time of the last reading at first: every meter has one
    Step,         \* how much later the last reading of an import is
    Findings,     \* when the anomaly of each meter starts, as an analysis may find it
    MaxAnalyses,  \* bound: analyses that complete
    MaxTurns      \* bound: imports, ranges chosen, meters opened and errors

ASSUME PagesBounds ==
    /\ Meters \subseteq Nat \ {0} /\ Spans \subseteq Nat \ {0} /\ FullSpan \in Spans
    /\ {MaxSpan, Start, Step, MaxAnalyses, MaxTurns} \subseteq Nat
    /\ Start > 0 /\ FullSpan <= MaxSpan
    /\ Findings \subseteq [Meters -> Nat]

VARIABLES
    last,       \* server: time of the last reading of each meter
    found,      \* server: what each completed analysis found in each meter
    mine,       \* the completed analyses this browser started
    announced,  \* completedVersion
    page,       \* the page of the URL, with its meter
    days,       \* the range chosen
    fetch,      \* the hooks of the page
    turns, faults

server == <<last, found, mine>>
vars == <<server, announced, page, days, fetch, turns, faults>>

Dashboard == <<"dashboard", 0>>
Anomalies == <<"anomalies", 0>>
Detail(m) == <<"meter", m>>
AllPages == {Dashboard, Anomalies} \cup {Detail(m) : m \in Meters}

ASSUME EntriesArePages == Entries \subseteq AllPages

HooksOf(p) ==
    CASE p = Dashboard -> {"summary", "anomalies", "fleet"}
      [] p = Anomalies -> {"anomalies", "header"}
      [] OTHER -> {"meter", "anomalies", "detail", "readings", "events", "before", "after"}

\* The hooks of what changes with an analysis: the pages refresh these.
Lists == {"summary", "anomalies", "fleet", "meter"}

\* The hooks with a button Reintentar.
Retried(p) == IF p[1] = "meter" THEN {"meter"} ELSE Lists \cap HooksOf(p)

Null == <<>>
NoData == [path |-> Null, value |-> 0]

\* The main anomaly of a meter starts at a time; 0: the analysis found none.
None == 0
Completed == Len(found)

-----------------------------------------------------------------------------
(* The render: everything it computes from the data of the hooks.           *)

LastReadingAt(f) == f.meter.data.value

\* The anomalies of the list that are of the meter of the URL, the first.
Main(f, m) ==
    IF f.anomalies.data.value = 0 \/ found[f.anomalies.data.value][m] = None
    THEN Null
    ELSE <<f.anomalies.data.value, m>>

\* windowStart of the anomaly, or detectedAt.
ChangeAt(f) == f.detail.data.value

\* Mutant: the range ends at the last reading, which it then leaves out.
RangeEndingBefore(at, span) == [from |-> at - span, to |-> at]

\* rangeEndingAt: the hour after the last reading, and the days before it.
RangeEndingAt(at, span) == [from |-> at + 1 - span, to |-> at + 1]

\* The paths of the hooks that ask for a range.
RangePath(h, m, at, change, span) ==
    LET range == RangeEndingAt(at, span)
        full == RangeEndingAt(at, FullSpan)
    IN CASE h = "readings" -> <<m, range.from, range.to>>
         [] h = "events" -> <<m, full.from, full.to>>
         [] h = "before" -> <<m, full.from, IF change = None THEN full.to ELSE change>>
         [] h = "after" -> IF change = None THEN Null ELSE <<m, change, full.to>>

\* The path of each hook of the detail of a meter, or Null.
DetailPath(h, f, m, span) ==
    CASE h = "meter" -> <<m>>
      [] h = "anomalies" -> <<0>>
      [] h = "detail" -> Main(f, m)
      [] OTHER -> IF LastReadingAt(f) = 0 THEN Null
                  ELSE RangePath(h, m, LastReadingAt(f), ChangeAt(f), span)

\* The path of each hook of the anomalies: the header is the analysis of the
\* list, when there is one.
AnomaliesPath(h, f) ==
    IF h = "anomalies" THEN <<0>>
    ELSE IF f.anomalies.data.value = 0 THEN Null ELSE <<f.anomalies.data.value>>

PathOf(h, f, p, span) ==
    CASE p = Dashboard -> <<0>>
      [] p = Anomalies -> AnomaliesPath(h, f)
      [] OTHER -> DetailPath(h, f, p[2], span)

\* Mutant: execute does not depend on the path: only a first path runs it.
EffectOnce(hook, path) ==
    IF path = hook.path \/ path = Null \/ hook.path # Null THEN [hook EXCEPT !.path = path]
    ELSE [hook EXCEPT !.path = path, !.pc = "sent", !.error = FALSE]

\* The effect of useFetch: a new path aborts the request in flight and sends
\* another; without a path nothing is sent.  The data stays.
Effect(hook, path) ==
    IF path = hook.path THEN hook
    ELSE IF path = Null THEN [hook EXCEPT !.path = path, !.pc = "off"]
    ELSE [hook EXCEPT !.path = path, !.pc = "sent", !.error = FALSE]

\* Mutant: the path is compared as an object, new at every render.
RenderAnew(f, p, span) ==
    [h \in HooksOf(p) |-> IF h \in {"before", "after"} /\ PathOf(h, f, p, span) # Null
                           THEN Effect([f[h] EXCEPT !.path = Null], PathOf(h, f, p, span))
                           ELSE Effect(f[h], PathOf(h, f, p, span))]

Render(f, p, span) == [h \in HooksOf(p) |-> Effect(f[h], PathOf(h, f, p, span))]

\* execute of a path that has not changed.
Execute(hook) == IF hook.path = Null THEN hook ELSE [hook EXCEPT !.pc = "sent", !.error = FALSE]

Off == [path |-> Null, data |-> NoData, pc |-> "off", value |-> 0, error |-> FALSE]
Mounted(p) == Render([h \in HooksOf(p) |-> Off], p, FullSpan)

Init ==
    /\ last = [m \in Meters |-> Start]
    /\ found = <<>> /\ mine = {}
    /\ announced = 0
    /\ page \in Entries
    /\ days = FullSpan
    /\ fetch = [h \in HooksOf(page) |-> IF h \in Lists
                    THEN [Off EXCEPT !.path = IF h = "meter" THEN <<page[2]>> ELSE <<0>>, !.pc = "sent"]
                    ELSE Off]
    /\ turns = 0 /\ faults = 0

-----------------------------------------------------------------------------
(* The server.                                                              *)

Turn == turns < MaxTurns /\ turns' = turns + 1

Import ==
    /\ Turn
    /\ \E m \in Meters : last' = [last EXCEPT ![m] = @ + Step]
    /\ UNCHANGED <<found, mine, announced, page, days, fetch, faults>>

\* An analysis completes, of this browser or of another operator: it finds at
\* most a change within the readings it has.
CompleteAnalysis ==
    /\ Completed < MaxAnalyses
    /\ \E start \in Findings :
         /\ \A m \in Meters : start[m] <= last[m]
         /\ found' = Append(found, start)
    /\ mine' \in {mine, mine \cup {Completed + 1}}
    /\ UNCHANGED <<last, announced, page, days, fetch, turns, faults>>

\* resolveRange: not empty, and not longer than the limit.
RangeAccepted(path) == path[2] < path[3] /\ path[3] - path[2] <= MaxSpan

\* GET of the meter, of the latest anomalies and of the cards: what the server
\* has then.
Handle(h) ==
    /\ h \in Lists /\ fetch[h].pc = "sent"
    /\ fetch' = [fetch EXCEPT ![h].pc = "answered", ![h].value = IF h = "meter" THEN last[page[2]] ELSE Completed]
    /\ UNCHANGED <<server, announced, page, days, turns, faults>>

-----------------------------------------------------------------------------
(* The page.                                                                *)

\* What a hook has after an answer; of an anomaly, when it started.
Data(hook) ==
    [path |-> hook.path, value |-> IF Len(hook.path) = 2 THEN found[hook.path[1]][hook.path[2]] ELSE hook.value]

\* What is asked by its id or by a range: the answer depends on that only.
Answerable(h) ==
    \/ h \in Lists /\ fetch[h].pc = "answered"
    \/ h \in {"detail", "header"} /\ fetch[h].pc = "sent"
    \/ Len(fetch[h].path) = 3 /\ fetch[h].pc = "sent" /\ RangeAccepted(fetch[h].path)

\* An answer: the data and the render that follows, with its effects.
Deliver(h) ==
    /\ Answerable(h)
    /\ fetch' = Render([fetch EXCEPT ![h].pc = "off", ![h].data = Data(fetch[h]), ![h].value = 0], page, days)
    /\ UNCHANGED <<server, announced, page, days, turns, faults>>

\* An error, of the service (400) or on the way; the data stays.
DeliverError(h) ==
    /\ fetch[h].pc = "sent"
    /\ \/ Len(fetch[h].path) = 3 /\ ~ RangeAccepted(fetch[h].path) /\ UNCHANGED <<turns, faults>>
       \/ Turn /\ faults' = faults + 1
    /\ fetch' = Render([fetch EXCEPT ![h].pc = "off", ![h].error = TRUE], page, days)
    /\ UNCHANGED <<server, announced, page, days>>

\* What a card or a page shows of a hook: its data, even beside an error.
ViewOf(h) == IF fetch[h].data # NoData THEN "data" ELSE IF fetch[h].error THEN "error" ELSE "skeleton"

\* Reintentar.
Retry(h) ==
    /\ h \in Retried(page) /\ ViewOf(h) = "error"
    /\ fetch' = [fetch EXCEPT ![h] = Execute(@)]
    /\ UNCHANGED <<server, announced, page, days, turns, faults>>

\* Mutant: the anomalies are not asked for again.
AnnounceElsewhere ==
    /\ \E a \in mine : a > announced /\ announced' = a
    /\ fetch' = [h \in DOMAIN fetch |-> IF h \in Lists \ {"anomalies"} THEN Execute(fetch[h]) ELSE fetch[h]]
    /\ UNCHANGED <<server, page, days, turns, faults>>

\* What changes with an analysis is asked for again.
Refreshed(f) == [h \in DOMAIN f |-> IF h \in Lists THEN Execute(f[h]) ELSE f[h]]

\* The effect on completedVersion.
Announce ==
    /\ \E a \in mine : a > announced /\ announced' = a
    /\ fetch' = Refreshed(fetch)
    /\ UNCHANGED <<server, page, days, turns, faults>>

\* The buttons of the range, which are there once the meter is.
ChooseDays ==
    /\ page[1] = "meter" /\ ViewOf("meter") = "data"
    /\ Turn
    /\ days' \in Spans \ {days}
    /\ fetch' = Render(fetch, page, days')
    /\ UNCHANGED <<server, announced, page, faults>>

\* The history of the browser goes from a meter to another: the component
\* stays mounted and keeps the data of its hooks.  The refresh of the meter is
\* then another function, so that the effect on completedVersion runs again.
Jump ==
    /\ page[1] = "meter"
    /\ Turn
    /\ page' \in {Detail(m) : m \in Meters} \ {page}
    /\ fetch' = IF announced = 0 THEN Render(fetch, page', days) ELSE Refreshed(Render(fetch, page', days))
    /\ UNCHANGED <<server, announced, days, faults>>

\* A link leads to another page, or away and back: mounted anew.
Open ==
    /\ Turn
    /\ page' \in AllPages \ (IF page[1] = "meter" THEN {} ELSE {page})
    /\ days' = FullSpan
    /\ fetch' = Mounted(page')
    /\ UNCHANGED <<server, announced, faults>>

-----------------------------------------------------------------------------
Answers == \E h \in DOMAIN fetch : Handle(h) \/ Deliver(h) \/ DeliverError(h)

Next ==
    \/ Import \/ CompleteAnalysis \/ Announce \/ ChooseDays \/ Jump \/ Open
    \/ Answers
    \/ \E h \in DOMAIN fetch : Retry(h)

\* Requests are answered, in whatever order.
Spec == Init /\ [][Next]_vars /\ WF_vars(Answers)

-----------------------------------------------------------------------------
(* Properties.                                                              *)

Rest == \A h \in DOMAIN fetch : fetch[h].pc = "off"
Clean == \A h \in DOMAIN fetch : ~ fetch[h].error

\* The detail of a meter: the meter of the URL, the range chosen up to its last
\* reading and, when the analysis on screen found an anomaly in it, the change
\* of that anomaly, with the profiles of before and after meeting there.
DetailStory(m) ==
    LET at == LastReadingAt(fetch) IN
    /\ fetch.meter.data.path = <<m>>
    /\ fetch.readings.data.path = <<m, at + 1 - days, at + 1>>
    /\ fetch.events.data.path = <<m, at + 1 - FullSpan, at + 1>>
    /\ Main(fetch, m) # Null =>
         /\ fetch.detail.data.path = Main(fetch, m)
         /\ fetch.before.data.path = <<m, at + 1 - FullSpan, ChangeAt(fetch)>>
         /\ fetch.after.data.path = <<m, ChangeAt(fetch), at + 1>>

\* A page at rest without errors tells one story, however the answers of its
\* hooks arrived: that of the detail, or anomalies under the header of the
\* analysis that found them.
OneStory ==
    Rest /\ Clean =>
        /\ page[1] = "meter" => DetailStory(page[2])
        /\ page = Anomalies /\ fetch.anomalies.data.value # 0 =>
             fetch.header.data.path = <<fetch.anomalies.data.value>>

\* What was announced is on screen: in a page at rest no list or card that
\* loaded without an error is of an analysis older than the last announced.
NewsIsShown ==
    Rest => \A h \in (DOMAIN fetch \cap Lists) \ {"meter"} :
                ~ fetch[h].error => fetch[h].data.value >= announced

\* When no request failed on its own, a page at rest lacks a profile only
\* because the change is older than the two weeks shown, because another
\* operator's analysis, of readings the page does not know of, was listed, or
\* because the change is one of before: useFetch keeps the anomaly of a list
\* that had one when the new list, or the new meter, has none.
ProfilesAnswered ==
    page[1] = "meter" /\ Rest /\ faults = 0 /\ (fetch.before.error \/ fetch.after.error) =>
        \/ ChangeAt(fetch) <= LastReadingAt(fetch) + 1 - FullSpan
        \/ ChangeAt(fetch) > LastReadingAt(fetch) /\ fetch.anomalies.data.value > announced
        \/ Main(fetch, page[2]) = Null

\* The chain of effects ends: every page comes to rest.
PageSettles == <>[]Rest

=============================================================================
