-------------------------------- MODULE Watch --------------------------------
(***************************************************************************)
(* The browser's side of an analysis: AnalysisProvider asks for the latest *)
(* analysis when the layout mounts, starts one with POST /ai/analyze, polls *)
(* an active one until it finishes, tells the operator, and has the pages   *)
(* refetch their lists.  The server is kept to what Analysis promises: rows *)
(* in order, one active at a time.  A request is sent, handled at the       *)
(* server (its answer is what the server saw then) and delivered; several   *)
(* can be in flight and be delivered in another order.                      *)
(***************************************************************************)
EXTENDS Naturals, FiniteSets

CONSTANTS
    MaxAnalyses,  \* bound: analyses the server creates
    Starts,       \* POST requests that can be in flight at once
    MaxFaults,    \* bound: requests that get an error
    MaxReloads    \* bound: times the layout mounts again (reload, login)

ASSUME WatchBounds == MaxAnalyses \in Nat /\ MaxFaults \in Nat /\ MaxReloads \in Nat
ASSUME StartNames == Starts \cap {"first", "poll"} = {}

VARIABLES
    rows,      \* server: status of each analysis
    created,   \* server: analyses created
    shown,     \* the analysis of the context, or NoneShown
    starting,  \* isStarting
    first,     \* the GET of the latest analysis, sent on mount
    post,      \* each POST of start
    poll,      \* the timer and the GET of the effect that polls
    list,      \* the list of anomalies a page shows, and its GET
    ahead,     \* for each request about the analysis, those in flight that were sent before it
    told,      \* how many times the operator was told an analysis ended
    promised,  \* analyses shown as active since the layout mounted
    reordered, \* TRUE once one of them overtook another since the layout mounted
    faults, reloads

vars == <<rows, created, shown, starting, first, post, poll, list, ahead, told, promised, reordered,
          faults, reloads>>

Analyses == 1..MaxAnalyses
Active(view) == view.status = "running"
NoneShown == [id |-> 0, status |-> "none"]
Failure == [id |-> 0, status |-> "error"]

View(a) == [id |-> a, status |-> rows[a]]
Views == [id : Analyses, status : {"running", "completed", "failed"}]

Off == [pc |-> "off", reply |-> NoneShown]
Sent == [pc |-> "sent", reply |-> NoneShown]
Answered(view) == [pc |-> "answered", reply |-> view]

\* The requests whose answers show an analysis, and those of them that are in
\* flight; the GET of the list is sent and answered beside them.
Callers == {"first", "poll"} \cup Starts
CallOf(n) == IF n = "first" THEN first ELSE IF n = "poll" THEN poll ELSE post[n]
Pending == {n \in Callers : CallOf(n).pc \in {"sent", "answered"}}

Init ==
    /\ rows = [a \in Analyses |-> "none"]
    /\ created = 0
    /\ shown = NoneShown
    /\ starting = FALSE
    /\ first = Sent
    /\ post = [s \in Starts |-> Off]
    /\ poll = Off
    /\ list = [pc |-> "sent", reply |-> 0, shown |-> 0, error |-> FALSE]
    /\ ahead = [n \in Callers |-> {}]
    /\ told = [a \in Analyses |-> 0]
    /\ promised = {}
    /\ reordered = FALSE
    /\ faults = 0 /\ reloads = 0

-----------------------------------------------------------------------------
(* The server.                                                              *)

InFlight == {s \in Starts : post[s].pc # "off"}

\* The bound leaves a row for every POST in flight.
Room == created + Cardinality(InFlight) < MaxAnalyses

Running == {a \in Analyses : rows[a] = "running"}

CreateRow ==
    /\ created < MaxAnalyses
    /\ created' = created + 1
    /\ rows' = [rows EXCEPT ![created + 1] = "running"]

\* Another operator starts an analysis.
OtherStarts ==
    /\ Running = {} /\ Room
    /\ CreateRow
    /\ UNCHANGED <<shown, starting, first, post, poll, list, ahead, told, promised, reordered, faults, reloads>>

Finish(a) ==
    /\ rows[a] = "running"
    /\ \E outcome \in {"completed", "failed"} : rows' = [rows EXCEPT ![a] = outcome]
    /\ UNCHANGED <<created, shown, starting, first, post, poll, list, ahead, told, promised, reordered, faults, reloads>>

\* A request is sent behind those in flight.
Send(n) == ahead' = [ahead EXCEPT ![n] = Pending]

\* Requests are delivered or cancelled: nothing is behind them any more.
Leave(gone) == ahead' = [n \in Callers |-> IF n \in gone THEN {} ELSE ahead[n] \ gone]

\* The server handles a request while one that was sent before it is still
\* to be handled; or its answer arrives before that of one sent before it.
HandledIn(n) == reordered' = (reordered \/ \E k \in ahead[n] : CallOf(k).pc = "sent")
DeliveredIn(n) == reordered' = (reordered \/ ahead[n] # {})

Fault == faults < MaxFaults /\ faults' = faults + 1

\* GET /ai/analysis/latest: the newest row, or 404.
HandleFirst ==
    /\ first.pc = "sent"
    /\ HandledIn("first")
    /\ \/ first' = Answered(IF created = 0 THEN Failure ELSE View(created)) /\ UNCHANGED faults
       \/ first' = Answered(Failure) /\ Fault
    /\ UNCHANGED <<rows, created, shown, starting, post, poll, list, ahead, told, promised, reloads>>

\* Mutant: a retry runs the failed row again.
HandlePostRerun(s) ==
    /\ post[s].pc = "sent"
    /\ HandledIn(s)
    /\ created > 0
    /\ rows' = [rows EXCEPT ![created] = "running"]
    /\ post' = [post EXCEPT ![s] = Answered([id |-> created, status |-> "running"])]
    /\ UNCHANGED <<created, shown, starting, first, poll, list, ahead, told, promised, faults, reloads>>

\* POST /ai/analyze: the active row is reused, or one is created.
HandlePost(s) ==
    /\ post[s].pc = "sent"
    /\ HandledIn(s)
    /\ \/ /\ \E a \in Running : post' = [post EXCEPT ![s] = Answered(View(a))]
          /\ UNCHANGED <<rows, created, faults>>
       \/ /\ Running = {}
          /\ CreateRow
          /\ post' = [post EXCEPT ![s] = Answered([id |-> created + 1, status |-> "running"])]
          /\ UNCHANGED faults
       \/ /\ post' = [post EXCEPT ![s] = Answered(Failure)]
          /\ Fault
          /\ UNCHANGED <<rows, created>>
    /\ UNCHANGED <<shown, starting, first, poll, list, ahead, told, promised, reloads>>

\* GET /ai/analysis/{id}.
HandlePoll ==
    /\ poll.pc = "sent"
    /\ HandledIn("poll")
    /\ \/ poll' = Answered(View(shown.id)) /\ UNCHANGED faults
       \/ poll' = Answered(Failure) /\ Fault
    /\ UNCHANGED <<rows, created, shown, starting, first, post, list, ahead, told, promised, reloads>>

Completed == {a \in Analyses : rows[a] = "completed"}
NewestCompleted == IF Completed = {} THEN 0 ELSE CHOOSE a \in Completed : \A b \in Completed : b <= a

\* GET /anomalies: those of the latest completed analysis.
HandleList ==
    /\ list.pc = "sent"
    /\ \/ list' = [list EXCEPT !.pc = "answered", !.reply = NewestCompleted] /\ UNCHANGED faults
       \/ list' = [list EXCEPT !.pc = "failed"] /\ Fault
    /\ UNCHANGED <<rows, created, shown, starting, first, post, poll, ahead, told, promised, reordered, reloads>>

-----------------------------------------------------------------------------
(* The browser.                                                             *)

\* Mutant: the polling effect keeps running when the analysis it polls ends.
ShowAndKeepPolling(view) ==
    /\ shown' = view
    /\ promised' = IF Active(view) THEN promised \cup {view.id} ELSE promised
    /\ poll' = [pc |-> "armed", reply |-> NoneShown]

\* Mutant: the effect depends on the id of the analysis only, so an answer
\* about the same analysis does not run it again.
ShowById(view) ==
    /\ shown' = view
    /\ promised' = IF Active(view) THEN promised \cup {view.id} ELSE promised
    /\ poll' = IF Active(view) /\ view.id # shown.id THEN [pc |-> "armed", reply |-> NoneShown] ELSE Off

\* setAnalysis: the effect that polls is cleaned up (its timer and its GET
\* are cancelled) and runs again, which arms a timer for an active analysis.
Show(view) ==
    /\ shown' = view
    /\ promised' = IF Active(view) THEN promised \cup {view.id} ELSE promised
    /\ poll' = IF Active(view) THEN [pc |-> "armed", reply |-> NoneShown] ELSE Off

\* .then(setAnalysis): whatever is shown by then is replaced.
DeliverFirst ==
    /\ first.pc = "answered"
    /\ DeliveredIn("first")
    /\ first' = Off
    /\ \/ first.reply = Failure /\ Leave({"first"}) /\ UNCHANGED <<shown, promised, poll>>
       \/ first.reply # Failure /\ Show(first.reply) /\ Leave({"first", "poll"})
    /\ UNCHANGED <<rows, created, starting, post, list, told, faults, reloads>>

\* What the drawer shows: the placeholder before any analysis, or the summary
\* of one that runs, with its results or with its error.
DrawerShows ==
    IF shown = NoneShown THEN IF starting THEN "starting" ELSE "never run" ELSE shown.status

\* The drawer offers to retry a failed analysis, and the offer is not withdrawn
\* while a retry is on its way.
CanRetry == DrawerShows = "failed"

\* The button starts an analysis unless one is active or starting.
CanRun == ~ Active(shown) /\ ~ starting

Start(s) ==
    /\ post[s].pc = "off" /\ s = CHOOSE free \in Starts : post[free].pc = "off"
    /\ CanRun \/ CanRetry
    /\ Room
    /\ starting' = TRUE
    /\ post' = [post EXCEPT ![s] = Sent]
    /\ Send(s)
    /\ UNCHANGED <<rows, created, shown, first, poll, list, told, promised, reordered, faults, reloads>>

DeliverPost(s) ==
    /\ post[s].pc = "answered"
    /\ DeliveredIn(s)
    /\ post' = [post EXCEPT ![s] = Off]
    /\ starting' = FALSE
    /\ \/ /\ post[s].reply # Failure /\ Show(post[s].reply)
          /\ Leave({s, "poll"})
       \/ /\ post[s].reply = Failure /\ UNCHANGED <<shown, promised, poll>>
          /\ Leave({s})
    /\ UNCHANGED <<rows, created, first, list, told, faults, reloads>>

\* The timer of POLL_INTERVAL_MS fires.
Tick ==
    /\ poll.pc = "armed"
    /\ poll' = Sent
    /\ Send("poll")
    /\ UNCHANGED <<rows, created, shown, starting, first, post, list, told, promised, reordered, faults, reloads>>

\* Mutant: the page does not refetch while it is loading.
RefetchUnlessLoading ==
    list' = IF list.pc = "idle" THEN [list EXCEPT !.pc = "sent", !.error = FALSE] ELSE list

\* execute: aborts the GET in flight and sends another; the data stays.
Refetch == list' = [list EXCEPT !.pc = "sent", !.error = FALSE]

\* An answer of the poll: a finished analysis is announced and, when it
\* completed, the pages refetch; an error arms the timer again.
DeliverPoll ==
    /\ poll.pc = "answered"
    /\ DeliveredIn("poll") /\ Leave({"poll"})
    /\ \/ /\ poll.reply = Failure
          /\ Show(shown)
          /\ UNCHANGED <<told, list>>
       \/ /\ poll.reply.status = "running"
          /\ Show(poll.reply)
          /\ UNCHANGED <<told, list>>
       \/ /\ poll.reply.status = "failed"
          /\ told' = [told EXCEPT ![poll.reply.id] = @ + 1]
          /\ Show(poll.reply)
          /\ UNCHANGED list
       \/ /\ poll.reply.status = "completed"
          /\ told' = [told EXCEPT ![poll.reply.id] = @ + 1]
          /\ Show(poll.reply)
          /\ Refetch
    /\ UNCHANGED <<rows, created, starting, first, post, faults, reloads>>

DeliverList ==
    /\ list.pc \in {"answered", "failed"}
    /\ list' = IF list.pc = "answered"
               THEN [list EXCEPT !.pc = "idle", !.shown = list.reply, !.error = FALSE]
               ELSE [list EXCEPT !.pc = "idle", !.error = TRUE]
    /\ UNCHANGED <<rows, created, shown, starting, first, post, poll, ahead, told, promised, reordered, faults, reloads>>

\* The layout mounts again: the effects of the old one are cleaned up, the
\* answers of its POSTs find nothing, and it asks for the latest analysis.
Reload ==
    /\ reloads < MaxReloads
    /\ reloads' = reloads + 1
    /\ shown' = NoneShown /\ starting' = FALSE /\ promised' = {}
    /\ told' = [a \in Analyses |-> 0] /\ reordered' = FALSE
    /\ first' = Sent
    /\ poll' = Off
    /\ post' = [s \in Starts |-> Off]
    /\ list' = [pc |-> "sent", reply |-> 0, shown |-> 0, error |-> FALSE]
    /\ ahead' = [n \in Callers |-> {}]
    /\ UNCHANGED <<rows, created, faults>>

-----------------------------------------------------------------------------
Handle == HandleFirst \/ HandlePoll \/ HandleList \/ \E s \in Starts : HandlePost(s)
Deliver == DeliverFirst \/ DeliverPoll \/ DeliverList \/ \E s \in Starts : DeliverPost(s)

Next ==
    \/ OtherStarts
    \/ \E a \in Analyses : Finish(a)
    \/ Handle \/ Deliver \/ Tick \/ Reload
    \/ \E s \in Starts : Start(s)

\* Every analysis ends (Analysis), requests are handled and answered, and
\* timers fire.
Fairness ==
    /\ WF_vars(\E a \in Analyses : Finish(a))
    /\ WF_vars(HandleFirst) /\ WF_vars(HandlePoll) /\ WF_vars(HandleList)
    /\ \A s \in Starts : WF_vars(HandlePost(s)) /\ WF_vars(DeliverPost(s))
    /\ WF_vars(DeliverFirst) /\ WF_vars(DeliverPoll) /\ WF_vars(DeliverList)
    /\ WF_vars(Tick)

Spec == Init /\ [][Next]_vars /\ Fairness

-----------------------------------------------------------------------------
(* Properties.                                                              *)

\* The type of every variable.
TypeOK ==
    /\ rows \in [Analyses -> {"none", "running", "completed", "failed"}]
    /\ created \in 0..MaxAnalyses
    /\ shown \in Views \cup {NoneShown}
    /\ starting \in BOOLEAN
    /\ first.pc \in {"off", "sent", "answered"}
    /\ \A s \in Starts : post[s].pc \in {"off", "sent", "answered"}
    /\ poll.pc \in {"off", "armed", "sent", "answered"}
    /\ list.pc \in {"idle", "sent", "answered", "failed"} /\ list.shown \in 0..MaxAnalyses
    /\ told \in [Analyses -> Nat]
    /\ promised \subseteq Analyses
    /\ reordered \in BOOLEAN

\* The operator is told once, and not again, that an analysis ended: however
\* many requests are in flight together (the first GET, two POSTs, a poll), as
\* long as they are handled and answered in the order they were sent.
ToldOnce == reordered \/ \A a \in Analyses : told[a] <= 1

\* With requests in flight together, but none overtaking another, what the
\* operator is shown of one analysis never goes back from finished to running,
\* and an older analysis never replaces a newer one.
ShownMovesForward ==
    [][~ reordered' /\ shown'.id # 0 =>
          (shown'.id > shown.id \/ (shown'.id = shown.id /\ (Active(shown') => Active(shown))))]_vars

\* Analyses whose end the operator waits to be told of: shown as active, not
\* announced, and no newer one has taken their place.
Awaited == {a \in promised : told[a] = 0 /\ shown.id <= a}

\* With requests in flight together, but none overtaking another, an operator
\* who was shown an active analysis is told when it ends, unless the layout
\* mounts again or a newer analysis takes its place.
ToldWhenItEndsInOrder == Awaited # {} ~> Awaited = {} \/ reordered

\* An active analysis on screen is being polled: the timer is armed or its
\* GET is in flight, whatever answers were cancelled or failed.
ActiveIsPolled == Active(shown) <=> poll.pc # "off"

\* A list that finished loading without an error is not older than what the
\* operator was told: no late answer of an earlier load survives.
ListIsCurrent ==
    \A a \in Analyses :
        told[a] > 0 /\ rows[a] = "completed" /\ list.pc = "idle" /\ ~ list.error => list.shown >= a

=============================================================================
