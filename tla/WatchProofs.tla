---------------------------- MODULE WatchProofs ----------------------------
(***************************************************************************)
(* Theorems about Watch for any number of analyses, requests in flight,     *)
(* errors and reloads, in whatever order answers are delivered.             *)
(***************************************************************************)
EXTENDS Watch, WellFoundedInduction, TLAPS

SafeWatch == Init /\ [][Next]_vars

\* Spec without its fairness.
LEMMA SpecIsSafe == Spec => SafeWatch
BY PTL DEF Spec, SafeWatch

-----------------------------------------------------------------------------
(* Polling.                                                                 *)

\* setAnalysis makes polling and what is shown agree, whatever they were.
LEMMA ShowPolls ==
  ASSUME NEW view, Show(view)
  PROVE  Active(shown)' <=> poll'.pc # "off"
BY DEF Show, Off, Active

LEMMA PolledStep == ActiveIsPolled /\ [Next]_vars => ActiveIsPolled'
<1> SUFFICES ASSUME ActiveIsPolled, [Next]_vars PROVE ActiveIsPolled'
  OBVIOUS
<1> USE DEF ActiveIsPolled
<1>1. CASE \E view : Show(view)
  BY <1>1, ShowPolls
<1>2. CASE UNCHANGED <<shown, poll>>
  BY <1>2 DEF Active
<1>3. CASE HandlePoll
  BY <1>3 DEF HandlePoll, Answered, Active
<1>4. CASE Tick
  BY <1>4 DEF Tick, Sent, Active
<1>5. CASE Reload
  BY <1>5 DEF Reload, NoneShown, Off, Active
<1>6. ASSUME DeliverFirst \/ DeliverPoll \/ \E s \in Starts : DeliverPost(s)
      PROVE  (\E view : Show(view)) \/ UNCHANGED <<shown, poll>>
  BY <1>6 DEF DeliverFirst, DeliverPoll, DeliverPost
<1>7. QED
  BY <1>1, <1>2, <1>3, <1>4, <1>5, <1>6
     DEF Next, Handle, Deliver, OtherStarts, Finish, HandleFirst, HandleList, HandlePost, DeliverList,
         Start, vars

\* An analysis shown as active is polled, and nothing else is, in whatever
\* order the answers of the first GET, of the POSTs and of the polls arrive.
THEOREM ActiveIsPolledHolds == Spec => []ActiveIsPolled
<1>1. Init => ActiveIsPolled
  BY DEF Init, ActiveIsPolled, Active, NoneShown, Off
<1>2. QED
  BY <1>1, PolledStep, SpecIsSafe, PTL DEF SafeWatch

-----------------------------------------------------------------------------
(* The list is not older than the announcement.                             *)

Statuses == {"none", "running", "completed", "failed"}
AnyView == [id : Analyses, status : Statuses]
Replies == AnyView \cup {NoneShown, Failure}
CallStates == [pc : {"off", "armed", "sent", "answered"}, reply : Replies]

\* The part of the type that the argument needs.
RowsOK ==
    /\ rows \in [Analyses -> Statuses]
    /\ created \in 0..MaxAnalyses
    /\ \A a \in Analyses : a > created => rows[a] = "none"
CallsOK ==
    /\ shown \in AnyView \cup {NoneShown}
    /\ first \in CallStates /\ post \in [Starts -> CallStates] /\ poll \in CallStates
    /\ first.pc = "answered" => first.reply \in AnyView \cup {Failure}
    /\ \A s \in Starts : post[s].pc = "answered" => post[s].reply \in AnyView \cup {Failure}
    /\ poll.pc = "answered" => poll.reply \in AnyView \cup {Failure}
ListOK ==
    /\ list \in [pc : {"idle", "sent", "answered", "failed"}, reply : 0..MaxAnalyses,
                 shown : 0..MaxAnalyses, error : BOOLEAN]
    /\ told \in [Analyses -> Nat]
TypesOK == RowsOK /\ CallsOK /\ ListOK

Over == {"completed", "failed"}

\* A poll that says an analysis is over is right however late it arrives.
OverIsTrue ==
    poll.pc = "answered" /\ poll.reply.status \in Over => rows[poll.reply.id] = poll.reply.status

\* What was announced is over.
ToldIsOver == \A a \in Analyses : told[a] > 0 => rows[a] \in Over

\* From the announcement of a completed analysis on, the GET of the list that is
\* in flight, or the last one, was handled after it.
ListWillBeCurrent ==
    \A a \in Analyses : told[a] > 0 /\ rows[a] = "completed" =>
        \/ list.pc \in {"sent", "failed"}
        \/ list.pc = "answered" /\ list.reply >= a
        \/ list.pc = "idle" /\ (list.error \/ list.shown >= a)

WatchInv == TypesOK /\ ActiveIsPolled /\ OverIsTrue /\ ToldIsOver /\ ListWillBeCurrent

\* A bounded set of numbers that is not empty has a greatest one.
LEMMA GreatestExists ==
  ASSUME NEW n \in Nat, NEW S \in SUBSET (1..n), S # {}
  PROVE  \E m \in S : \A k \in S : k <= m
<1> DEFINE T == {n - k : k \in S}
<1>1. T \in SUBSET Nat /\ T # {}
  <2>1. \A k \in S : n - k \in Nat
    OBVIOUS
  <2>2. QED
    BY <2>1
<1>2. PICK t \in T : \A u \in T : t <= u
  <2>1. PICK t \in T : \A u \in T : <<u, t>> \notin OpToRel(<, Nat)
    BY <1>1, NatLessThanWellFounded, WFMin
  <2>2. OpToRel(<, Nat) = {ss \in Nat \X Nat : ss[1] < ss[2]}
    BY DEF OpToRel
  <2>3. \A u \in T : ~ (u < t)
    BY <1>1, <2>1, <2>2
  <2>4. QED
    BY <1>1, <2>3
<1>3. PICK m \in S : t = n - m
  BY <1>2
<1>4. ASSUME NEW k \in S PROVE k <= m
  <2>1. t <= n - k
    BY <1>2
  <2>2. k \in 1..n /\ m \in 1..n
    OBVIOUS
  <2>3. QED
    BY <1>3, <2>1, <2>2
<1>5. QED
  BY <1>4

LEMMA NewestIsNewest ==
  ASSUME TypesOK
  PROVE  /\ NewestCompleted \in 0..MaxAnalyses
         /\ \A a \in Analyses : rows[a] = "completed" => NewestCompleted >= a
<1>1. CASE Completed = {}
  BY <1>1, WatchBounds DEF NewestCompleted, Completed
<1>2. CASE Completed # {}
  <2>1. \E m \in Completed : \A k \in Completed : k <= m
    BY <1>2, WatchBounds, GreatestExists DEF Completed, Analyses
  <2>2. NewestCompleted \in Completed /\ \A b \in Completed : b <= NewestCompleted
    BY <1>2, <2>1 DEF NewestCompleted
  <2>3. QED
    BY <2>2, WatchBounds DEF Completed, Analyses
<1>3. QED
  BY <1>1, <1>2

LEMMA InitWatchInv == Init => WatchInv
BY WatchBounds DEF Init, WatchInv, TypesOK, RowsOK, CallsOK, ListOK, Analyses, OverIsTrue, ToldIsOver, ListWillBeCurrent, Statuses, AnyView,
   Replies, CallStates, Off, Sent, NoneShown, Failure, ActiveIsPolled, Active

\* What the constructors of calls make.
LEMMA CallsType ==
  /\ Off \in CallStates /\ Off.pc = "off" /\ Sent \in CallStates /\ Sent.pc = "sent"
  /\ [pc |-> "armed", reply |-> NoneShown] \in CallStates
  /\ \A v \in AnyView \cup {Failure} :
        Answered(v) \in CallStates /\ Answered(v).pc = "answered" /\ Answered(v).reply = v
BY DEF Off, Sent, Answered, CallStates, Replies

LEMMA ViewType ==
  ASSUME TypesOK, NEW a \in Analyses
  PROVE  View(a) \in AnyView /\ View(a).id = a /\ View(a).status = rows[a]
BY DEF TypesOK, RowsOK, View, AnyView

\* What the steps do to the rows: one is created or ends.
LEMMA RowsStep ==
  ASSUME TypesOK, Next
  PROVE  RowsOK' /\ \A a \in Analyses : rows[a] \in Over => rows'[a] = rows[a]
<1> USE DEF TypesOK, RowsOK
<1>1. CASE CreateRow
  BY <1>1, WatchBounds DEF CreateRow, Analyses, Statuses, Over
<1>2. CASE \E a \in Analyses : Finish(a)
  <2>1. PICK a \in Analyses, outcome \in Over : rows[a] = "running" /\ rows' = [rows EXCEPT ![a] = outcome]
                                                /\ created' = created
    BY <1>2 DEF Finish, Over
  <2>2. QED
    BY <2>1 DEF Statuses, Over
<1>3. CASE UNCHANGED <<rows, created>>
  BY <1>3
<1>4. QED
  BY <1>1, <1>2, <1>3 DEF Next, Handle, Deliver, OtherStarts, HandleFirst, HandlePost, HandlePoll, HandleList,
     DeliverFirst, DeliverPost, DeliverPoll, DeliverList, Tick, Reload, Start

\* setAnalysis leaves the types.
LEMMA ShowType ==
  ASSUME NEW view \in AnyView \cup {NoneShown}, Show(view)
  PROVE  shown' \in AnyView \cup {NoneShown} /\ poll' \in CallStates /\ poll'.pc # "answered"
BY CallsType DEF Show, Off

\* An answer that is not the failure is a view.
LEMMA NotFailure == \A v \in AnyView : v # Failure
BY DEF AnyView, Failure, Analyses

LEMMA CallsStep ==
  ASSUME TypesOK, ActiveIsPolled, Next
  PROVE  CallsOK'
<1> USE DEF TypesOK, CallsOK
<1>1. CASE UNCHANGED <<shown, first, post, poll>>
  BY <1>1
<1>2. CASE HandleFirst
  <2>1. created # 0 => created \in Analyses
    BY WatchBounds DEF RowsOK, Analyses
  <2>2. PICK v \in AnyView \cup {Failure} : first' = Answered(v)
    BY <1>2, <2>1, ViewType DEF HandleFirst
  <2>3. QED
    BY <1>2, <2>2, CallsType DEF HandleFirst
<1>3. ASSUME NEW s \in Starts, HandlePost(s) PROVE CallsOK'
  <2>1. PICK v \in AnyView \cup {Failure} : post' = [post EXCEPT ![s] = Answered(v)]
    <3>1. ASSUME NEW a \in Running PROVE View(a) \in AnyView
      BY ViewType DEF Running
    <3>2. CreateRow => [id |-> created + 1, status |-> "running"] \in AnyView
      BY WatchBounds DEF RowsOK, CreateRow, AnyView, Analyses, Statuses
    <3>3. QED
      BY <1>3, <3>1, <3>2 DEF HandlePost
  <2>2. QED
    BY <1>3, <2>1, CallsType DEF HandlePost
<1>4. CASE HandlePoll
  <2>1. shown.id \in Analyses
    BY <1>4 DEF HandlePoll, ActiveIsPolled, Active, AnyView, NoneShown
  <2>2. QED
    BY <1>4, <2>1, ViewType, CallsType DEF HandlePoll
<1>5. CASE DeliverFirst
  <2>1. first' = Off /\ post' = post
    BY <1>5 DEF DeliverFirst
  <2>2. UNCHANGED <<shown, poll>> \/ \E v \in AnyView : Show(v)
    BY <1>5 DEF DeliverFirst
  <2>3. QED
    BY <2>1, <2>2, ShowType, CallsType
<1>6. ASSUME NEW s \in Starts, DeliverPost(s) PROVE CallsOK'
  <2>1. first' = first /\ post' = [post EXCEPT ![s] = Off]
    BY <1>6 DEF DeliverPost
  <2>2. UNCHANGED <<shown, poll>> \/ \E v \in AnyView : Show(v)
    BY <1>6 DEF DeliverPost
  <2>3. QED
    BY <2>1, <2>2, ShowType, CallsType
<1>7. CASE DeliverPoll
  <2>1. UNCHANGED <<first, post>> /\ \E v \in AnyView \cup {NoneShown} : Show(v)
    <3>1. poll.reply = Failure => Failure.status \notin {"running", "failed", "completed"}
      BY DEF Failure
    <3>2. QED
      BY <1>7, <3>1 DEF DeliverPoll
  <2>2. QED
    BY <2>1, ShowType
<1>8. ASSUME NEW s \in Starts, Start(s) PROVE CallsOK'
  BY <1>8, CallsType DEF Start
<1>9. CASE Tick
  BY <1>9, CallsType DEF Tick
<1>10. CASE Reload
  BY <1>10, CallsType DEF Reload
<1>11. QED
  BY <1>1, <1>2, <1>3, <1>4, <1>5, <1>6, <1>7, <1>8, <1>9, <1>10
     DEF Next, Handle, Deliver, OtherStarts, Finish, HandleList, DeliverList

\* What the announcement does.
LEMMA ToldEffect ==
  ASSUME TypesOK, DeliverPoll
  PROVE  \/ UNCHANGED <<told, list>>
         \/ \E v \in AnyView : /\ poll.reply = v /\ v.status \in Over
                              /\ told' = [told EXCEPT ![v.id] = @ + 1]
                              /\ IF v.status = "completed" THEN Refetch ELSE list' = list
<1>1. poll.reply \in AnyView \cup {Failure} /\ Failure.status = "error"
  BY DEF TypesOK, CallsOK, DeliverPoll, Failure
<1>2. QED
  BY <1>1 DEF DeliverPoll, Over

LEMMA ListTypeStep ==
  ASSUME TypesOK, Next
  PROVE  ListOK'
<1> USE DEF TypesOK, ListOK
<1>1. CASE UNCHANGED <<list, told>>
  BY <1>1
<1>2. CASE HandleList
  BY <1>2, NewestIsNewest DEF HandleList
<1>3. CASE DeliverList
  BY <1>3 DEF DeliverList
<1>4. CASE Reload
  BY <1>4, WatchBounds DEF Reload
<1>5. CASE DeliverPoll
  <2>1. list' \in [pc : {"idle", "sent", "answered", "failed"}, reply : 0..MaxAnalyses,
                   shown : 0..MaxAnalyses, error : BOOLEAN]
    BY <1>5, ToldEffect DEF Refetch
  <2>2. told' \in [Analyses -> Nat]
    BY <1>5, ToldEffect DEF AnyView
  <2>3. QED
    BY <2>1, <2>2
<1>6. QED
  BY <1>1, <1>2, <1>3, <1>4, <1>5
     DEF Next, Handle, Deliver, OtherStarts, Finish, HandleFirst, HandlePost, HandlePoll, DeliverFirst,
         DeliverPost, Start, Tick

\* A finished analysis that a poll reports stays as reported.
LEMMA OverIsTrueStep ==
  ASSUME TypesOK, OverIsTrue, Next
  PROVE  OverIsTrue'
<1> SUFFICES ASSUME poll'.pc = "answered", poll'.reply.status \in Over
             PROVE  rows'[poll'.reply.id] = poll'.reply.status
  BY DEF OverIsTrue
<1>1. CASE poll' = poll
  <2>1. poll.reply \in AnyView
    BY <1>1 DEF TypesOK, CallsOK, Failure, Over
  <2>2. QED
    BY <1>1, <2>1, RowsStep DEF OverIsTrue, AnyView
<1>2. CASE HandlePoll
  <2>1. PICK v \in {View(shown.id), Failure} : poll' = Answered(v) /\ rows' = rows
    BY <1>2 DEF HandlePoll
  <2>2. QED
    BY <2>1 DEF Answered, View, Failure, Over
<1>3. CASE \E view : Show(view)
  BY <1>3 DEF Show, Off
<1>4. CASE Tick \/ Reload
  BY <1>4 DEF Tick, Reload, Sent, Off
<1>5. ASSUME DeliverFirst \/ DeliverPoll \/ \E s \in Starts : DeliverPost(s)
      PROVE  (\E view : Show(view)) \/ poll' = poll
  BY <1>5 DEF DeliverFirst, DeliverPoll, DeliverPost
<1>6. QED
  BY <1>1, <1>2, <1>3, <1>4, <1>5
     DEF Next, Handle, Deliver, OtherStarts, Finish, HandleFirst, HandleList, HandlePost, DeliverList, Start

LEMMA ToldIsOverStep ==
  ASSUME TypesOK, OverIsTrue, ToldIsOver, Next
  PROVE  ToldIsOver'
<1> SUFFICES ASSUME NEW a \in Analyses, told'[a] > 0 PROVE rows'[a] \in Over
  BY DEF ToldIsOver
<1>1. CASE told[a] > 0
  BY <1>1, RowsStep DEF ToldIsOver
<1>2. CASE ~ (told[a] > 0)
  <2>1. DeliverPoll
    <3>1. DeliverPoll \/ Reload \/ told' = told
      BY DEF Next, Handle, Deliver, OtherStarts, Finish, HandleFirst, HandlePost, HandlePoll, HandleList,
         DeliverFirst, DeliverPost, DeliverList, Start, Tick
    <3>2. QED
      BY <1>2, <3>1 DEF Reload
  <2>2. PICK v \in AnyView : /\ poll.reply = v /\ v.status \in Over
                             /\ told' = [told EXCEPT ![v.id] = @ + 1]
    BY <1>2, <2>1, ToldEffect
  <2>3. v.id = a
    BY <1>2, <2>2 DEF TypesOK, ListOK, AnyView
  <2>4. rows[a] \in Over
    BY <2>1, <2>2, <2>3 DEF OverIsTrue, DeliverPoll
  <2>5. QED
    BY <2>4, RowsStep
<1>3. QED
  BY <1>1, <1>2

\* A list is sent again with the announcement of a completed analysis, and is
\* answered with the newest one of that time.
LEMMA ListStep ==
  ASSUME WatchInv, Next
  PROVE  ListWillBeCurrent'
<1> USE DEF WatchInv
<1> SUFFICES ASSUME NEW a \in Analyses, told'[a] > 0, rows'[a] = "completed"
             PROVE  \/ list'.pc \in {"sent", "failed"}
                    \/ list'.pc = "answered" /\ list'.reply >= a
                    \/ list'.pc = "idle" /\ (list'.error \/ list'.shown >= a)
  BY DEF ListWillBeCurrent
<1>1. rows[a] \in Over => rows[a] = "completed"
  BY RowsStep
<1>2. CASE told[a] > 0 /\ list' = list
  BY <1>1, <1>2 DEF ToldIsOver, ListWillBeCurrent
<1>3. CASE HandleList
  BY <1>3, NewestIsNewest DEF HandleList, TypesOK, ListOK
<1>4. CASE DeliverList
  <2>1. told[a] > 0
    BY <1>4 DEF DeliverList
  <2>2. QED
    BY <1>1, <1>4, <2>1 DEF DeliverList, TypesOK, ListOK, ToldIsOver, ListWillBeCurrent
<1>5. CASE Reload
  BY <1>5 DEF Reload
<1>6. CASE DeliverPoll
  <2>1. CASE UNCHANGED <<told, list>>
    BY <1>2, <2>1
  <2>2. ASSUME NEW v \in AnyView, poll.reply = v, v.status \in Over,
               told' = [told EXCEPT ![v.id] = @ + 1],
               IF v.status = "completed" THEN Refetch ELSE list' = list
        PROVE  \/ list'.pc \in {"sent", "failed"}
               \/ list'.pc = "answered" /\ list'.reply >= a
               \/ list'.pc = "idle" /\ (list'.error \/ list'.shown >= a)
    <3>1. CASE v.status = "completed"
      BY <2>2, <3>1 DEF Refetch, TypesOK, ListOK
    <3>2. CASE v.status = "failed"
      <4>1. v.id # a
        <5>1. rows[v.id] = "failed"
          BY <1>6, <2>2, <3>2 DEF OverIsTrue, DeliverPoll
        <5>2. QED
          BY <1>1, <5>1, RowsStep DEF Over
      <4>2. told[a] > 0 /\ list' = list
        BY <2>2, <3>2, <4>1 DEF TypesOK, ListOK
      <4>3. QED
        BY <1>2, <4>2
    <3>3. QED
      BY <2>2, <3>1, <3>2 DEF Over
  <2>3. QED
    BY <1>6, <2>1, <2>2, ToldEffect
<1>7. CASE UNCHANGED <<told, list>>
  BY <1>2, <1>7
<1>8. QED
  BY <1>3, <1>4, <1>5, <1>6, <1>7
     DEF Next, Handle, Deliver, OtherStarts, Finish, HandleFirst, HandlePost, HandlePoll, DeliverFirst,
         DeliverPost, Start, Tick

LEMMA WatchInvStep == WatchInv /\ [Next]_vars => WatchInv'
<1>1. ASSUME WatchInv, Next PROVE WatchInv'
  BY <1>1, RowsStep, CallsStep, ListTypeStep, OverIsTrueStep, ToldIsOverStep, ListStep, PolledStep
     DEF WatchInv, TypesOK
<1>2. ASSUME WatchInv, UNCHANGED vars PROVE WatchInv'
  BY <1>2, PolledStep
     DEF WatchInv, TypesOK, RowsOK, CallsOK, ListOK, OverIsTrue, ToldIsOver, ListWillBeCurrent, vars
<1>3. QED
  BY <1>1, <1>2

\* What a page lists, once loaded, is not older than what the operator was told,
\* whatever the order in which answers are delivered.
THEOREM ListIsCurrentHolds == Spec => []ListIsCurrent
<1>1. WatchInv => ListIsCurrent
  BY DEF WatchInv, ListWillBeCurrent, ListIsCurrent
<1>2. QED
  BY InitWatchInv, WatchInvStep, <1>1, SpecIsSafe, PTL DEF SafeWatch

-----------------------------------------------------------------------------
(* What is told and shown while no request overtakes another.               *)

\* Requests in flight are ordered: of two, one was sent before the other.
AheadOK ==
    /\ ahead \in [Callers -> SUBSET Pending]
    /\ \A m, n \in Pending : m = n \/ m \in ahead[n] \/ n \in ahead[m]

\* While none was overtaken, those sent before one that has its answer have
\* theirs.
AheadAnswered ==
    reordered \/ \A n \in Callers : CallOf(n).pc = "answered" => \A k \in ahead[n] : CallOf(k).pc = "answered"

\* Analyses run one at a time, the newest; what an answer, or the screen, says
\* of one is of an analysis that exists, and its end is true.
True(v) == v.id \in 1..created /\ v.status # "none" /\ (v.status \in Over => rows[v.id] = v.status)
OnlyNewestRuns == \A a \in 1..created : rows[a] # "none" /\ (rows[a] = "running" => a = created)
Seen(n) == CallOf(n).pc = "answered" /\ CallOf(n).reply # Failure
AnswersTrue == \A n \in Callers : Seen(n) => True(CallOf(n).reply)
ShownTrue == shown = NoneShown \/ True(shown)

\* The second view is not behind the first: of a newer analysis, or not back
\* from the end of the same one to its run.
Later(v, w) ==
    \/ w.id > v.id
    \/ w.id = v.id /\ (Active(w) => Active(v))

\* An answer does not take back what is shown, nor what the answers before it
\* will show; the poll gives way to those, which cancel it.
Forward(v) == Later(shown, v)
AnswersForward == reordered \/ \A n \in Callers : Seen(n) => Forward(CallOf(n).reply)
AnswersInOrder ==
    reordered \/ \A n \in Callers \ {"poll"} : Seen(n) =>
        \A k \in ahead[n] : Seen(k) => Later(CallOf(k).reply, CallOf(n).reply)

\* Each end was told once, and what is shown is past it.
ToldIsPast ==
    reordered \/ \A a \in Analyses :
        told[a] > 0 => told[a] = 1 /\ shown.id >= a /\ (shown.id = a => ~ Active(shown))

OrderInv ==
    /\ AheadOK /\ AheadAnswered
    /\ OnlyNewestRuns /\ AnswersTrue /\ ShownTrue
    /\ AnswersForward /\ AnswersInOrder /\ ToldIsPast

-----------------------------------------------------------------------------
(* What each step does to the requests.                                     *)

Kept(k) == CallOf(k)' = CallOf(k)
Idle == {"off", "armed"}

\* A request gets its answer; unless it overtook another, after those before
\* it.
AnswerStep(n, v) ==
    /\ CallOf(n).pc = "sent" /\ CallOf(n)' = Answered(v) /\ \A k \in Callers \ {n} : Kept(k)
    /\ ~ reordered' => ~ reordered /\ \A k \in ahead[n] : CallOf(k).pc # "sent"
    /\ v # Failure => v \in AnyView /\ True(v)' /\ Forward(v)
    /\ v # Failure /\ n # "poll" => \A w \in AnyView : True(w) => Later(w, v)
    /\ UNCHANGED <<shown, ahead, told>>

\* An answer arrives, unless it overtook another as the first of those in
\* flight: it is shown, which cancels the poll, or nothing is; it may be told.
ArriveStep(n, gone) ==
    /\ CallOf(n).pc = "answered"
    /\ ~ reordered' => ~ reordered /\ ahead[n] = {}
    /\ n \in gone /\ gone \in SUBSET Callers /\ Leave(gone)
    /\ \A k \in gone : CallOf(k)'.pc \in Idle
    /\ \A k \in Callers \ gone : Kept(k)
    /\ \/ shown' = shown
       \/ CallOf(n).reply # Failure /\ shown' = CallOf(n).reply /\ "poll" \in gone
    /\ \/ told' = told
       \/ /\ n = "poll" /\ CallOf(n).reply # Failure /\ ~ Active(CallOf(n).reply)
          /\ told' = [told EXCEPT ![CallOf(n).reply.id] = @ + 1]
          /\ shown' = CallOf(n).reply
    /\ UNCHANGED <<rows, created>>

\* A request is sent.
SendStep(n) ==
    /\ CallOf(n).pc \in Idle /\ CallOf(n)' = Sent /\ \A k \in Callers \ {n} : Kept(k)
    /\ Send(n)
    /\ UNCHANGED <<rows, created, shown, told, reordered>>

\* Nothing happens to them.
OtherStep == (\A k \in Callers : Kept(k)) /\ UNCHANGED <<shown, told, ahead, reordered>>

\* The layout mounts again: only the first GET is in flight.
MountStep ==
    /\ ~ reordered' /\ shown' = NoneShown /\ ahead' = [n \in Callers |-> {}]
    /\ told' = [a \in Analyses |-> 0]
    /\ CallOf("first")'.pc = "sent" /\ \A k \in Callers \ {"first"} : CallOf(k)'.pc \in Idle

LEMMA CallNames == "first" \in Callers /\ "poll" \in Callers /\ Starts \subseteq Callers
BY DEF Callers

\* Which request a name is.
LEMMA CallsNamed ==
  /\ CallOf("first") = first /\ CallOf("poll") = poll /\ \A s \in Starts : CallOf(s) = post[s]
  /\ CallOf("first")' = first' /\ CallOf("poll")' = poll' /\ \A s \in Starts : CallOf(s)' = post'[s]
  /\ \A s \in Starts : s \notin {"first", "poll"}
  /\ \A k \in Callers : k \in {"first", "poll"} \/ k \in Starts
BY StartNames DEF CallOf, Callers

LEMMA TrueStays ==
  ASSUME TypesOK, Next, NEW v \in AnyView, True(v)
  PROVE  True(v)'
<1>1. CreateRow \/ created' = created
  BY DEF Next, Handle, Deliver, OtherStarts, Finish, HandleFirst, HandlePost, HandlePoll, HandleList,
     DeliverFirst, DeliverPost, DeliverPoll, DeliverList, Tick, Reload, Start
<1>2. created \in Nat /\ created' \in created..(created + 1)
  BY <1>1, WatchBounds DEF TypesOK, RowsOK, CreateRow
<1>3. QED
  BY <1>2, RowsStep DEF True, AnyView

\* The newest analysis and a new one are true, and behind no true view.
LEMMA NewestLater ==
  ASSUME TypesOK, OnlyNewestRuns, NEW w \in AnyView, True(w)
  PROVE  /\ created # 0 => created \in Analyses /\ True(View(created)) /\ Later(w, View(created))
         /\ \A v : v.id = created + 1 => Later(w, v)
<1>1. created \in Nat /\ created <= MaxAnalyses /\ MaxAnalyses \in Nat
  BY WatchBounds DEF TypesOK, RowsOK
<1>2. w.id \in Nat /\ w.id <= created
  BY <1>1 DEF True
<1>3. ASSUME created # 0 PROVE created \in Analyses /\ True(View(created)) /\ Later(w, View(created))
  <2>1. created \in 1..created /\ created \in Analyses
    BY <1>1, <1>3 DEF Analyses
  <2>2. View(created).id = created /\ View(created).status = rows[created]
    BY DEF View
  <2>3. True(View(created))
    BY <2>1, <2>2 DEF True, OnlyNewestRuns
  <2>4. w.id = created => (Active(View(created)) => Active(w))
    <3>1. SUFFICES ASSUME w.id = created, rows[created] = "running" PROVE Active(w)
      BY <2>2 DEF Active
    <3>2. QED
      BY <3>1 DEF True, AnyView, Statuses, Over, Active
  <2>5. QED
    BY <1>1, <1>2, <2>1, <2>2, <2>3, <2>4 DEF Later
<1>4. ASSUME NEW v, v.id = created + 1 PROVE Later(w, v)
  BY <1>1, <1>2, <1>4 DEF Later
<1>5. QED
  BY <1>3, <1>4

\* Hence they are not behind what is shown either.
LEMMA NewestForward ==
  ASSUME TypesOK, OnlyNewestRuns, ShownTrue
  PROVE  /\ created # 0 => created \in Analyses /\ True(View(created)) /\ Forward(View(created))
         /\ \A v : v.id = created + 1 => Forward(v)
<1>1. CASE shown = NoneShown
  <2>1. created \in Nat /\ created <= MaxAnalyses /\ MaxAnalyses \in Nat /\ shown.id = 0
    BY <1>1, WatchBounds DEF TypesOK, RowsOK, NoneShown
  <2>2. ASSUME created # 0 PROVE created \in Analyses /\ True(View(created)) /\ Forward(View(created))
    <3>1. created \in 1..created /\ created \in Analyses
      BY <2>1, <2>2 DEF Analyses
    <3>2. QED
      BY <2>1, <2>2, <3>1 DEF View, True, OnlyNewestRuns, Forward, Later
  <2>3. QED
    BY <2>1, <2>2 DEF Forward, Later
<1>2. CASE shown # NoneShown
  BY <1>2, NewestLater DEF Forward, ShownTrue, TypesOK, CallsOK
<1>3. QED
  BY <1>1, <1>2

LEMMA FirstAnswer ==
  ASSUME TypesOK, OrderInv, HandleFirst
  PROVE  \E v : AnswerStep("first", v)
<1>1. PICK v : /\ first' = Answered(v)
               /\ v = Failure \/ (created # 0 /\ v = View(created))
  BY DEF HandleFirst
<1>2. v # Failure => v \in AnyView /\ True(v)' /\ Forward(v)
  BY <1>1, NewestForward, ViewType DEF OrderInv, HandleFirst, True, AnyView
<1>3. v # Failure => \A w \in AnyView : True(w) => Later(w, v)
  BY <1>1, NewestLater DEF OrderInv
<1>4. \A k \in Callers \ {"first"} : Kept(k)
  BY CallsNamed DEF Kept, HandleFirst
<1>5. ~ reordered' => ~ reordered /\ \A k \in ahead["first"] : CallOf(k).pc # "sent"
  BY DEF HandleFirst, HandledIn
<1>6. AnswerStep("first", v)
  BY <1>1, <1>2, <1>3, <1>4, <1>5, CallsNamed DEF AnswerStep, HandleFirst
<1>7. QED
  BY <1>6

LEMMA PostAnswer ==
  ASSUME TypesOK, OrderInv, NEW s \in Starts, HandlePost(s)
  PROVE  \E v : AnswerStep(s, v)
<1>1. PICK v : /\ post' = [post EXCEPT ![s] = Answered(v)]
               /\ \/ v = Failure
                  \/ UNCHANGED <<rows, created>> /\ \E a \in Running : v = View(a)
                  \/ CreateRow /\ v = [id |-> created + 1, status |-> "running"]
  BY DEF HandlePost
<1>2. v # Failure => /\ v \in AnyView /\ True(v)' /\ Forward(v)
                     /\ \A w \in AnyView : True(w) => Later(w, v)
  <2>1. CASE UNCHANGED <<rows, created>> /\ \E a \in Running : v = View(a)
    <3>1. PICK a \in Analyses : v = View(a) /\ rows[a] = "running"
      BY <2>1 DEF Running
    <3>2. a = created /\ created # 0
      BY <3>1, WatchBounds DEF OrderInv, OnlyNewestRuns, TypesOK, RowsOK, Analyses
    <3>3. v \in AnyView /\ True(v)' /\ Forward(v)
      BY <2>1, <3>1, <3>2, NewestForward, ViewType DEF OrderInv, True, AnyView
    <3>4. QED
      BY <3>1, <3>2, <3>3, NewestLater DEF OrderInv
  <2>2. CASE CreateRow /\ v = [id |-> created + 1, status |-> "running"]
    <3>1. v \in AnyView /\ v.id = created + 1 /\ v.status = "running"
      BY <2>2, WatchBounds DEF TypesOK, RowsOK, CreateRow, AnyView, Analyses, Statuses
    <3>2. Forward(v) /\ \A w \in AnyView : True(w) => Later(w, v)
      BY <3>1, NewestForward, NewestLater DEF OrderInv
    <3>3. created' = created + 1 /\ created \in Nat
      BY <2>2, WatchBounds DEF CreateRow, TypesOK, RowsOK
    <3>4. QED
      BY <3>1, <3>2, <3>3 DEF True, Over
  <2>3. QED
    BY <1>1, <2>1, <2>2
<1>3. \A k \in Callers \ {s} : Kept(k)
  BY <1>1, CallsNamed DEF Kept, HandlePost, TypesOK, CallsOK
<1>4. ~ reordered' => ~ reordered /\ \A k \in ahead[s] : CallOf(k).pc # "sent"
  BY DEF HandlePost, HandledIn
<1>5. CallOf(s)' = Answered(v)
  BY <1>1, CallsNamed DEF TypesOK, CallsOK
<1>6. AnswerStep(s, v)
  BY <1>2, <1>3, <1>4, <1>5, CallsNamed DEF AnswerStep, HandlePost
<1>7. QED
  BY <1>6

LEMMA PollAnswer ==
  ASSUME TypesOK, ActiveIsPolled, OrderInv, HandlePoll
  PROVE  \E v : AnswerStep("poll", v)
<1>1. PICK v \in {View(shown.id), Failure} : poll' = Answered(v)
  BY DEF HandlePoll
<1>2. v # Failure => v \in AnyView /\ True(v)' /\ Forward(v)
  <2>1. Active(shown) /\ shown \in AnyView /\ True(shown)
    BY DEF HandlePoll, ActiveIsPolled, Active, NoneShown, TypesOK, CallsOK, OrderInv, ShownTrue
  <2>2. shown.id \in Analyses /\ shown.id \in 1..created
    BY <2>1 DEF AnyView, True
  <2>3. rows[shown.id] # "none"
    BY <2>2 DEF OrderInv, OnlyNewestRuns
  <2>4. View(shown.id) \in AnyView /\ View(shown.id).id = shown.id /\ View(shown.id).status = rows[shown.id]
    BY <2>2, ViewType
  <2>5. UNCHANGED <<rows, created>>
    BY DEF HandlePoll
  <2>6. QED
    BY <1>1, <2>1, <2>2, <2>3, <2>4, <2>5 DEF Forward, Later, True
<1>3. \A k \in Callers \ {"poll"} : Kept(k)
  BY CallsNamed DEF Kept, HandlePoll
<1>4. ~ reordered' => ~ reordered /\ \A k \in ahead["poll"] : CallOf(k).pc # "sent"
  BY DEF HandlePoll, HandledIn
<1>5. AnswerStep("poll", v)
  BY <1>1, <1>2, <1>3, <1>4, CallsNamed DEF AnswerStep, HandlePoll
<1>6. QED
  BY <1>5

LEMMA FirstArrival ==
  ASSUME TypesOK, DeliverFirst
  PROVE  \E gone : ArriveStep("first", gone)
<1>1. first' = Off /\ post' = post /\ told' = told /\ UNCHANGED <<rows, created>> /\ first.pc = "answered"
  BY DEF DeliverFirst
<1>2. PICK gone \in {{"first"}, {"first", "poll"}} :
         /\ Leave(gone)
         /\ \/ shown' = shown /\ poll' = poll /\ gone = {"first"}
            \/ first.reply # Failure /\ shown' = first.reply /\ poll'.pc \in Idle /\ gone = {"first", "poll"}
  BY DEF DeliverFirst, Show, Off, Idle
<1>3. \A k \in Callers \ gone : Kept(k)
  BY <1>1, <1>2, CallsNamed DEF Kept
<1>4. ~ reordered' => ~ reordered /\ ahead["first"] = {}
  BY DEF DeliverFirst, DeliveredIn
<1>5. \A k \in gone : CallOf(k)'.pc \in Idle
  BY <1>1, <1>2, CallsNamed DEF Off, Idle
<1>6. ArriveStep("first", gone)
  BY <1>1, <1>2, <1>3, <1>4, <1>5, CallsNamed, CallNames DEF ArriveStep
<1>7. QED
  BY <1>6

LEMMA PostArrival ==
  ASSUME TypesOK, NEW s \in Starts, DeliverPost(s)
  PROVE  \E gone : ArriveStep(s, gone)
<1>1. first' = first /\ post' = [post EXCEPT ![s] = Off] /\ told' = told /\ UNCHANGED <<rows, created>>
      /\ post[s].pc = "answered"
  BY DEF DeliverPost
<1>2. PICK gone \in {{s}, {s, "poll"}} :
         /\ Leave(gone)
         /\ \/ shown' = shown /\ poll' = poll /\ gone = {s}
            \/ post[s].reply # Failure /\ shown' = post[s].reply /\ poll'.pc \in Idle /\ gone = {s, "poll"}
  BY DEF DeliverPost, Show, Off, Idle
<1>3. post'[s] = Off /\ \A k \in Starts \ {s} : post'[k] = post[k]
  BY <1>1 DEF TypesOK, CallsOK
<1>4. \A k \in Callers \ gone : Kept(k)
  BY <1>1, <1>2, <1>3, CallsNamed DEF Kept
<1>5. ~ reordered' => ~ reordered /\ ahead[s] = {}
  BY DEF DeliverPost, DeliveredIn
<1>6. \A k \in gone : CallOf(k)'.pc \in Idle
  BY <1>2, <1>3, CallsNamed DEF Off, Idle
<1>7. ArriveStep(s, gone)
  BY <1>1, <1>2, <1>4, <1>5, <1>6, CallsNamed, CallNames DEF ArriveStep
<1>8. QED
  BY <1>7

LEMMA PollArrival ==
  ASSUME TypesOK, DeliverPoll
  PROVE  ArriveStep("poll", {"poll"})
<1>1. UNCHANGED <<first, post, rows, created>> /\ poll.pc = "answered"
  BY DEF DeliverPoll
<1>2. poll'.pc \in Idle
  BY DEF DeliverPoll, Show, Off, Idle
<1>3. poll.reply \in AnyView \cup {Failure} /\ Failure.status = "error"
  BY <1>1 DEF TypesOK, CallsOK, Failure
<1>4. \/ told' = told /\ (shown' = shown \/ (poll.reply # Failure /\ shown' = poll.reply))
      \/ /\ poll.reply # Failure /\ ~ Active(poll.reply) /\ shown' = poll.reply
         /\ told' = [told EXCEPT ![poll.reply.id] = @ + 1]
  BY <1>3 DEF DeliverPoll, Show, Active
<1>5. \A k \in Callers \ {"poll"} : Kept(k)
  BY <1>1, CallsNamed DEF Kept
<1>6. (~ reordered' => ~ reordered /\ ahead["poll"] = {}) /\ Leave({"poll"})
  BY DEF DeliverPoll, DeliveredIn
<1>7. QED
  BY <1>1, <1>2, <1>4, <1>5, <1>6, CallsNamed, CallNames DEF ArriveStep

LEMMA SendSteps ==
  ASSUME TypesOK
  PROVE  (Tick => SendStep("poll")) /\ \A s \in Starts : Start(s) => SendStep(s)
<1>1. ASSUME Tick PROVE SendStep("poll")
  <2>1. \A k \in Callers \ {"poll"} : Kept(k)
    BY <1>1, CallsNamed DEF Kept, Tick
  <2>2. QED
    BY <1>1, <2>1, CallsNamed DEF SendStep, Tick, Idle
<1>2. ASSUME NEW s \in Starts, Start(s) PROVE SendStep(s)
  <2>1. post[s].pc = "off" /\ post'[s] = Sent /\ \A k \in Starts \ {s} : post'[k] = post[k]
    BY <1>2 DEF Start, TypesOK, CallsOK
  <2>2. \A k \in Callers \ {s} : Kept(k)
    BY <1>2, <2>1, CallsNamed DEF Kept, Start
  <2>3. QED
    BY <1>2, <2>1, <2>2, CallsNamed DEF SendStep, Start, Idle
<1>3. QED
  BY <1>1, <1>2

LEMMA OtherSteps ==
  ASSUME OtherStarts \/ (\E a \in Analyses : Finish(a)) \/ HandleList \/ DeliverList
  PROVE  OtherStep
<1>1. UNCHANGED <<first, post, poll, shown, told, ahead, reordered>>
  BY DEF OtherStarts, Finish, HandleList, DeliverList
<1>2. \A k \in Callers : Kept(k)
  BY <1>1, CallsNamed DEF Kept
<1>3. QED
  BY <1>1, <1>2 DEF OtherStep

LEMMA MountSteps == Reload => MountStep
BY CallsNamed DEF Reload, MountStep, Sent, Off, Idle

\* Every step is one of these.
LEMMA StepShapes ==
  ASSUME TypesOK, ActiveIsPolled, OrderInv, Next
  PROVE  \/ \E n \in Callers : (\E v : AnswerStep(n, v)) \/ (\E gone : ArriveStep(n, gone)) \/ SendStep(n)
         \/ OtherStep \/ Reload
<1>1. CASE HandleFirst \/ HandlePoll \/ \E s \in Starts : HandlePost(s)
  BY <1>1, FirstAnswer, PollAnswer, PostAnswer, CallNames
<1>2. CASE DeliverFirst \/ DeliverPoll \/ \E s \in Starts : DeliverPost(s)
  BY <1>2, FirstArrival, PollArrival, PostArrival, CallNames
<1>3. CASE Tick \/ \E s \in Starts : Start(s)
  BY <1>3, SendSteps, CallNames
<1>4. CASE OtherStarts \/ (\E a \in Analyses : Finish(a)) \/ HandleList \/ DeliverList
  BY <1>4, OtherSteps
<1>5. QED
  BY <1>1, <1>2, <1>3, <1>4 DEF Next, Handle, Deliver

-----------------------------------------------------------------------------
(* Each part is kept by each step.                                          *)

LEMMA AheadStep ==
  ASSUME TypesOK, ActiveIsPolled, OrderInv, Next
  PROVE  AheadOK'
<1> USE DEF AheadOK
<1>1. AheadOK
  BY DEF OrderInv
<1>2. CASE Pending' = Pending /\ ahead' = ahead
  BY <1>1, <1>2
<1>3. ASSUME NEW n \in Callers, NEW v, AnswerStep(n, v) PROVE Pending' = Pending /\ ahead' = ahead
  <2>1. \A k \in Callers : CallOf(k)'.pc \in {"sent", "answered"} <=> CallOf(k).pc \in {"sent", "answered"}
    BY <1>3 DEF AnswerStep, Kept, Answered
  <2>2. QED
    BY <1>3, <2>1 DEF AnswerStep, Pending
<1>4. ASSUME NEW n \in Callers, NEW gone, ArriveStep(n, gone) PROVE AheadOK'
  <2>1. Pending' = Pending \ gone
    BY <1>4 DEF ArriveStep, Kept, Pending, Idle
  <2>2. ahead' = [k \in Callers |-> IF k \in gone THEN {} ELSE ahead[k] \ gone]
    BY <1>4 DEF ArriveStep, Leave
  <2>3. QED
    BY <1>1, <2>1, <2>2 DEF Pending
<1>5. ASSUME NEW n \in Callers, SendStep(n) PROVE AheadOK'
  <2>1. Pending' = Pending \cup {n} /\ n \notin Pending
    BY <1>5 DEF SendStep, Kept, Pending, Idle, Sent
  <2>2. ahead' = [ahead EXCEPT ![n] = Pending]
    BY <1>5 DEF SendStep, Send
  <2>3. QED
    BY <1>1, <2>1, <2>2 DEF Pending
<1>6. CASE OtherStep
  BY <1>2, <1>6 DEF OtherStep, Kept, Pending
<1>7. CASE Reload
  <2>1. MountStep
    BY <1>7, MountSteps
  <2>2. Pending' = {"first"}
    BY <2>1, CallNames DEF MountStep, Pending, Idle
  <2>3. QED
    BY <2>1, <2>2 DEF MountStep
<1>8. QED
  BY <1>2, <1>3, <1>4, <1>5, <1>6, <1>7, StepShapes

LEMMA AnsweredStep ==
  ASSUME TypesOK, ActiveIsPolled, OrderInv, Next
  PROVE  AheadAnswered'
<1> SUFFICES ASSUME ~ reordered', NEW n \in Callers, CallOf(n)'.pc = "answered", NEW k \in ahead'[n]
             PROVE  CallOf(k)'.pc = "answered"
  BY DEF AheadAnswered
<1>1. AheadAnswered /\ AheadOK
  BY DEF OrderInv
<1>2. ASSUME NEW m \in Callers, NEW v, AnswerStep(m, v) PROVE CallOf(k)'.pc = "answered"
  <2>1. k \in ahead[n] /\ k \in Pending /\ k \in Callers
    BY <1>1, <1>2 DEF AnswerStep, AheadOK, Pending
  <2>2. CASE k = m
    BY <1>2, <2>2 DEF AnswerStep, Answered
  <2>3. CASE k # m
    <3>1. CallOf(k).pc = "answered"
      <4>1. CASE n = m
        BY <1>2, <2>1, <4>1 DEF AnswerStep, Pending
      <4>2. CASE n # m
        BY <1>1, <1>2, <2>1, <4>2 DEF AnswerStep, AheadAnswered, Kept
      <4>3. QED
        BY <4>1, <4>2
    <3>2. QED
      BY <1>2, <2>1, <2>3, <3>1 DEF AnswerStep, Kept
  <2>4. QED
    BY <2>2, <2>3
<1>3. ASSUME NEW m \in Callers, NEW gone, ArriveStep(m, gone) PROVE CallOf(k)'.pc = "answered"
  <2>1. n \notin gone
    BY <1>3 DEF ArriveStep, Idle
  <2>2. k \in ahead[n] /\ k \notin gone /\ k \in Callers
    BY <1>1, <1>3, <2>1 DEF ArriveStep, Leave, AheadOK, Pending
  <2>3. QED
    BY <1>1, <1>3, <2>1, <2>2 DEF ArriveStep, Kept, AheadAnswered
<1>4. ASSUME NEW m \in Callers, SendStep(m) PROVE CallOf(k)'.pc = "answered"
  <2>1. n # m
    BY <1>4 DEF SendStep, Sent
  <2>2. k \in ahead[n] /\ k \in Pending /\ k \in Callers
    BY <1>1, <1>4, <2>1 DEF SendStep, Send, AheadOK, Pending
  <2>3. k # m
    BY <1>4, <2>2 DEF SendStep, Idle, Pending
  <2>4. QED
    BY <1>1, <1>4, <2>1, <2>2, <2>3 DEF SendStep, Kept, AheadAnswered
<1>5. CASE OtherStep
  <2>1. k \in ahead[n] /\ k \in Callers
    BY <1>1, <1>5 DEF OtherStep, AheadOK, Pending
  <2>2. QED
    BY <1>1, <1>5, <2>1 DEF OtherStep, Kept, AheadAnswered
<1>6. CASE Reload
  BY <1>6, MountSteps DEF MountStep
<1>7. QED
  BY <1>2, <1>3, <1>4, <1>5, <1>6, StepShapes

\* Analyses are created in order, when none runs.
LEMMA NewestStep ==
  ASSUME TypesOK, OnlyNewestRuns, Next
  PROVE  OnlyNewestRuns'
<1> USE DEF OnlyNewestRuns, TypesOK, RowsOK
<1>1. ASSUME CreateRow, Running = {} PROVE OnlyNewestRuns'
  <2>1. created' = created + 1 /\ created \in Nat /\ created + 1 \in Analyses /\ 1..created \subseteq Analyses
    BY <1>1, WatchBounds DEF CreateRow, Analyses
  <2>2. \A a \in 1..created : rows'[a] = rows[a] /\ rows[a] # "running"
    BY <1>1, <2>1 DEF CreateRow, Running
  <2>3. rows'[created + 1] = "running"
    BY <1>1, <2>1 DEF CreateRow
  <2>4. QED
    BY <2>1, <2>2, <2>3
<1>2. ASSUME NEW a \in Analyses, Finish(a) PROVE OnlyNewestRuns'
  BY <1>2, WatchBounds DEF Finish, Analyses
<1>3. CASE UNCHANGED <<rows, created>>
  BY <1>3
<1>4. QED
  BY <1>1, <1>2, <1>3
     DEF Next, Handle, Deliver, OtherStarts, HandleFirst, HandlePost, HandlePoll, HandleList,
     DeliverFirst, DeliverPost, DeliverPoll, DeliverList, Tick, Reload, Start

\* The answers of the calls that are in flight are views or the failure.
LEMMA AnswersAreViews ==
  ASSUME TypesOK, NEW n \in Callers, CallOf(n).pc = "answered"
  PROVE  CallOf(n).reply \in AnyView \cup {Failure}
BY CallsNamed DEF TypesOK, CallsOK

LEMMA AnswersTrueStep ==
  ASSUME TypesOK, ActiveIsPolled, OrderInv, Next
  PROVE  AnswersTrue'
<1> SUFFICES ASSUME NEW k \in Callers, CallOf(k)'.pc = "answered", CallOf(k)'.reply # Failure
             PROVE  \E v : v = CallOf(k)'.reply /\ True(v)'
  BY DEF AnswersTrue, True, Seen
<1>1. CASE Kept(k)
  <2>1. PICK v \in AnyView : v = CallOf(k).reply /\ True(v)
    BY <1>1, AnswersAreViews DEF OrderInv, AnswersTrue, Seen, Kept
  <2>2. True(v)'
    BY <2>1, TrueStays
  <2>3. QED
    BY <1>1, <2>1, <2>2 DEF Kept
<1>2. ASSUME NEW n \in Callers, NEW v, AnswerStep(n, v), ~ Kept(k)
      PROVE  \E w : w = CallOf(k)'.reply /\ True(w)'
  <2>1. k = n /\ CallOf(k)' = Answered(v)
    BY <1>2 DEF AnswerStep
  <2>2. v = CallOf(k)'.reply /\ True(v)'
    BY <1>2, <2>1 DEF AnswerStep, Answered
  <2>3. QED
    BY <2>2
<1>3. ASSUME NEW n \in Callers, SendStep(n) \/ \E gone : ArriveStep(n, gone) PROVE Kept(k)
  BY <1>3 DEF ArriveStep, SendStep, Sent, Idle
<1>4. CASE OtherStep
  BY <1>1, <1>4 DEF OtherStep
<1>5. CASE Reload
  BY <1>5, MountSteps DEF MountStep, Idle
<1>6. QED
  BY <1>1, <1>2, <1>3, <1>4, <1>5, StepShapes

LEMMA ShownTrueStep ==
  ASSUME TypesOK, ActiveIsPolled, OrderInv, Next
  PROVE  ShownTrue'
<1>1. CASE shown' = shown
  <2>1. ASSUME shown # NoneShown PROVE True(shown)'
    <3>1. PICK v \in AnyView : v = shown /\ True(v)
      BY <2>1 DEF OrderInv, ShownTrue, TypesOK, CallsOK
    <3>2. True(v)'
      BY <3>1, TrueStays
    <3>3. QED
      BY <1>1, <3>1, <3>2 DEF True
  <2>2. QED
    BY <1>1, <2>1 DEF ShownTrue
<1>2. ASSUME NEW n \in Callers, CallOf(n).pc = "answered", CallOf(n).reply # Failure, shown' = CallOf(n).reply
      PROVE  ShownTrue'
  <2>1. PICK v \in AnyView : v = shown' /\ True(v)
    BY <1>2, AnswersAreViews DEF OrderInv, AnswersTrue, Seen
  <2>2. True(v)'
    BY <2>1, TrueStays
  <2>3. QED
    BY <2>1, <2>2 DEF ShownTrue, True
<1>3. CASE Reload
  BY <1>3 DEF Reload, ShownTrue
<1>4. QED
  BY <1>1, <1>2, <1>3, StepShapes DEF AnswerStep, ArriveStep, SendStep, OtherStep

LEMMA ForwardStep ==
  ASSUME TypesOK, ActiveIsPolled, OrderInv, Next
  PROVE  AnswersForward'
<1> SUFFICES ASSUME ~ reordered', NEW k \in Callers, CallOf(k)'.pc = "answered", CallOf(k)'.reply # Failure
             PROVE  Later(shown', CallOf(k)'.reply)
  BY DEF AnswersForward, Forward, Later, Active, Seen
<1>1. ASSUME Kept(k), shown' = shown, ~ reordered PROVE Later(shown', CallOf(k)'.reply)
  BY <1>1 DEF OrderInv, AnswersForward, Forward, Seen, Kept
<1>2. ASSUME NEW n \in Callers, NEW v, AnswerStep(n, v) PROVE Later(shown', CallOf(k)'.reply)
  <2>1. ~ reordered /\ shown' = shown
    BY <1>2 DEF AnswerStep
  <2>2. CASE k # n
    BY <1>1, <1>2, <2>1, <2>2 DEF AnswerStep
  <2>3. CASE k = n
    BY <1>2, <2>1, <2>3 DEF AnswerStep, Answered, Forward
  <2>4. QED
    BY <2>2, <2>3
<1>3. ASSUME NEW n \in Callers, NEW gone, ArriveStep(n, gone) PROVE Later(shown', CallOf(k)'.reply)
  <2>1. ~ reordered /\ ahead[n] = {} /\ CallOf(n).pc = "answered" /\ k \notin gone /\ n \in gone
    BY <1>3 DEF ArriveStep, Idle
  <2>2. Kept(k)
    BY <1>3, <2>1 DEF ArriveStep
  <2>3. CASE shown' = shown
    BY <1>1, <2>1, <2>2, <2>3
  <2>4. CASE CallOf(n).reply # Failure /\ shown' = CallOf(n).reply /\ "poll" \in gone
    <3>1. n \in ahead[k]
      BY <2>1, <2>2 DEF OrderInv, AheadOK, Pending, Kept
    <3>2. Seen(k) /\ Seen(n) /\ k # "poll"
      BY <2>1, <2>2, <2>4 DEF Seen, Kept
    <3>3. QED
      BY <2>1, <2>2, <2>4, <3>1, <3>2 DEF OrderInv, AnswersInOrder, Kept
  <2>5. QED
    BY <1>3, <2>3, <2>4 DEF ArriveStep
<1>4. ASSUME NEW n \in Callers, SendStep(n) PROVE Kept(k) /\ shown' = shown /\ ~ reordered
  BY <1>4 DEF SendStep, Sent
<1>5. CASE OtherStep
  BY <1>1, <1>5 DEF OtherStep
<1>6. CASE Reload
  BY <1>6, MountSteps DEF MountStep, Idle
<1>7. QED
  BY <1>1, <1>2, <1>3, <1>4, <1>5, <1>6, StepShapes

\* An answer, of what is newest when it is given, is behind none given before.
LEMMA InOrderStep ==
  ASSUME TypesOK, ActiveIsPolled, OrderInv, Next
  PROVE  AnswersInOrder'
<1> SUFFICES ASSUME ~ reordered', NEW n \in Callers \ {"poll"}, NEW k \in ahead'[n],
                    CallOf(n)'.pc = "answered", CallOf(n)'.reply # Failure,
                    CallOf(k)'.pc = "answered", CallOf(k)'.reply # Failure
             PROVE  Later(CallOf(k)'.reply, CallOf(n)'.reply)
  BY DEF AnswersInOrder, Later, Active, Seen
<1>1. AheadOK /\ AheadAnswered /\ AnswersTrue
  BY DEF OrderInv
<1>2. ASSUME ~ reordered, Kept(n), Kept(k), k \in ahead[n] PROVE Later(CallOf(k)'.reply, CallOf(n)'.reply)
  BY <1>2 DEF OrderInv, AnswersInOrder, Seen, Kept
<1>3. ASSUME NEW m \in Callers, NEW v, AnswerStep(m, v) PROVE Later(CallOf(k)'.reply, CallOf(n)'.reply)
  <2>1. ~ reordered /\ k \in ahead[n] /\ k \in Callers
    BY <1>1, <1>3 DEF AnswerStep, AheadOK, Pending
  <2>2. k # m
    <3>1. CASE n = m
      BY <1>3, <2>1, <3>1 DEF AnswerStep
    <3>2. CASE n # m
      BY <1>1, <1>3, <2>1, <3>2 DEF AnswerStep, AheadAnswered, Kept
    <3>3. QED
      BY <3>1, <3>2
  <2>3. Kept(k)
    BY <1>3, <2>1, <2>2 DEF AnswerStep
  <2>4. CASE n # m
    BY <1>2, <1>3, <2>1, <2>3, <2>4 DEF AnswerStep
  <2>5. CASE n = m
    <3>1. CallOf(k).reply \in AnyView /\ True(CallOf(k).reply)
      BY <1>1, <2>1, <2>3, AnswersAreViews DEF AnswersTrue, Seen, Kept
    <3>2. CallOf(n)'.reply = v /\ v # Failure
      BY <1>3, <2>5 DEF AnswerStep, Answered
    <3>3. QED
      BY <1>3, <2>3, <2>5, <3>1, <3>2 DEF AnswerStep, Kept
  <2>6. QED
    BY <2>4, <2>5
<1>4. ASSUME NEW m \in Callers, NEW gone, ArriveStep(m, gone) PROVE Later(CallOf(k)'.reply, CallOf(n)'.reply)
  <2>1. ~ reordered /\ n \notin gone
    BY <1>4 DEF ArriveStep, Idle
  <2>2. k \in ahead[n] /\ k \notin gone /\ k \in Callers
    BY <1>1, <1>4, <2>1 DEF ArriveStep, Leave, AheadOK, Pending
  <2>3. QED
    BY <1>2, <1>4, <2>1, <2>2 DEF ArriveStep
<1>5. ASSUME NEW m \in Callers, SendStep(m) PROVE Later(CallOf(k)'.reply, CallOf(n)'.reply)
  <2>1. n # m /\ k # m
    BY <1>5 DEF SendStep, Sent
  <2>2. k \in ahead[n] /\ k \in Callers
    BY <1>1, <1>5, <2>1 DEF SendStep, Send, AheadOK, Pending
  <2>3. QED
    BY <1>2, <1>5, <2>1, <2>2 DEF SendStep
<1>6. CASE OtherStep
  <2>1. k \in ahead[n] /\ k \in Callers
    BY <1>1, <1>6 DEF OtherStep, AheadOK, Pending
  <2>2. QED
    BY <1>2, <1>6, <2>1 DEF OtherStep
<1>7. CASE Reload
  BY <1>7, MountSteps DEF MountStep
<1>8. QED
  BY <1>3, <1>4, <1>5, <1>6, <1>7, StepShapes

\* While no request overtakes another, only a reload takes the screen back.
LEMMA ScreenStep ==
  ASSUME TypesOK, ActiveIsPolled, OrderInv, Next, ~ reordered', ~ Reload
  PROVE  ~ reordered /\ (shown' = shown \/ Forward(shown'))
<1>1. ASSUME NEW n \in Callers, NEW gone, ArriveStep(n, gone)
      PROVE  ~ reordered /\ (shown' = shown \/ Forward(shown'))
  BY <1>1 DEF ArriveStep, OrderInv, AnswersForward, Seen
<1>2. QED
  BY <1>1, StepShapes DEF AnswerStep, SendStep, OtherStep

LEMMA ToldIsPastStep ==
  ASSUME TypesOK, ActiveIsPolled, OrderInv, Next
  PROVE  ToldIsPast'
<1> SUFFICES ASSUME ~ reordered', NEW a \in Analyses, told'[a] > 0
             PROVE  told'[a] = 1 /\ shown'.id >= a /\ (shown'.id = a => ~ Active(shown'))
  BY DEF ToldIsPast, Active
<1>1. told \in [Analyses -> Nat] /\ shown.id \in Nat /\ shown'.id \in Nat /\ a \in Nat
  BY CallsStep, WatchBounds DEF TypesOK, CallsOK, ListOK, AnyView, NoneShown, Analyses
<1>2. CASE Reload
  BY <1>2 DEF Reload
<1>3. ASSUME ~ Reload, told'[a] = told[a]
      PROVE  told'[a] = 1 /\ shown'.id >= a /\ (shown'.id = a => ~ Active(shown'))
  <2>1. ~ reordered /\ (shown' = shown \/ Forward(shown'))
    BY <1>3, ScreenStep
  <2>2. told[a] = 1 /\ shown.id >= a /\ (shown.id = a => ~ Active(shown))
    BY <1>3, <2>1 DEF OrderInv, ToldIsPast
  <2>3. QED
    BY <1>1, <1>3, <2>1, <2>2 DEF Forward, Later
<1>4. ASSUME NEW n \in Callers, NEW gone, ArriveStep(n, gone), told'[a] # told[a]
      PROVE  told'[a] = 1 /\ shown'.id >= a /\ (shown'.id = a => ~ Active(shown'))
  <2>1. /\ n = "poll" /\ CallOf(n).reply # Failure /\ ~ Active(CallOf(n).reply)
        /\ told' = [told EXCEPT ![CallOf(n).reply.id] = @ + 1]
        /\ shown' = CallOf(n).reply /\ CallOf(n).pc = "answered" /\ ~ reordered
    BY <1>4 DEF ArriveStep
  <2>2. CallOf(n).reply.id = a
    BY <1>1, <1>4, <2>1
  <2>3. Forward(CallOf(n).reply)
    BY <1>4, <2>1 DEF OrderInv, AnswersForward, Seen
  <2>4. Active(shown)
    BY <2>1, CallsNamed DEF ActiveIsPolled
  <2>5. told[a] = 0
    <3>1. ~ (told[a] > 0)
      BY <1>1, <2>1, <2>2, <2>3, <2>4 DEF OrderInv, ToldIsPast, Forward, Later
    <3>2. QED
      BY <1>1, <3>1
  <2>6. QED
    BY <1>1, <2>1, <2>2, <2>5
<1>5. ASSUME told'[a] # told[a], ~ Reload PROVE \E n \in Callers : \E gone : ArriveStep(n, gone)
  BY <1>5, StepShapes DEF AnswerStep, SendStep, OtherStep
<1>6. QED
  BY <1>2, <1>3, <1>4, <1>5

LEMMA InitOrderInv == Init => OrderInv
<1> SUFFICES ASSUME Init PROVE OrderInv
  OBVIOUS
<1>1. ahead = [n \in Callers |-> {}] /\ ~ reordered /\ created = 0 /\ shown = NoneShown /\ told = [a \in Analyses |-> 0]
  BY DEF Init
<1>2. \A n \in Callers : CallOf(n).pc # "answered" /\ (CallOf(n).pc = "sent" => n = "first")
  BY CallsNamed DEF Init, Off, Sent
<1>3. AheadOK
  BY <1>1, <1>2 DEF AheadOK, Pending
<1>4. OnlyNewestRuns
  BY <1>1 DEF OnlyNewestRuns
<1>5. QED
  BY <1>1, <1>2, <1>3, <1>4
     DEF OrderInv, AheadAnswered, AnswersTrue, ShownTrue, AnswersForward, AnswersInOrder, ToldIsPast, Seen

LEMMA OrderInvStep == WatchInv /\ OrderInv /\ [Next]_vars => OrderInv'
<1>1. ASSUME WatchInv, OrderInv, Next PROVE OrderInv'
  BY <1>1, AheadStep, AnsweredStep, NewestStep, AnswersTrueStep, ShownTrueStep, ForwardStep, InOrderStep,
     ToldIsPastStep DEF OrderInv, WatchInv
<1>2. ASSUME OrderInv, UNCHANGED vars PROVE OrderInv'
  <2>1. \A n : CallOf(n)' = CallOf(n)
    BY <1>2 DEF vars, CallOf
  <2>2. UNCHANGED <<rows, created, shown, ahead, told, reordered>>
    BY <1>2 DEF vars
  <2>3. AheadOK' /\ AheadAnswered'
    BY <1>2, <2>1, <2>2 DEF OrderInv, AheadOK, AheadAnswered, Pending
  <2>4. AnswersTrue' /\ ShownTrue' /\ AnswersForward' /\ AnswersInOrder'
    BY <1>2, <2>1, <2>2
       DEF OrderInv, AnswersTrue, ShownTrue, AnswersForward, AnswersInOrder, Seen, True, Forward, Later, Active
  <2>5. OnlyNewestRuns' /\ ToldIsPast'
    BY <1>2, <2>1, <2>2 DEF OrderInv, OnlyNewestRuns, ToldIsPast, Active
  <2>6. QED
    BY <2>3, <2>4, <2>5 DEF OrderInv
<1>3. QED
  BY <1>1, <1>2

LEMMA OrderInvHolds == Spec => []OrderInv /\ []WatchInv
BY InitWatchInv, InitOrderInv, WatchInvStep, OrderInvStep, SpecIsSafe, PTL DEF SafeWatch

\* While no request overtakes another the operator is told once that an analysis
\* ended: an answer that says so is of the analysis on screen, still active.
THEOREM ToldOnceHolds == Spec => []ToldOnce
<1>1. WatchInv /\ OrderInv => ToldOnce
  <2>1. SUFFICES ASSUME WatchInv, OrderInv, ~ reordered, NEW a \in Analyses PROVE told[a] <= 1
    BY DEF ToldOnce
  <2>2. told[a] \in Nat /\ (told[a] > 0 => told[a] = 1)
    BY <2>1 DEF WatchInv, TypesOK, ListOK, OrderInv, ToldIsPast
  <2>3. QED
    BY <2>2
<1>2. QED
  BY <1>1, OrderInvHolds, PTL

\* While no request overtakes another, an answer of the first GET, of a POST or
\* of a poll never takes the screen back to an older analysis, or from its end
\* to its run.
THEOREM ShownMovesForwardHolds == Spec => ShownMovesForward
<1> DEFINE Fwd == ~ reordered' /\ shown'.id # 0 =>
                     (shown'.id > shown.id \/ (shown'.id = shown.id /\ (Active(shown') => Active(shown))))
<1>1. ASSUME WatchInv, OrderInv, Next PROVE Fwd
  <2>1. SUFFICES ASSUME ~ reordered', shown'.id # 0 PROVE Fwd
    OBVIOUS
  <2>2. ~ Reload
    BY <2>1 DEF Reload, NoneShown
  <2>3. QED
    BY <1>1, <2>1, <2>2, ScreenStep DEF WatchInv, Forward, Later
<1>2. ASSUME UNCHANGED vars PROVE Fwd
  BY <1>2 DEF vars, Active
<1>3. WatchInv /\ OrderInv /\ [Next]_vars => [Fwd]_vars
  BY <1>1
<1>4. QED
  BY <1>3, OrderInvHolds, SpecIsSafe, PTL DEF SafeWatch, ShownMovesForward
=============================================================================
