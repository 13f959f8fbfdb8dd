------------------------------ MODULE Analysis ------------------------------
(***************************************************************************)
(* The analysis job of the backend: POST /api/ai/analyze creates a row in  *)
(* the analysis table and starts a background goroutine, the worker, that  *)
(* advances the row through its steps and completes or fails it.  The      *)
(* module models the handlers (analysis/service.go Start), the worker (run *)
(* and execute), the recovery of interrupted rows at start-up and the life *)
(* cycle of a backend process (app/app.go Run), with the failures each     *)
(* database call can meet.                                                 *)
(***************************************************************************)
EXTENDS Naturals, FiniteSets

CONSTANTS
    MaxAnalyses,  \* bound: rows the analysis table can receive
    Instances,    \* process slots that can run the backend
    Requests,     \* POST /api/ai/analyze handlers that can be in flight
    NoInstance,   \* the host of a request or worker that is not running
    Overlap,      \* TRUE: a deploy starts the new process before the old one ends
    Faults,       \* the kinds of fault that can happen, a subset of FaultKinds
    MaxFaults     \* bound: faults of any kind in a behaviour

\* "refused": a call fails and has no effect.  "lost": the database applies
\* the call and its caller gets an error (the connection drops, or the context
\* ends, while the answer is on its way).  "crash": the process dies.
FaultKinds == {"refused", "lost", "crash"}

ASSUME BoundsAssumption == MaxAnalyses \in Nat /\ MaxFaults \in Nat
ASSUME ActorsAssumption == NoInstance \notin Instances
ASSUME FaultsAssumption == Overlap \in BOOLEAN /\ Faults \subseteq FaultKinds

VARIABLES
    rows,     \* the analysis table: status, current step and who wrote the error
    created,  \* how many rows were inserted; row ids follow creation order
    results,  \* analyses whose anomalies are stored
    phase,    \* life cycle of each process
    request,  \* each handler of POST /api/ai/analyze, and its last answer
    worker,   \* the goroutine of each analysis
    faults    \* faults so far

vars == <<rows, created, results, phase, request, worker, faults>>

Analyses == 1..MaxAnalyses
NoAnalysis == 0

Active == {"PENDING", "RUNNING"}
Terminal == {"COMPLETED", "FAILED"}
StepNames == {"none", "loading_data", "analyzing", "saving", "completed"}

\* Where a worker can be: the call it makes next, or "failing" when it has an
\* error to record.
Working == {"start", "load", "loaded", "call", "answered", "convert", "commit"}
NoWorker == [pc |-> "idle", host |-> NoInstance, live |-> FALSE]
NoRequest == [pc |-> "idle", host |-> NoInstance, reply |-> "none", row |-> NoAnalysis]

ActiveRows == {a \in Analyses : rows[a].status \in Active}
IsNewest(a, S) == a \in S /\ \A b \in S : b <= a

InFlight(i) == {r \in Requests : request[r].host = i}
WorkersOf(i) == {a \in Analyses : worker[a].host = i}

\* Mutant: no defer, so the early return that reuses a row keeps the mutex.
LockedWithoutDefer(i) ==
    \E r \in Requests : request[r].reply = "reused" \/ (request[r].host = i /\ request[r].pc = "checked")

\* startMutex of process i is held from the read of the active row to the
\* return of Start.
Locked(i) == \E r \in InFlight(i) : request[r].pc = "checked"

Fault(kind) ==
    /\ kind \in Faults
    /\ faults < MaxFaults
    /\ faults' = faults + 1

Init ==
    /\ rows = [a \in Analyses |-> [status |-> "none", step |-> "none", error |-> "none"]]
    /\ created = 0
    /\ results = {}
    /\ phase = [i \in Instances |-> "down"]
    /\ request = [r \in Requests |-> NoRequest]
    /\ worker = [a \in Analyses |-> NoWorker]
    /\ faults = 0

-----------------------------------------------------------------------------
(* Start: read the active row and create one if there is none, under        *)
(* startMutex.                                                              *)

Reply(r, kind, a) ==
    request' = [request EXCEPT ![r] =
                   [pc |-> "idle", host |-> NoInstance, reply |-> kind, row |-> a]]

\* A handler starts on a process that accepts connections.  The bound leaves
\* a row for every handler in flight, so that none is stuck at the bound.
Arrive(r, i) ==
    /\ request[r].pc = "idle"
    /\ phase[i] = "serving"
    /\ created + Cardinality({q \in Requests : request[q].pc # "idle"}) < MaxAnalyses
    /\ request' = [request EXCEPT ![r] = [NoRequest EXCEPT !.pc = "waiting", !.host = i]]
    /\ UNCHANGED <<rows, created, results, phase, worker, faults>>

CheckActiveWith(r, free, active) ==
    /\ request[r].pc = "waiting"
    /\ free
    /\ \/ /\ \E a \in active : IsNewest(a, active) /\ Reply(r, "reused", a)
          /\ UNCHANGED faults
       \/ /\ active = {}
          /\ request' = [request EXCEPT ![r].pc = "checked"]
          /\ UNCHANGED faults
       \/ /\ Fault("refused")
          /\ Reply(r, "error", NoAnalysis)
    /\ UNCHANGED <<rows, created, results, phase, worker>>

\* Mutants: the handler does not take startMutex; the query forgets PENDING.
CheckActiveUnlocked(r) == CheckActiveWith(r, TRUE, ActiveRows)
CheckActiveRunningOnly(r) ==
    CheckActiveWith(r, ~ Locked(request[r].host), {a \in Analyses : rows[a].status = "RUNNING"})

\* Takes startMutex and runs GetActiveAnalysis.
CheckActive(r) == CheckActiveWith(r, ~ Locked(request[r].host), ActiveRows)

InsertRow ==
    /\ created < MaxAnalyses
    /\ created' = created + 1
    /\ rows' = [rows EXCEPT ![created + 1] = [status |-> "PENDING", step |-> "none", error |-> "none"]]

Spawn(a, i, isLive) ==
    worker' = [worker EXCEPT ![a] = [pc |-> "start", host |-> i, live |-> isLive]]

\* Inserts the row and starts its worker; the worker's context derives from
\* the process's, which is cancelled once the process is stopping.
Create(r) ==
    /\ request[r].pc = "checked"
    /\ \/ /\ InsertRow
          /\ Spawn(created + 1, request[r].host, phase[request[r].host] = "serving")
          /\ Reply(r, "created", created + 1)
          /\ UNCHANGED faults
       \/ /\ Fault("refused")
          /\ Reply(r, "error", NoAnalysis)
          /\ UNCHANGED <<rows, created, worker>>
       \/ /\ Fault("lost")
          /\ InsertRow
          /\ Reply(r, "error", NoAnalysis)
          /\ UNCHANGED worker
    /\ UNCHANGED <<results, phase>>

-----------------------------------------------------------------------------
(* The worker: run and execute.                                             *)

Move(a, pc) == worker' = [worker EXCEPT ![a].pc = pc]
EndWorker(a) == worker' = [worker EXCEPT ![a] = NoWorker]

\* AdvanceAnalysis: sets the row RUNNING whatever its status was.
SetStep(a, step) ==
    rows' = [rows EXCEPT ![a].status = "RUNNING", ![a].step = step]

Advance(a, from, step, to) ==
    /\ worker[a].pc = from
    /\ \/ /\ worker[a].live
          /\ SetStep(a, step)
          /\ Move(a, to)
          /\ UNCHANGED faults
       \/ /\ Fault("refused")
          /\ Move(a, "failing")
          /\ UNCHANGED rows
       \/ /\ Fault("lost")
          /\ SetStep(a, step)
          /\ Move(a, "failing")
    /\ UNCHANGED <<created, results, phase, request>>

AdvanceLoading(a) == Advance(a, "start", "loading_data", "load")

\* A call that changes nothing in the database: it succeeds while the context
\* lives, or it returns an error (or panics).
Call(a, from, to) ==
    /\ worker[a].pc = from
    /\ \/ worker[a].live /\ Move(a, to)
       \/ Move(a, "failing")
    /\ UNCHANGED <<rows, created, results, phase, request, faults>>

\* The error is a failed query or a fleet without active meters.
LoadDataset(a) == Call(a, "load", "loaded")

AdvanceAnalyzing(a) == Advance(a, "loaded", "analyzing", "call")

\* The call to the AI service.
Analyze(a) == Call(a, "call", "answered")

\* Mutant: the wrong step is written.
AdvanceSavingWrongStep(a) == Advance(a, "answered", "loading_data", "convert")

AdvanceSaving(a) == Advance(a, "answered", "saving", "convert")

\* toAnomalies: no call, so it does not depend on the context; the error is a
\* finding with an id, type or severity that does not parse.
ToAnomalies(a) ==
    /\ worker[a].pc = "convert"
    /\ \/ Move(a, "commit")
       \/ Move(a, "failing")
    /\ UNCHANGED <<rows, created, results, phase, request, faults>>

\* The transaction of Complete as the database applies it.
StoreResults(a) ==
    /\ results' = results \cup {a}
    /\ rows' = [rows EXCEPT ![a].status = "COMPLETED", ![a].step = "completed"]

\* Mutant: the anomalies are saved outside the transaction, so that a refused
\* completion leaves them behind.
CompleteNotAtomic(a) ==
    /\ worker[a].pc = "commit"
    /\ worker[a].live
    /\ \/ StoreResults(a) /\ EndWorker(a)
       \/ results' = results \cup {a} /\ Move(a, "failing") /\ UNCHANGED rows
    /\ UNCHANGED <<created, phase, request, faults>>

Complete(a) ==
    /\ worker[a].pc = "commit"
    /\ \/ /\ worker[a].live
          /\ StoreResults(a)
          /\ EndWorker(a)
          /\ UNCHANGED faults
       \/ /\ Fault("refused")
          /\ Move(a, "failing")
          /\ UNCHANGED <<rows, results>>
       \/ /\ Fault("lost")
          /\ StoreResults(a)
          /\ Move(a, "failing")
    /\ UNCHANGED <<created, phase, request>>

\* A call of the worker returns because its context ended.
Interrupted(a) ==
    /\ worker[a].pc \in Working
    /\ ~ worker[a].live
    /\ Move(a, "failing")
    /\ UNCHANGED <<rows, created, results, phase, request, faults>>

\* The time limit of the analysis passes.
Deadline(a) ==
    /\ worker[a].pc \in Working
    /\ worker[a].live
    /\ worker' = [worker EXCEPT ![a].live = FALSE]
    /\ UNCHANGED <<rows, created, results, phase, request, faults>>

\* FailAnalysis: the row becomes FAILED whatever its status was.
RecordFailure(a) ==
    rows' = [rows EXCEPT ![a].status = "FAILED", ![a].error = "worker"]

\* Mutant: fail uses the worker's own context, which has ended.
FailWithOwnContext(a) ==
    /\ worker[a].pc = "failing"
    /\ EndWorker(a)
    /\ IF worker[a].live THEN RecordFailure(a) ELSE UNCHANGED rows
    /\ UNCHANGED <<created, results, phase, request, faults>>

\* When the write fails the worker only logs it.  (A lost answer leaves the same state
\* as a success.)
Fail(a) ==
    /\ worker[a].pc = "failing"
    /\ EndWorker(a)
    /\ \/ RecordFailure(a) /\ UNCHANGED faults
       \/ Fault("refused") /\ UNCHANGED rows
    /\ UNCHANGED <<created, results, phase, request>>

-----------------------------------------------------------------------------
(* The process: WithModules recovers interrupted rows before the server     *)
(* starts; Run ends on a signal, and waits for handlers and then workers.   *)

SetPhase(i, p) == phase' = [phase EXCEPT ![i] = p]

\* The handlers and workers of a process that ends stop where they are.
Kill(i) ==
    /\ request' = [r \in Requests |->
                      IF request[r].host = i THEN [NoRequest EXCEPT !.reply = "error"] ELSE request[r]]
    /\ worker' = [a \in Analyses |-> IF worker[a].host = i THEN NoWorker ELSE worker[a]]

Boot(i) ==
    /\ phase[i] = "down"
    /\ Overlap \/ \A j \in Instances : phase[j] = "down"
    /\ SetPhase(i, "booting")
    /\ UNCHANGED <<rows, created, results, request, worker, faults>>

\* FailInterruptedAnalyses.
CloseInterrupted ==
    rows' = [a \in Analyses |->
                IF rows[a].status \in Active
                THEN [rows[a] EXCEPT !.status = "FAILED", !.error = "restart"]
                ELSE rows[a]]

\* Mutants: start-up does not recover; recovery also takes completed rows.
RecoverNothing(i) ==
    /\ phase[i] = "booting"
    /\ SetPhase(i, "serving")
    /\ UNCHANGED <<rows, created, results, request, worker, faults>>
RecoverEverything(i) ==
    /\ phase[i] = "booting"
    /\ SetPhase(i, "serving")
    /\ rows' = [a \in Analyses |->
                   IF rows[a].status # "none"
                   THEN [rows[a] EXCEPT !.status = "FAILED", !.error = "restart"]
                   ELSE rows[a]]
    /\ UNCHANGED <<created, results, request, worker, faults>>

\* RecoverInterrupted; when it returns an error the process does not start.
Recover(i) ==
    /\ phase[i] = "booting"
    /\ \/ CloseInterrupted /\ SetPhase(i, "serving") /\ UNCHANGED faults
       \/ Fault("refused") /\ SetPhase(i, "down") /\ UNCHANGED rows
       \/ Fault("lost") /\ CloseInterrupted /\ SetPhase(i, "down")
    /\ UNCHANGED <<created, results, request, worker>>

\* SIGTERM cancels the context every worker derives from.
Signal(i) ==
    /\ phase[i] = "serving"
    /\ SetPhase(i, "stopping")
    /\ worker' = [a \in Analyses |->
                     IF worker[a].host = i THEN [worker[a] EXCEPT !.live = FALSE] ELSE worker[a]]
    /\ UNCHANGED <<rows, created, results, request, faults>>

\* Shutdown returns once no handler is in flight.
ShutdownDone(i) ==
    /\ phase[i] = "stopping"
    /\ InFlight(i) = {}
    /\ SetPhase(i, "draining")
    /\ UNCHANGED <<rows, created, results, request, worker, faults>>

\* Shutdown gives up on the handlers after shutdownTimeout; Run returns
\* without waiting for the workers.
ShutdownTimeout(i) ==
    /\ phase[i] = "stopping"
    /\ InFlight(i) # {}
    /\ SetPhase(i, "down")
    /\ Kill(i)
    /\ UNCHANGED <<rows, created, results, faults>>

\* Every worker has ended and Run returns.
Exit(i) ==
    /\ phase[i] = "draining"
    /\ WorkersOf(i) = {}
    /\ SetPhase(i, "down")
    /\ UNCHANGED <<rows, created, results, request, worker, faults>>

Crash(i) ==
    /\ phase[i] # "down"
    /\ Fault("crash")
    /\ SetPhase(i, "down")
    /\ Kill(i)
    /\ UNCHANGED <<rows, created, results>>

-----------------------------------------------------------------------------
HandlerStep(r) == CheckActive(r) \/ Create(r)

WorkerStep(a) ==
    \/ AdvanceLoading(a) \/ LoadDataset(a) \/ AdvanceAnalyzing(a) \/ Analyze(a)
    \/ AdvanceSaving(a) \/ ToAnomalies(a) \/ Complete(a) \/ Interrupted(a) \/ Fail(a)

StopStep(i) == ShutdownDone(i) \/ ShutdownTimeout(i) \/ Exit(i)

Next ==
    \/ \E r \in Requests : HandlerStep(r) \/ \E i \in Instances : Arrive(r, i)
    \/ \E a \in Analyses : WorkerStep(a) \/ Deadline(a)
    \/ \E i \in Instances : Boot(i) \/ Recover(i) \/ Signal(i) \/ StopStep(i) \/ Crash(i)

\* A goroutine that can run runs, a mutex is handed to a handler that keeps
\* asking for it, and the platform restarts a process that is down.
Fairness ==
    /\ \A r \in Requests : SF_vars(CheckActive(r)) /\ WF_vars(Create(r))
    /\ \A a \in Analyses : WF_vars(WorkerStep(a))
    /\ \A i \in Instances : WF_vars(Boot(i)) /\ WF_vars(Recover(i)) /\ WF_vars(StopStep(i))

Safe == Init /\ [][Next]_vars
Spec == Safe /\ Fairness

-----------------------------------------------------------------------------
(* Properties.                                                              *)

RowsType ==
    /\ rows \in [Analyses -> [status : {"none"} \cup Active \cup Terminal,
                              step : StepNames,
                              error : {"none", "worker", "restart"}]]
    /\ created \in 0..MaxAnalyses
    /\ results \subseteq Analyses
PhaseType == phase \in [Instances -> {"down", "booting", "serving", "stopping", "draining"}]
RequestType == request \in [Requests -> [pc : {"idle", "waiting", "checked"},
                                        host : Instances \cup {NoInstance},
                                        reply : {"none", "created", "reused", "error"},
                                        row : Analyses \cup {NoAnalysis}]]
WorkerType == worker \in [Analyses -> [pc : {"idle", "failing"} \cup Working,
                                      host : Instances \cup {NoInstance},
                                      live : BOOLEAN]]
FaultsType == faults \in 0..MaxFaults

\* The type of every variable.
TypeOK == RowsType /\ PhaseType /\ RequestType /\ WorkerType /\ FaultsType

\* At any moment at most one analysis is PENDING or RUNNING: the read of the
\* active row and the insert of a new one are not separated by another insert
\* or by an update that makes an older row active again.
AtMostOneActive ==
    \A a, b \in Analyses : rows[a].status \in Active /\ rows[b].status \in Active => a = b

DrawerSteps == <<"loading_data", "analyzing", "saving", "completed">>

\* How the drawer shows step k of an analysis.
StepStateOf(row, k) ==
    LET current == {j \in 1..4 : DrawerSteps[j] = row.step}
    IN  IF row.status = "COMPLETED" \/ (\E j \in current : k < j) THEN "done"
        ELSE IF k \notin current THEN "pending"
        ELSE IF row.status = "FAILED" THEN "failed" ELSE "current"

\* A step the drawer has shown as done stays done, however the analysis ends
\* and whoever writes its row: no late AdvanceAnalysis takes the row back, and
\* no FailAnalysis overwrites a COMPLETED row, although neither statement has a
\* condition on the status.
DoneStaysDone ==
    [][\A a \in Analyses, k \in 1..4 :
          StepStateOf(rows[a], k) = "done" => StepStateOf(rows'[a], k) = "done"]_vars

\* A completed analysis carries no error message.
CompletedHasNoError ==
    \A a \in Analyses : rows[a].status = "COMPLETED" => rows[a].error = "none"

Driven(a) == worker[a].pc # "idle"

\* While a process serves, every active row has a worker that will finish it.
\* (When this fails the row blocks every new analysis until a restart.)
ActiveIsDriven ==
    \A a \in Analyses :
        rows[a].status \in Active /\ (\E i \in Instances : phase[i] \in {"serving", "stopping"})
            => Driven(a)

\* The view of a row that the abstract specification keeps.
BoardView(row) ==
    CASE row.status = "none" -> "free"
      [] row.status \in Active -> "running"
      [] row.status = "COMPLETED" -> "done"
      [] row.status = "FAILED" -> "failed"

Board == INSTANCE AnalysisBoard WITH
    board <- [a \in Analyses |-> BoardView(rows[a])],
    stored <- results

\* The job implements the abstract board: analyses are launched one at a time
\* and each ends exactly once, completed with all of its results or failed with
\* none, whatever statement of the worker a crash cuts.
ImplementsBoard == Board!BoardSpec

\* Every analysis that is created eventually finishes, by its worker or by
\* the recovery of the next start.
EveryAnalysisSettles ==
    \A a \in Analyses : rows[a].status \in Active ~> rows[a].status \in Terminal

\* Every handler eventually answers or dies with its process: startMutex is
\* always released.
EveryRequestEnds ==
    \A r \in Requests : request[r].pc # "idle" ~> request[r].pc = "idle"

-----------------------------------------------------------------------------
(* Why at most one row is active while processes do not overlap: the parts  *)
(* of an inductive invariant.                                               *)

\* At most one process runs.
OneProcess ==
    \A i, j \in Instances : phase[i] # "down" /\ phase[j] # "down" => i = j

\* A handler in flight belongs to a process whose server has not ended.
HandlersHosted ==
    \A r \in Requests :
        \/ request[r].pc = "idle" /\ request[r].host = NoInstance
        \/ /\ request[r].pc # "idle"
           /\ request[r].host \in Instances
           /\ phase[request[r].host] \in {"serving", "stopping"}

\* A worker belongs to a process that waits for it before it ends.
WorkersHosted ==
    \A a \in Analyses :
        \/ worker[a].pc = "idle" /\ worker[a].host = NoInstance
        \/ /\ worker[a].pc # "idle"
           /\ worker[a].host \in Instances
           /\ phase[worker[a].host] \in {"serving", "stopping", "draining"}

\* What a handler read under startMutex still holds when it inserts its row.
CheckedIsFresh ==
    \A r \in Requests : request[r].pc = "checked" =>
        /\ \A q \in Requests : request[q].pc = "checked" => q = r
        /\ \A a \in Analyses : rows[a].status \notin Active

\* A worker that can still advance its row finds it active.
WorkingIsActive ==
    \A a \in Analyses : worker[a].pc \in Working => rows[a].status \in Active

\* Ids are given in order, and a row that does not exist has no worker.
IdsInOrder ==
    \A a \in Analyses :
        /\ rows[a].status = "none" <=> a > created
        /\ a > created => worker[a].pc = "idle"

\* Only a failed row carries an error.
ErrorMeansFailed ==
    \A a \in Analyses : rows[a].error # "none" => rows[a].status = "FAILED"

\* The inductive invariant.
OneAtATime ==
    /\ OneProcess /\ HandlersHosted /\ WorkersHosted
    /\ CheckedIsFresh /\ WorkingIsActive /\ IdsInOrder /\ ErrorMeansFailed
    /\ AtMostOneActive

=============================================================================
