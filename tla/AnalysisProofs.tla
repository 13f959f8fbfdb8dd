--------------------------- MODULE AnalysisProofs ---------------------------
(***************************************************************************)
(* Theorems about Analysis for every number of rows, handlers, process     *)
(* slots and faults, and about Pipeline, what its worker asks of the AI    *)
(* service for each meter, for every list of signals and of events.        *)
(***************************************************************************)
EXTENDS Analysis, Pipeline, FiniteSetTheorems, WellFoundedInduction, TLAPS

-----------------------------------------------------------------------------
(* What the helpers of the actions do to the types.                         *)

\* A reply leaves the handler idle and well typed.
LEMMA ReplyType ==
  ASSUME RequestType, NEW r \in Requests, NEW a \in Analyses \cup {NoAnalysis},
         NEW kind \in {"created", "reused", "error"}, Reply(r, kind, a)
  PROVE  RequestType'
BY DEF RequestType, Reply

\* A new row is well typed and within the bound.
LEMMA InsertRowType ==
  ASSUME RowsType, InsertRow, UNCHANGED results
  PROVE  RowsType' /\ created + 1 \in Analyses
BY BoundsAssumption DEF RowsType, InsertRow, Active, Terminal, StepNames, Analyses

\* A worker starts well typed.
LEMMA SpawnType ==
  ASSUME WorkerType, NEW a \in Analyses, NEW i \in Instances \cup {NoInstance},
         NEW l \in BOOLEAN, Spawn(a, i, l)
  PROVE  WorkerType'
BY DEF WorkerType, Spawn, Working

\* A worker that moves stays well typed.
LEMMA MoveType ==
  ASSUME WorkerType, NEW a \in Analyses, NEW pc \in Working \cup {"failing"}, Move(a, pc)
  PROVE  WorkerType'
BY DEF WorkerType, Move

\* A worker that ends leaves the type.
LEMMA EndWorkerType ==
  ASSUME WorkerType, NEW a \in Analyses, EndWorker(a)
  PROVE  WorkerType'
BY DEF WorkerType, EndWorker, NoWorker

\* Advancing a row keeps the table well typed.
LEMMA SetStepType ==
  ASSUME RowsType, NEW a \in Analyses, NEW step \in StepNames, SetStep(a, step),
         UNCHANGED <<created, results>>
  PROVE  RowsType'
BY DEF RowsType, SetStep, Active

\* Completing a row keeps the table well typed.
LEMMA StoreResultsType ==
  ASSUME RowsType, NEW a \in Analyses, StoreResults(a), UNCHANGED created
  PROVE  RowsType'
BY DEF RowsType, StoreResults, Terminal, StepNames

\* Failing a row keeps the table well typed.
LEMMA RecordFailureType ==
  ASSUME RowsType, NEW a \in Analyses, RecordFailure(a), UNCHANGED <<created, results>>
  PROVE  RowsType'
BY DEF RowsType, RecordFailure, Terminal

\* Closing the interrupted rows keeps the table well typed.
LEMMA CloseInterruptedType ==
  ASSUME RowsType, CloseInterrupted, UNCHANGED <<created, results>>
  PROVE  RowsType'
BY DEF RowsType, CloseInterrupted, Terminal

\* A phase change keeps the phases well typed.
LEMMA SetPhaseType ==
  ASSUME PhaseType, NEW i \in Instances,
         NEW p \in {"down", "booting", "serving", "stopping", "draining"}, SetPhase(i, p)
  PROVE  PhaseType'
BY DEF PhaseType, SetPhase

\* A process that ends leaves handlers and workers well typed.
LEMMA KillType ==
  ASSUME RequestType, WorkerType, NEW i \in Instances, Kill(i)
  PROVE  RequestType' /\ WorkerType'
<1>1. RequestType'
  BY DEF RequestType, Kill, NoRequest, NoAnalysis
<1>2. WorkerType'
  BY DEF WorkerType, Kill, NoWorker
<1>3. QED
  BY <1>1, <1>2

\* The count of faults stays within its bound.
LEMMA FaultType ==
  ASSUME FaultsType, NEW kind, Fault(kind)
  PROVE  FaultsType'
BY BoundsAssumption DEF FaultsType, Fault

-----------------------------------------------------------------------------
(* The type invariant holds in every state, whatever faults happen and      *)
(* whether or not processes overlap.                                        *)
THEOREM TypeCorrect == Safe => []TypeOK
<1>1. Init => TypeOK
  BY BoundsAssumption DEF Init, TypeOK, RowsType, PhaseType, RequestType, WorkerType, FaultsType,
     StepNames, NoRequest, NoWorker
<1>2. TypeOK /\ [Next]_vars => TypeOK'
  <2> SUFFICES ASSUME TypeOK, [Next]_vars PROVE TypeOK'
    OBVIOUS
  <2> USE DEF TypeOK
  <2>1. ASSUME NEW r \in Requests, NEW i \in Instances, Arrive(r, i) PROVE TypeOK'
    BY <2>1 DEF Arrive, RequestType, RowsType, PhaseType, WorkerType, FaultsType, NoRequest, NoAnalysis
  <2>2. ASSUME NEW r \in Requests, CheckActive(r) PROVE TypeOK'
    <3>1. RequestType'
      <4>1. ASSUME NEW a \in ActiveRows, Reply(r, "reused", a) PROVE RequestType'
        BY <4>1, ReplyType DEF ActiveRows
      <4>2. ASSUME Reply(r, "error", NoAnalysis) PROVE RequestType'
        BY <4>2, ReplyType
      <4>3. ASSUME request' = [request EXCEPT ![r].pc = "checked"] PROVE RequestType'
        BY <4>3 DEF RequestType
      <4>4. QED
        BY <2>2, <4>1, <4>2, <4>3 DEF CheckActive, CheckActiveWith
    <3>2. FaultsType'
      BY <2>2, FaultType DEF CheckActive, CheckActiveWith, FaultsType
    <3>3. QED
      BY <2>2, <3>1, <3>2 DEF CheckActive, CheckActiveWith, RowsType, PhaseType, WorkerType
  <2>3. ASSUME NEW r \in Requests, Create(r) PROVE TypeOK'
    <3>1. RowsType'
      BY <2>3, InsertRowType DEF Create, RowsType
    <3>2. RequestType'
      <4>1. created + 1 \in Analyses \/ ~ InsertRow
        BY BoundsAssumption DEF InsertRow, RowsType, Analyses
      <4>2. QED
        BY <2>3, <4>1, ReplyType DEF Create
    <3>3. WorkerType'
      <4>1. CASE UNCHANGED worker
        BY <4>1 DEF WorkerType
      <4>2. CASE InsertRow /\ Spawn(created + 1, request[r].host, phase[request[r].host] = "serving")
        <5>1. request[r].host \in Instances \cup {NoInstance}
          BY DEF RequestType
        <5>2. created + 1 \in Analyses
          BY <4>2, BoundsAssumption DEF InsertRow, RowsType, Analyses
        <5>3. QED
          BY <4>2, <5>1, <5>2, SpawnType
      <4>3. QED
        BY <2>3, <4>1, <4>2 DEF Create
    <3>4. FaultsType'
      BY <2>3, FaultType DEF Create, FaultsType
    <3>5. QED
      BY <2>3, <3>1, <3>2, <3>3, <3>4 DEF Create, PhaseType
  <2>4. ASSUME NEW a \in Analyses, NEW from, NEW step \in StepNames, NEW to \in Working,
               Advance(a, from, step, to)
        PROVE TypeOK'
    <3>1. RowsType'
      BY <2>4, SetStepType DEF Advance, RowsType
    <3>2. WorkerType'
      BY <2>4, MoveType DEF Advance
    <3>3. FaultsType'
      BY <2>4, FaultType DEF Advance, FaultsType
    <3>4. QED
      BY <2>4, <3>1, <3>2, <3>3 DEF Advance, PhaseType, RequestType
  <2>5. ASSUME NEW a \in Analyses, AdvanceLoading(a) \/ AdvanceAnalyzing(a) \/ AdvanceSaving(a)
        PROVE TypeOK'
    BY <2>4, <2>5 DEF AdvanceLoading, AdvanceAnalyzing, AdvanceSaving, StepNames, Working
  <2>6. ASSUME NEW a \in Analyses, NEW from, NEW to \in Working, Call(a, from, to) PROVE TypeOK'
    <3>1. WorkerType'
      BY <2>6, MoveType DEF Call
    <3>2. QED
      BY <2>6, <3>1 DEF Call, RowsType, PhaseType, RequestType, FaultsType
  <2>7. ASSUME NEW a \in Analyses, LoadDataset(a) \/ Analyze(a) PROVE TypeOK'
    <3>1. {"loaded", "answered"} \subseteq Working
      BY DEF Working
    <3>2. QED
      BY <2>6, <2>7, <3>1 DEF LoadDataset, Analyze
  <2>8. ASSUME NEW a \in Analyses, ToAnomalies(a) PROVE TypeOK'
    <3>1. WorkerType'
      BY <2>8, MoveType DEF ToAnomalies, Working
    <3>2. QED
      BY <2>8, <3>1 DEF ToAnomalies, RowsType, PhaseType, RequestType, FaultsType
  <2>9. ASSUME NEW a \in Analyses, Complete(a) PROVE TypeOK'
    <3>1. RowsType'
      BY <2>9, StoreResultsType DEF Complete, RowsType
    <3>2. WorkerType'
      BY <2>9, MoveType, EndWorkerType DEF Complete
    <3>3. FaultsType'
      BY <2>9, FaultType DEF Complete, FaultsType
    <3>4. QED
      BY <2>9, <3>1, <3>2, <3>3 DEF Complete, PhaseType, RequestType
  <2>10. ASSUME NEW a \in Analyses, Interrupted(a) PROVE TypeOK'
    <3>1. WorkerType'
      BY <2>10, MoveType DEF Interrupted
    <3>2. QED
      BY <2>10, <3>1 DEF Interrupted, RowsType, PhaseType, RequestType, FaultsType
  <2>11. ASSUME NEW a \in Analyses, Deadline(a) PROVE TypeOK'
    <3>1. WorkerType'
      BY <2>11 DEF Deadline, WorkerType
    <3>2. QED
      BY <2>11, <3>1 DEF Deadline, RowsType, PhaseType, RequestType, FaultsType
  <2>12. ASSUME NEW a \in Analyses, Fail(a) PROVE TypeOK'
    <3>1. RowsType'
      BY <2>12, RecordFailureType DEF Fail, RowsType
    <3>2. WorkerType'
      BY <2>12, EndWorkerType DEF Fail
    <3>3. FaultsType'
      BY <2>12, FaultType DEF Fail, FaultsType
    <3>4. QED
      BY <2>12, <3>1, <3>2, <3>3 DEF Fail, PhaseType, RequestType
  <2>13. ASSUME NEW i \in Instances, Boot(i) \/ ShutdownDone(i) \/ Exit(i) PROVE TypeOK'
    <3>1. PhaseType'
      BY <2>13, SetPhaseType DEF Boot, ShutdownDone, Exit
    <3>2. QED
      BY <2>13, <3>1 DEF Boot, ShutdownDone, Exit, RowsType, RequestType, WorkerType, FaultsType
  <2>14. ASSUME NEW i \in Instances, Recover(i) PROVE TypeOK'
    <3>1. RowsType'
      BY <2>14, CloseInterruptedType DEF Recover, RowsType
    <3>2. PhaseType'
      BY <2>14, SetPhaseType DEF Recover
    <3>3. FaultsType'
      BY <2>14, FaultType DEF Recover, FaultsType
    <3>4. QED
      BY <2>14, <3>1, <3>2, <3>3 DEF Recover, RequestType, WorkerType
  <2>15. ASSUME NEW i \in Instances, Signal(i) PROVE TypeOK'
    <3>1. PhaseType'
      BY <2>15, SetPhaseType DEF Signal
    <3>2. WorkerType'
      BY <2>15 DEF Signal, WorkerType
    <3>3. QED
      BY <2>15, <3>1, <3>2 DEF Signal, RowsType, RequestType, FaultsType
  <2>16. ASSUME NEW i \in Instances, ShutdownTimeout(i) \/ Crash(i) PROVE TypeOK'
    <3>1. PhaseType'
      BY <2>16, SetPhaseType DEF ShutdownTimeout, Crash
    <3>2. RequestType' /\ WorkerType'
      BY <2>16, KillType DEF ShutdownTimeout, Crash
    <3>3. FaultsType'
      BY <2>16, FaultType DEF ShutdownTimeout, Crash, FaultsType
    <3>4. QED
      BY <2>16, <3>1, <3>2, <3>3 DEF ShutdownTimeout, Crash, RowsType
  <2>17. CASE UNCHANGED vars
    BY <2>17 DEF RowsType, PhaseType, RequestType, WorkerType, FaultsType, vars
  <2>18. QED
    BY <2>1, <2>2, <2>3, <2>5, <2>7, <2>8, <2>9, <2>10, <2>11, <2>12, <2>13, <2>14, <2>15, <2>16,
       <2>17 DEF Next, HandlerStep, WorkerStep, StopStep
<1>3. QED
  BY <1>1, <1>2, PTL DEF Safe

-----------------------------------------------------------------------------
(* One analysis at a time.                                                  *)

\* A step of the worker of row a keeps the invariant if it leaves the other
\* rows alone and does not make a finished row active.
LEMMA OwnRowStep ==
  ASSUME TypeOK, OneAtATime, NEW a \in Analyses, worker[a].pc # "idle",
         UNCHANGED <<created, phase, request>>,
         \A b \in Analyses : b # a => worker'[b] = worker[b] /\ rows'[b] = rows[b],
         \/ worker'[a].host = worker[a].host /\ worker'[a].pc # "idle"
         \/ worker'[a].host = NoInstance /\ worker'[a].pc = "idle",
         rows'[a].status \in Active => rows[a].status \in Active,
         worker'[a].pc \in Working => rows'[a].status \in Active,
         rows'[a].status # "none",
         rows'[a].error # "none" => rows'[a].status = "FAILED"
  PROVE  OneAtATime'
<1>1. OneProcess' /\ HandlersHosted'
  BY DEF OneAtATime, OneProcess, HandlersHosted
<1>2. WorkersHosted'
  BY DEF OneAtATime, WorkersHosted
<1>3. CheckedIsFresh'
  BY DEF OneAtATime, CheckedIsFresh
<1>4. WorkingIsActive'
  BY DEF OneAtATime, WorkingIsActive
<1>5. IdsInOrder'
  BY DEF OneAtATime, IdsInOrder
<1>6. ErrorMeansFailed' /\ AtMostOneActive'
  BY DEF OneAtATime, ErrorMeansFailed, AtMostOneActive
<1>7. QED
  BY <1>1, <1>2, <1>3, <1>4, <1>5, <1>6 DEF OneAtATime

\* The row of a worker that can still advance it exists, is active and has no
\* error.
LEMMA OwnRow ==
  ASSUME TypeOK, OneAtATime, NEW a \in Analyses
  PROVE  /\ worker[a].pc # "idle" => rows[a].status # "none"
         /\ worker[a].pc \in Working => rows[a].status \in Active /\ rows[a].error = "none"
<1>1. worker[a].pc # "idle" => rows[a].status # "none"
  BY DEF OneAtATime, IdsInOrder
<1>2. worker[a].pc \in Working => rows[a].status \in Active
  BY DEF OneAtATime, WorkingIsActive
<1>3. rows[a].status \in Active => rows[a].error = "none"
  BY DEF OneAtATime, ErrorMeansFailed, Active
<1>4. QED
  BY <1>1, <1>2, <1>3

\* What Move and EndWorker do to each worker.
LEMMA MoveEffect ==
  ASSUME WorkerType, NEW a \in Analyses, NEW pc, Move(a, pc)
  PROVE  /\ worker'[a].pc = pc /\ worker'[a].host = worker[a].host
         /\ \A b \in Analyses : b # a => worker'[b] = worker[b]
BY DEF WorkerType, Move

LEMMA EndEffect ==
  ASSUME WorkerType, NEW a \in Analyses, EndWorker(a)
  PROVE  /\ worker'[a].pc = "idle" /\ worker'[a].host = NoInstance
         /\ \A b \in Analyses : b # a => worker'[b] = worker[b]
BY DEF WorkerType, EndWorker, NoWorker

\* What Spawn does to each worker.
LEMMA SpawnEffect ==
  ASSUME WorkerType, NEW a \in Analyses, NEW i, NEW l, Spawn(a, i, l)
  PROVE  /\ worker'[a].pc = "start" /\ worker'[a].host = i
         /\ \A b \in Analyses : b # a => worker'[b] = worker[b]
BY DEF WorkerType, Spawn

\* What the writes of a worker do to each row.
LEMMA SetStepEffect ==
  ASSUME RowsType, NEW a \in Analyses, NEW step, SetStep(a, step)
  PROVE  /\ rows'[a].status = "RUNNING" /\ rows'[a].error = rows[a].error
         /\ \A b \in Analyses : b # a => rows'[b] = rows[b]
BY DEF RowsType, SetStep

LEMMA StoreEffect ==
  ASSUME RowsType, NEW a \in Analyses, StoreResults(a)
  PROVE  /\ rows'[a].status = "COMPLETED" /\ rows'[a].error = rows[a].error
         /\ \A b \in Analyses : b # a => rows'[b] = rows[b]
BY DEF RowsType, StoreResults

LEMMA RecordFailureEffect ==
  ASSUME RowsType, NEW a \in Analyses, RecordFailure(a)
  PROVE  /\ rows'[a].status = "FAILED" /\ rows'[a].error = "worker"
         /\ \A b \in Analyses : b # a => rows'[b] = rows[b]
BY DEF RowsType, RecordFailure

\* Every step of a worker keeps the invariant.
LEMMA WorkerKeepsOneAtATime ==
  ASSUME TypeOK, OneAtATime, NEW a \in Analyses, WorkerStep(a) \/ Deadline(a)
  PROVE  OneAtATime'
<1> USE DEF TypeOK
<1>0. "idle" \notin Working /\ "failing" \notin Working
  BY DEF Working
<1>1. ASSUME NEW from \in Working, NEW step, NEW to \in Working, Advance(a, from, step, to)
      PROVE  OneAtATime'
  <2>1. CASE SetStep(a, step) /\ (Move(a, to) \/ Move(a, "failing"))
    BY <1>0, <1>1, <2>1, OwnRow, OwnRowStep, MoveEffect, SetStepEffect DEF Advance, Active
  <2>2. CASE UNCHANGED rows /\ Move(a, "failing")
    BY <1>0, <1>1, <2>2, OwnRow, OwnRowStep, MoveEffect DEF Advance
  <2>3. QED
    BY <1>1, <2>1, <2>2 DEF Advance
<1>2. CASE AdvanceLoading(a) \/ AdvanceAnalyzing(a) \/ AdvanceSaving(a)
  <2>1. {"start", "loaded", "answered", "load", "call", "convert"} \subseteq Working
    BY DEF Working
  <2>2. QED
    BY <1>1, <1>2, <2>1 DEF AdvanceLoading, AdvanceAnalyzing, AdvanceSaving
<1>3. ASSUME NEW to \in Working \cup {"failing"}, worker[a].pc \in Working, Move(a, to),
             UNCHANGED <<rows, created, phase, request>>
      PROVE  OneAtATime'
  BY <1>0, <1>3, OwnRow, OwnRowStep, MoveEffect
<1>4. CASE LoadDataset(a) \/ Analyze(a) \/ ToAnomalies(a) \/ Interrupted(a)
  <2>1. {"load", "loaded", "call", "answered", "convert", "commit"} \subseteq Working
    BY DEF Working
  <2>2. QED
    BY <1>3, <1>4, <2>1 DEF LoadDataset, Analyze, ToAnomalies, Interrupted, Call
<1>5. CASE Complete(a)
  <2>1. "commit" \in Working
    BY DEF Working
  <2>2. CASE StoreResults(a) /\ (EndWorker(a) \/ Move(a, "failing"))
    BY <1>0, <1>5, <2>1, <2>2, OwnRow, OwnRowStep, MoveEffect, EndEffect, StoreEffect
       DEF Complete, Active
  <2>3. CASE UNCHANGED rows /\ Move(a, "failing")
    BY <1>5, <2>1, <2>3, <1>3 DEF Complete
  <2>4. QED
    BY <1>5, <2>2, <2>3 DEF Complete
<1>6. CASE Fail(a)
  <2>1. CASE RecordFailure(a)
    BY <1>0, <1>6, <2>1, OwnRow, OwnRowStep, EndEffect, RecordFailureEffect DEF Fail, Active
  <2>2. CASE UNCHANGED rows
    <3>1. rows[a].error # "none" => rows[a].status = "FAILED"
      BY DEF OneAtATime, ErrorMeansFailed
    <3>2. QED
      BY <1>0, <1>6, <2>2, <3>1, OwnRow, OwnRowStep, EndEffect DEF Fail
  <2>3. QED
    BY <1>6, <2>1, <2>2 DEF Fail
<1>7. CASE Deadline(a)
  <2>1. \A b \in Analyses : worker'[b].pc = worker[b].pc /\ worker'[b].host = worker[b].host
    BY <1>7 DEF Deadline, WorkerType
  <2>2. \A b \in Analyses : b # a => worker'[b] = worker[b]
    BY <1>7 DEF Deadline, WorkerType
  <2>3. QED
    BY <1>0, <1>7, <2>1, <2>2, OwnRow, OwnRowStep DEF Deadline
<1>8. QED
  BY <1>2, <1>4, <1>5, <1>6, <1>7 DEF WorkerStep

\* Every step of a handler keeps the invariant.
LEMMA HandlerKeepsOneAtATime ==
  ASSUME TypeOK, OneAtATime, NEW r \in Requests,
         HandlerStep(r) \/ \E i \in Instances : Arrive(r, i)
  PROVE  OneAtATime'
<1> USE DEF TypeOK
<1>1. ASSUME NEW i \in Instances, Arrive(r, i) PROVE OneAtATime'
  <2>1. /\ request'[r].pc = "waiting" /\ request'[r].host = i /\ phase[i] = "serving"
        /\ \A q \in Requests : q # r => request'[q] = request[q]
    BY <1>1 DEF Arrive, RequestType, NoRequest
  <2>2. HandlersHosted'
    BY <1>1, <2>1 DEF Arrive, OneAtATime, HandlersHosted
  <2>3. CheckedIsFresh'
    BY <1>1, <2>1 DEF Arrive, OneAtATime, CheckedIsFresh
  <2>4. QED
    BY <1>1, <2>2, <2>3 DEF Arrive, OneAtATime, OneProcess, WorkersHosted, WorkingIsActive,
       IdsInOrder, ErrorMeansFailed, AtMostOneActive
<1>2. ASSUME NEW kind, NEW a, Reply(r, kind, a)
      PROVE  /\ request'[r].pc = "idle" /\ request'[r].host = NoInstance
             /\ \A q \in Requests : q # r => request'[q] = request[q]
  BY <1>2 DEF Reply, RequestType
<1>3. CASE CheckActive(r)
  <2>1. UNCHANGED <<rows, created, results, phase, worker>> /\ request[r].pc = "waiting"
    BY <1>3 DEF CheckActive, CheckActiveWith
  <2>2. CASE \E kind, a : Reply(r, kind, a)
    <3>1. HandlersHosted' /\ CheckedIsFresh'
      BY <1>2, <2>1, <2>2 DEF OneAtATime, HandlersHosted, CheckedIsFresh
    <3>2. QED
      BY <2>1, <3>1 DEF OneAtATime, OneProcess, WorkersHosted, WorkingIsActive, IdsInOrder,
         ErrorMeansFailed, AtMostOneActive
  <2>3. CASE /\ ~ Locked(request[r].host) /\ ActiveRows = {}
             /\ request' = [request EXCEPT ![r].pc = "checked"]
    <3>1. /\ request'[r].pc = "checked" /\ request'[r].host = request[r].host
          /\ \A q \in Requests : q # r => request'[q] = request[q]
      BY <2>3 DEF RequestType
    <3>2. HandlersHosted'
      BY <2>1, <3>1 DEF OneAtATime, HandlersHosted
    <3>3. ASSUME NEW q \in Requests, request[q].pc = "checked" PROVE FALSE
      <4>1. request[q].host = request[r].host
        BY <2>1, <3>3 DEF OneAtATime, OneProcess, HandlersHosted
      <4>2. QED
        BY <2>3, <3>3, <4>1 DEF Locked, InFlight
    <3>4. CheckedIsFresh'
      BY <2>1, <2>3, <3>1, <3>3 DEF CheckedIsFresh, ActiveRows
    <3>5. QED
      BY <2>1, <3>2, <3>4 DEF OneAtATime, OneProcess, WorkersHosted, WorkingIsActive, IdsInOrder,
         ErrorMeansFailed, AtMostOneActive
  <2>4. QED
    BY <1>3, <2>2, <2>3 DEF CheckActive, CheckActiveWith
<1>4. CASE Create(r)
  <2>1. /\ request[r].pc = "checked" /\ phase' = phase /\ \E kind, a : Reply(r, kind, a)
    BY <1>4 DEF Create
  <2>2. /\ HandlersHosted'
        /\ \A q \in Requests : request'[q].pc # "checked"
    BY <1>2, <2>1 DEF OneAtATime, HandlersHosted, CheckedIsFresh
  <2>3. CheckedIsFresh' /\ OneProcess'
    BY <2>1, <2>2 DEF OneAtATime, OneProcess, CheckedIsFresh
  <2>4. \A b \in Analyses : rows[b].status \notin Active
    BY <2>1 DEF OneAtATime, CheckedIsFresh
  <2>5. CASE UNCHANGED <<rows, created, worker>>
    BY <2>1, <2>2, <2>3, <2>5 DEF OneAtATime, WorkersHosted, WorkingIsActive, IdsInOrder,
       ErrorMeansFailed, AtMostOneActive
  <2>6. CASE InsertRow /\ (UNCHANGED worker \/ \E l \in BOOLEAN : Spawn(created + 1, request[r].host, l))
    <3> DEFINE n == created + 1
    <3>1. n \in Analyses /\ created' = n /\ created \in Nat
      BY <2>6, BoundsAssumption DEF InsertRow, RowsType, Analyses
    <3>2. /\ rows'[n].status = "PENDING" /\ rows'[n].error = "none"
          /\ \A b \in Analyses : b # n => rows'[b] = rows[b]
      BY <2>6, <3>1 DEF InsertRow, RowsType
    <3>3. /\ \/ worker'[n].pc = "idle" /\ worker'[n].host = NoInstance
             \/ worker'[n].pc = "start" /\ worker'[n].host = request[r].host
          /\ \A b \in Analyses : b # n => worker'[b] = worker[b]
      <4>1. worker[n].pc = "idle" /\ worker[n].host = NoInstance
        <5>1. worker[n].pc = "idle"
          BY <3>1 DEF OneAtATime, IdsInOrder
        <5>2. QED
          BY <3>1, <5>1 DEF OneAtATime, WorkersHosted
      <4>2. QED
        BY <2>6, <3>1, <4>1, SpawnEffect
    <3>4. /\ request[r].host \in Instances
          /\ phase[request[r].host] \in {"serving", "stopping"}
      BY <2>1 DEF OneAtATime, HandlersHosted
    <3>5. WorkersHosted'
      BY <2>1, <3>1, <3>3, <3>4 DEF OneAtATime, WorkersHosted
    <3>6. WorkingIsActive'
      BY <3>1, <3>2, <3>3 DEF OneAtATime, WorkingIsActive, Active, Working
    <3>7. IdsInOrder'
      <4>1. \A b \in Analyses : b > n <=> b > created /\ b # n
        BY <3>1 DEF Analyses
      <4>2. ~ (n > n)
        BY <3>1
      <4>3. QED
        BY <3>1, <3>2, <3>3, <4>1, <4>2 DEF OneAtATime, IdsInOrder
    <3>8. ErrorMeansFailed' /\ AtMostOneActive'
      BY <2>4, <3>1, <3>2 DEF OneAtATime, ErrorMeansFailed, AtMostOneActive
    <3>9. QED
      BY <2>2, <2>3, <3>5, <3>6, <3>7, <3>8 DEF OneAtATime
  <2>7. (phase[request[r].host] = "serving") \in BOOLEAN
    OBVIOUS
  <2>8. QED
    BY <1>4, <2>5, <2>6, <2>7 DEF Create
<1>5. QED
  BY <1>1, <1>3, <1>4 DEF HandlerStep

\* Every step of a process keeps the invariant, if processes do not overlap.
LEMMA ProcessKeepsOneAtATime ==
  ASSUME TypeOK, OneAtATime, Overlap = FALSE, NEW i \in Instances,
         Boot(i) \/ Recover(i) \/ Signal(i) \/ StopStep(i) \/ Crash(i)
  PROVE  OneAtATime'
<1> USE DEF TypeOK
<1>1. ASSUME NEW p, SetPhase(i, p)
      PROVE  phase'[i] = p /\ \A j \in Instances : j # i => phase'[j] = phase[j]
  BY <1>1 DEF SetPhase, PhaseType
<1>2. CASE Boot(i)
  <2>1. /\ \A j \in Instances : phase[j] = "down"
        /\ UNCHANGED <<rows, created, results, request, worker>>
        /\ \A j \in Instances : j # i => phase'[j] = "down"
    BY <1>1, <1>2 DEF Boot
  <2>2. OneProcess' /\ HandlersHosted' /\ WorkersHosted'
    BY <2>1 DEF OneAtATime, OneProcess, HandlersHosted, WorkersHosted
  <2>3. QED
    BY <2>1, <2>2 DEF OneAtATime, CheckedIsFresh, WorkingIsActive, IdsInOrder, ErrorMeansFailed,
       AtMostOneActive
<1>3. CASE Recover(i)
  <2>1. /\ UNCHANGED <<created, request, worker>> /\ phase[i] = "booting"
        /\ \E p : SetPhase(i, p)
        /\ UNCHANGED rows \/ CloseInterrupted
    BY <1>3 DEF Recover
  <2>2. /\ \A j \in Instances : j # i => phase[j] = "down" /\ phase'[j] = "down"
        /\ \A r \in Requests : request[r].pc = "idle"
        /\ \A a \in Analyses : worker[a].pc = "idle"
    BY <1>1, <2>1 DEF OneAtATime, OneProcess, HandlersHosted, WorkersHosted
  <2>3. OneProcess' /\ HandlersHosted' /\ WorkersHosted' /\ CheckedIsFresh' /\ WorkingIsActive'
    BY <2>1, <2>2 DEF OneAtATime, OneProcess, HandlersHosted, WorkersHosted, CheckedIsFresh,
       WorkingIsActive, Working
  <2>4. CASE UNCHANGED rows
    BY <2>1, <2>3, <2>4 DEF OneAtATime, IdsInOrder, ErrorMeansFailed, AtMostOneActive
  <2>5. CASE CloseInterrupted
    <3>1. \A a \in Analyses :
              \/ rows'[a] = rows[a] /\ rows[a].status \notin Active
              \/ rows'[a].status = "FAILED" /\ rows[a].status \in Active
      BY <2>5 DEF CloseInterrupted, RowsType
    <3>2. IdsInOrder'
      BY <2>1, <3>1 DEF OneAtATime, IdsInOrder, Active
    <3>3. ErrorMeansFailed' /\ AtMostOneActive'
      BY <3>1 DEF OneAtATime, ErrorMeansFailed, AtMostOneActive, Active
    <3>4. QED
      BY <2>3, <3>2, <3>3 DEF OneAtATime
  <2>6. QED
    BY <2>1, <2>4, <2>5
<1>4. CASE Signal(i)
  <2>1. /\ UNCHANGED <<rows, created, request>> /\ phase[i] = "serving" /\ phase'[i] = "stopping"
        /\ \A j \in Instances : j # i => phase'[j] = phase[j]
    BY <1>1, <1>4 DEF Signal
  <2>2. \A a \in Analyses : worker'[a].pc = worker[a].pc /\ worker'[a].host = worker[a].host
    BY <1>4 DEF Signal, WorkerType
  <2>3. OneProcess' /\ HandlersHosted' /\ WorkersHosted'
    BY <2>1, <2>2 DEF OneAtATime, OneProcess, HandlersHosted, WorkersHosted
  <2>4. QED
    BY <2>1, <2>2, <2>3 DEF OneAtATime, CheckedIsFresh, WorkingIsActive, IdsInOrder,
       ErrorMeansFailed, AtMostOneActive
<1>5. CASE ShutdownDone(i) \/ Exit(i)
  <2>1. /\ UNCHANGED <<rows, created, request, worker>> /\ phase[i] \in {"stopping", "draining"}
        /\ \A j \in Instances : j # i => phase'[j] = phase[j]
        /\ \A r \in Requests : request[r].host # i
        /\ \/ phase'[i] = "draining"
           \/ phase'[i] = "down" /\ \A a \in Analyses : worker[a].host # i
    <3>1. phase[i] = "draining" => \A r \in Requests : request[r].host # i
      BY ActorsAssumption DEF OneAtATime, HandlersHosted
    <3>2. QED
      BY <1>1, <1>5, <3>1 DEF ShutdownDone, Exit, InFlight, WorkersOf
  <2>2. OneProcess' /\ HandlersHosted' /\ WorkersHosted'
    BY <2>1 DEF OneAtATime, OneProcess, HandlersHosted, WorkersHosted
  <2>3. QED
    BY <2>1, <2>2 DEF OneAtATime, CheckedIsFresh, WorkingIsActive, IdsInOrder, ErrorMeansFailed,
       AtMostOneActive
<1>6. CASE ShutdownTimeout(i) \/ Crash(i)
  <2>1. /\ UNCHANGED <<rows, created>> /\ Kill(i)
        /\ phase'[i] = "down" /\ \A j \in Instances : j # i => phase'[j] = phase[j]
    BY <1>1, <1>6 DEF ShutdownTimeout, Crash
  <2>2. \A r \in Requests :
            \/ request'[r] = request[r] /\ request[r].host # i
            \/ request'[r].pc = "idle" /\ request'[r].host = NoInstance
    BY <2>1 DEF Kill, NoRequest
  <2>3. \A a \in Analyses :
            \/ worker'[a] = worker[a] /\ worker[a].host # i
            \/ worker'[a].pc = "idle" /\ worker'[a].host = NoInstance
    BY <2>1 DEF Kill, NoWorker
  <2>4. OneProcess' /\ HandlersHosted' /\ WorkersHosted'
    BY <2>1, <2>2, <2>3 DEF OneAtATime, OneProcess, HandlersHosted, WorkersHosted
  <2>5. CheckedIsFresh' /\ WorkingIsActive'
    BY <2>1, <2>2, <2>3 DEF OneAtATime, CheckedIsFresh, WorkingIsActive, Working
  <2>6. QED
    BY <2>1, <2>3, <2>4, <2>5 DEF OneAtATime, IdsInOrder, ErrorMeansFailed, AtMostOneActive
<1>7. QED
  BY <1>2, <1>3, <1>4, <1>5, <1>6 DEF StopStep

(* While processes do not overlap, the invariant holds in every state,      *)
(* whatever faults happen.                                                  *)
THEOREM OneAtATimeHolds == ASSUME Overlap = FALSE PROVE Safe => []OneAtATime
<1>1. Init => OneAtATime
  BY DEF Init, OneAtATime, OneProcess, HandlersHosted, WorkersHosted, CheckedIsFresh,
     WorkingIsActive, IdsInOrder, ErrorMeansFailed, AtMostOneActive, NoRequest, NoWorker, Working,
     Active, Analyses
<1>2. TypeOK /\ OneAtATime /\ [Next]_vars => OneAtATime'
  <2> SUFFICES ASSUME TypeOK, OneAtATime, [Next]_vars PROVE OneAtATime'
    OBVIOUS
  <2>1. CASE UNCHANGED vars
    BY <2>1 DEF vars, OneAtATime, OneProcess, HandlersHosted, WorkersHosted, CheckedIsFresh,
       WorkingIsActive, IdsInOrder, ErrorMeansFailed, AtMostOneActive
  <2>2. QED
    BY <2>1, WorkerKeepsOneAtATime, HandlerKeepsOneAtATime, ProcessKeepsOneAtATime DEF Next
<1>3. QED
  BY <1>1, <1>2, TypeCorrect, PTL DEF Safe

(* While processes do not overlap, at most one analysis is active.          *)
THEOREM AtMostOneActiveHolds == ASSUME Overlap = FALSE PROVE Safe => []AtMostOneActive
<1>1. OneAtATime => AtMostOneActive
  BY DEF OneAtATime
<1>2. QED
  BY <1>1, OneAtATimeHolds, PTL

(* While processes do not overlap, a completed analysis has no error.       *)
THEOREM CompletedHasNoErrorHolds == ASSUME Overlap = FALSE PROVE Safe => []CompletedHasNoError
<1>1. OneAtATime => CompletedHasNoError
  BY DEF OneAtATime, ErrorMeansFailed, CompletedHasNoError
<1>2. QED
  BY <1>1, OneAtATimeHolds, PTL

-----------------------------------------------------------------------------
(* Analysis implements AnalysisBoard, and what start-up closes and what     *)
(* stays active, over OneAtATime.                                           *)

\* What a worker's writes leave of the other rows and of its own.
LEMMA AdvanceEffect ==
  ASSUME TypeOK, NEW a \in Analyses, AdvanceLoading(a) \/ AdvanceAnalyzing(a) \/ AdvanceSaving(a)
  PROVE  /\ worker[a].pc \in Working /\ worker'[a].pc # "idle"
         /\ rows' = rows \/ (rows'[a].status = "RUNNING" /\ rows'[a].error = rows[a].error)
         /\ \A b \in Analyses : b # a => rows'[b] = rows[b] /\ worker'[b] = worker[b]
         /\ UNCHANGED <<created, results, phase, request>>
<1>1. ASSUME NEW from \in Working, NEW step, NEW to \in Working, Advance(a, from, step, to)
      PROVE  /\ worker[a].pc \in Working /\ worker'[a].pc # "idle"
             /\ rows' = rows \/ (rows'[a].status = "RUNNING" /\ rows'[a].error = rows[a].error)
             /\ \A b \in Analyses : b # a => rows'[b] = rows[b] /\ worker'[b] = worker[b]
             /\ UNCHANGED <<created, results, phase, request>>
  <2>1. \E pc \in Working \cup {"failing"} : Move(a, pc)
    BY <1>1 DEF Advance
  <2>2. /\ worker'[a].pc # "idle"
        /\ \A b \in Analyses : b # a => worker'[b] = worker[b]
    BY <2>1, MoveEffect DEF TypeOK, Working
  <2>3. SetStep(a, step) \/ UNCHANGED rows
    BY <1>1 DEF Advance
  <2>4. QED
    BY <1>1, <2>2, <2>3, SetStepEffect DEF Advance, TypeOK
<1>2. {"start", "loaded", "answered", "load", "call", "convert"} \subseteq Working
  BY DEF Working
<1>3. QED
  BY <1>1, <1>2 DEF AdvanceLoading, AdvanceAnalyzing, AdvanceSaving

\* The calls that change nothing in the database.
LEMMA CallEffect ==
  ASSUME TypeOK, NEW a \in Analyses,
         LoadDataset(a) \/ Analyze(a) \/ ToAnomalies(a) \/ Interrupted(a) \/ Deadline(a)
  PROVE  /\ worker[a].pc \in Working /\ worker'[a].pc # "idle"
         /\ \A b \in Analyses : b # a => worker'[b] = worker[b]
         /\ UNCHANGED <<rows, created, results, phase, request>>
<1>1. CASE Deadline(a)
  BY <1>1 DEF Deadline, TypeOK, WorkerType, Working
<1>2. CASE LoadDataset(a) \/ Analyze(a) \/ ToAnomalies(a) \/ Interrupted(a)
  <2>1. \E pc \in Working \cup {"failing"} : Move(a, pc)
    BY <1>2 DEF LoadDataset, Analyze, ToAnomalies, Interrupted, Call, Working
  <2>2. /\ worker'[a].pc # "idle"
        /\ \A b \in Analyses : b # a => worker'[b] = worker[b]
    BY <2>1, MoveEffect DEF TypeOK, Working
  <2>3. QED
    BY <1>2, <2>2 DEF LoadDataset, Analyze, ToAnomalies, Interrupted, Call, Working
<1>3. QED
  BY <1>1, <1>2

\* What the insertion of a row leaves, with or without its worker.
LEMMA CreateEffect ==
  ASSUME TypeOK, OneAtATime, NEW r \in Requests, Create(r)
  PROVE  \/ UNCHANGED <<rows, created, results, worker, phase>>
         \/ /\ created + 1 \in Analyses /\ rows[created + 1].status = "none"
            /\ rows'[created + 1].status = "PENDING" /\ rows'[created + 1].error = "none"
            /\ \A b \in Analyses : b # created + 1 => rows'[b] = rows[b] /\ worker'[b] = worker[b]
            /\ \A b \in Analyses : rows[b].status \notin Active
            /\ worker'[created + 1].pc # "idle" \/ "lost" \in Faults
            /\ UNCHANGED <<results, phase>>
<1>1. CASE InsertRow
  <2>1. created + 1 \in Analyses
    BY <1>1, BoundsAssumption DEF TypeOK, RowsType, InsertRow, Analyses
  <2>2. rows[created + 1].status = "none"
    <3>1. created + 1 > created
      BY DEF TypeOK, RowsType
    <3>2. QED
      BY <2>1, <3>1 DEF OneAtATime, IdsInOrder
  <2>3. /\ rows'[created + 1].status = "PENDING" /\ rows'[created + 1].error = "none"
        /\ \A b \in Analyses : b # created + 1 => rows'[b] = rows[b]
    BY <1>1, <2>1 DEF TypeOK, RowsType, InsertRow
  <2>4. \A b \in Analyses : rows[b].status \notin Active
    BY DEF Create, OneAtATime, CheckedIsFresh
  <2>5. created' # created
    BY <1>1 DEF InsertRow, TypeOK, RowsType
  <2>6. \/ Spawn(created + 1, request[r].host, phase[request[r].host] = "serving")
        \/ UNCHANGED worker /\ "lost" \in Faults
    BY <2>5 DEF Create, Fault
  <2>7. /\ \A b \in Analyses : b # created + 1 => worker'[b] = worker[b]
        /\ worker'[created + 1].pc # "idle" \/ "lost" \in Faults
    <3>1. CASE Spawn(created + 1, request[r].host, phase[request[r].host] = "serving")
      BY <2>1, <3>1, SpawnEffect DEF TypeOK
    <3>2. QED
      BY <2>6, <3>1
  <2>8. QED
    BY <2>1, <2>2, <2>3, <2>4, <2>7 DEF Create
<1>2. CASE ~ InsertRow
  BY <1>2 DEF Create
<1>3. QED
  BY <1>1, <1>2

\* Nothing of a booting process, or of another, is at work.
LEMMA RecoverEffect ==
  ASSUME TypeOK, OneAtATime, NEW i \in Instances, Recover(i)
  PROVE  /\ \A a \in Analyses : worker[a].pc = "idle"
         /\ \A j \in Instances : j # i => phase[j] = "down" /\ phase'[j] = "down"
         /\ phase[i] = "booting" /\ phase'[i] \in {"serving", "down"}
         /\ rows' = rows \/ CloseInterrupted
         /\ phase'[i] = "serving" => CloseInterrupted
         /\ UNCHANGED <<created, results, worker>>
<1>1. /\ phase[i] = "booting" /\ UNCHANGED <<created, results, worker>>
      /\ rows' = rows \/ CloseInterrupted
      /\ \/ SetPhase(i, "serving") /\ CloseInterrupted
         \/ SetPhase(i, "down")
  BY DEF Recover
<1>2. /\ phase'[i] \in {"serving", "down"}
      /\ phase'[i] = "serving" => CloseInterrupted
      /\ \A j \in Instances : j # i => phase'[j] = phase[j]
  BY <1>1 DEF SetPhase, TypeOK, PhaseType
<1>3. \A j \in Instances : j # i => phase[j] = "down"
  BY <1>1 DEF OneAtATime, OneProcess
<1>4. \A a \in Analyses : worker[a].pc = "idle"
  BY <1>1, <1>3 DEF OneAtATime, WorkersHosted
<1>5. QED
  BY <1>1, <1>2, <1>3, <1>4

\* The other steps of a process leave the table alone; they end a worker or
\* leave it where it is.
LEMMA ProcessEffect ==
  ASSUME TypeOK, NEW i \in Instances, Boot(i) \/ Signal(i) \/ StopStep(i) \/ Crash(i)
  PROVE  /\ UNCHANGED <<rows, created, results>>
         /\ \A a \in Analyses : worker'[a].pc \in {worker[a].pc, "idle"}
<1>1. CASE Boot(i) \/ ShutdownDone(i) \/ Exit(i)
  BY <1>1 DEF Boot, ShutdownDone, Exit
<1>2. CASE Signal(i)
  BY <1>2 DEF Signal, TypeOK, WorkerType
<1>3. CASE ShutdownTimeout(i) \/ Crash(i)
  BY <1>3 DEF ShutdownTimeout, Crash, Kill, NoWorker
<1>4. QED
  BY <1>1, <1>2, <1>3 DEF StopStep

-----------------------------------------------------------------------------
(* The refinement, while the database answers what it applies.              *)

\* A worker that has not ended finds its row active, also when it is about to
\* fail it.  A lost answer to Complete would break this.
DrivenIsActive == \A a \in Analyses : Driven(a) => rows[a].status \in Active

LEMMA DrivenIsActiveStep ==
  ASSUME TypeOK, OneAtATime, "lost" \notin Faults, DrivenIsActive, Next
  PROVE  DrivenIsActive'
<1> USE DEF DrivenIsActive, Driven
<1>1. ASSUME NEW a \in Analyses, WorkerStep(a) \/ Deadline(a) PROVE DrivenIsActive'
  <2>1. CASE AdvanceLoading(a) \/ AdvanceAnalyzing(a) \/ AdvanceSaving(a)
    BY <2>1, AdvanceEffect DEF Active, Working
  <2>2. CASE LoadDataset(a) \/ Analyze(a) \/ ToAnomalies(a) \/ Interrupted(a) \/ Deadline(a)
    BY <2>2, CallEffect DEF Working
  <2>3. CASE Complete(a)
    <3>1. worker[a].pc # "idle"
      BY <2>3 DEF Complete
    <3>2. CASE StoreResults(a) /\ EndWorker(a)
      BY <3>2, StoreEffect, EndEffect DEF TypeOK
    <3>3. CASE UNCHANGED rows /\ Move(a, "failing")
      BY <3>1, <3>3, MoveEffect DEF TypeOK
    <3>4. ~ Fault("lost")
      BY DEF Fault
    <3>5. QED
      BY <2>3, <3>2, <3>3, <3>4 DEF Complete
  <2>4. CASE Fail(a)
    <3>1. EndWorker(a) /\ (RecordFailure(a) \/ UNCHANGED rows)
      BY <2>4 DEF Fail
    <3>2. QED
      BY <3>1, RecordFailureEffect, EndEffect DEF TypeOK
  <2>5. QED
    BY <1>1, <2>1, <2>2, <2>3, <2>4 DEF WorkerStep
<1>2. ASSUME NEW r \in Requests, HandlerStep(r) \/ \E i \in Instances : Arrive(r, i) PROVE DrivenIsActive'
  <2>1. CASE Create(r)
    BY <2>1, CreateEffect DEF Active
  <2>2. CASE CheckActive(r) \/ \E i \in Instances : Arrive(r, i)
    BY <2>2 DEF CheckActive, CheckActiveWith, Arrive
  <2>3. QED
    BY <1>2, <2>1, <2>2 DEF HandlerStep
<1>3. ASSUME NEW i \in Instances, Recover(i) PROVE DrivenIsActive'
  BY <1>3, RecoverEffect
<1>4. ASSUME NEW i \in Instances, Boot(i) \/ Signal(i) \/ StopStep(i) \/ Crash(i) PROVE DrivenIsActive'
  BY <1>4, ProcessEffect
<1>5. QED
  BY <1>1, <1>2, <1>3, <1>4 DEF Next

View == [a \in Analyses |-> BoardView(rows[a])]

\* The view of a row that changes within a class, of one that changes class.
LEMMA ViewOfActive == ASSUME NEW row, row.status \in Active PROVE BoardView(row) = "running"
BY DEF BoardView, Active

LEMMA ViewOf ==
  ASSUME NEW row
  PROVE  /\ row.status = "none" => BoardView(row) = "free"
         /\ row.status = "COMPLETED" => BoardView(row) = "done"
         /\ row.status = "FAILED" => BoardView(row) = "failed"
BY DEF BoardView, Active

\* A step of the worker of a row.
LEMMA WorkerImplements ==
  ASSUME TypeOK, OneAtATime, "lost" \notin Faults, DrivenIsActive, NEW a \in Analyses,
         WorkerStep(a) \/ Deadline(a)
  PROVE  Board!Finish(a) \/ Board!Abort(a) \/ (View' = View /\ results' = results)
<1>1. CASE AdvanceLoading(a) \/ AdvanceAnalyzing(a) \/ AdvanceSaving(a)
  <2>1. rows[a].status \in Active
    BY <1>1, AdvanceEffect DEF OneAtATime, WorkingIsActive
  <2>2. rows' = rows \/ rows'[a].status \in Active
    BY <1>1, AdvanceEffect DEF Active
  <2>3. \A b \in Analyses : BoardView(rows'[b]) = BoardView(rows[b])
    BY <1>1, <2>1, <2>2, AdvanceEffect, ViewOfActive
  <2>4. QED
    BY <1>1, <2>3, AdvanceEffect DEF View
<1>2. CASE LoadDataset(a) \/ Analyze(a) \/ ToAnomalies(a) \/ Interrupted(a) \/ Deadline(a)
  BY <1>2, CallEffect DEF View
<1>3. CASE Complete(a)
  <2>1. rows[a].status \in Active
    BY <1>3 DEF Complete, DrivenIsActive, Driven
  <2>2. CASE StoreResults(a)
    <3>1. View[a] = "running" /\ View' = [View EXCEPT ![a] = "done"]
      BY <2>1, <2>2, StoreEffect, ViewOfActive, ViewOf DEF View, TypeOK
    <3>2. QED
      BY <2>2, <3>1 DEF StoreResults, View, Board!Finish, Analyses
  <2>3. CASE UNCHANGED <<rows, results>>
    BY <2>3 DEF View
  <2>4. QED
    BY <1>3, <2>2, <2>3 DEF Complete
<1>4. CASE Fail(a)
  <2>1. rows[a].status \in Active /\ results' = results
    BY <1>4 DEF Fail, DrivenIsActive, Driven
  <2>2. CASE RecordFailure(a)
    <3>1. View[a] = "running" /\ View' = [View EXCEPT ![a] = "failed"]
      BY <2>1, <2>2, RecordFailureEffect, ViewOfActive, ViewOf DEF View, TypeOK
    <3>2. QED
      BY <2>1, <3>1 DEF View, Board!Abort, Analyses
  <2>3. CASE UNCHANGED rows
    BY <2>1, <2>3 DEF View
  <2>4. QED
    BY <1>4, <2>2, <2>3 DEF Fail
<1>5. QED
  BY <1>1, <1>2, <1>3, <1>4 DEF WorkerStep

\* The insertion of a row: the rows before it have ended.
LEMMA CreateImplements ==
  ASSUME TypeOK, OneAtATime, NEW r \in Requests, Create(r)
  PROVE  (\E a \in Analyses : Board!Launch(a)) \/ (View' = View /\ results' = results)
<1>1. CASE UNCHANGED <<rows, created, results, worker, phase>>
  BY <1>1 DEF View
<1>2. CASE ~ UNCHANGED <<rows, created, results, worker, phase>>
  <2> DEFINE n == created + 1
  <2>1. /\ n \in Analyses /\ rows[n].status = "none" /\ rows'[n].status = "PENDING"
        /\ \A b \in Analyses : b # n => rows'[b] = rows[b]
        /\ \A b \in Analyses : rows[b].status \notin Active
        /\ results' = results
    BY <1>2, CreateEffect
  <2>2. \A b \in Analyses : b < n => BoardView(rows[b]) \in {"done", "failed"}
    <3> SUFFICES ASSUME NEW b \in Analyses, b < n PROVE BoardView(rows[b]) \in {"done", "failed"}
      OBVIOUS
    <3>1. ~ (b > created)
      BY DEF TypeOK, RowsType, Analyses
    <3>2. rows[b].status # "none"
      BY <3>1 DEF OneAtATime, IdsInOrder
    <3>3. rows[b].status \in Terminal
      BY <2>1, <3>2 DEF TypeOK, RowsType
    <3>4. QED
      BY <3>3, ViewOf DEF Terminal
  <2>3. View[n] = "free" /\ View' = [View EXCEPT ![n] = "running"]
    <3>1. BoardView(rows[n]) = "free" /\ BoardView(rows'[n]) = "running"
      BY <2>1, ViewOf, ViewOfActive DEF Active
    <3>2. View[n] = "free"
      BY <2>1, <3>1 DEF View
    <3>3. \A b \in Analyses : View'[b] = IF b = n THEN "running" ELSE View[b]
      BY <2>1, <3>1 DEF View
    <3>4. View' = [View EXCEPT ![n] = "running"]
      BY <2>1, <3>3 DEF View
    <3>5. QED
      BY <3>2, <3>4
  <2>4. Board!Launch(n)
    BY <2>1, <2>2, <2>3 DEF View, Board!Launch, Board!Ids, Analyses
  <2>5. QED
    BY <2>1, <2>4
<1>3. QED
  BY <1>1, <1>2

\* The recovery closes the one row that is active, or none.
LEMMA RecoverImplements ==
  ASSUME TypeOK, OneAtATime, NEW i \in Instances, Recover(i)
  PROVE  (\E a \in Analyses : Board!Abort(a)) \/ (View' = View /\ results' = results)
<1>1. results' = results
  BY RecoverEffect
<1>2. CASE rows' = rows
  BY <1>1, <1>2 DEF View
<1>3. CASE CloseInterrupted /\ \A a \in Analyses : rows[a].status \notin Active
  <2>1. \A a \in Analyses : rows'[a] = rows[a]
    BY <1>3 DEF CloseInterrupted
  <2>2. QED
    BY <1>1, <2>1 DEF View
<1>4. ASSUME CloseInterrupted, NEW a \in Analyses, rows[a].status \in Active
      PROVE  Board!Abort(a)
  <2>1. \A b \in Analyses : b # a => rows[b].status \notin Active
    BY <1>4 DEF OneAtATime, AtMostOneActive
  <2>2. /\ rows'[a].status = "FAILED"
        /\ \A b \in Analyses : b # a => rows'[b] = rows[b]
    BY <1>4, <2>1 DEF CloseInterrupted, TypeOK, RowsType
  <2>3. View[a] = "running" /\ View' = [View EXCEPT ![a] = "failed"]
    BY <1>4, <2>2, ViewOf, ViewOfActive DEF View
  <2>4. QED
    BY <1>1, <2>3 DEF View, Board!Abort, Analyses
<1>5. QED
  BY <1>2, <1>3, <1>4, RecoverEffect

LEMMA StepImplements ==
  ASSUME TypeOK, OneAtATime, "lost" \notin Faults, DrivenIsActive, Next
  PROVE  (\E a \in Analyses : Board!Launch(a) \/ Board!Finish(a) \/ Board!Abort(a))
         \/ (View' = View /\ results' = results)
<1>1. CASE \E r \in Requests : CheckActive(r) \/ \E i \in Instances : Arrive(r, i)
  BY <1>1 DEF CheckActive, CheckActiveWith, Arrive, View
<1>2. CASE \E i \in Instances : Boot(i) \/ Signal(i) \/ StopStep(i) \/ Crash(i)
  BY <1>2, ProcessEffect DEF View
<1>3. QED
  BY <1>1, <1>2, WorkerImplements, CreateImplements, RecoverImplements DEF Next, HandlerStep

\* While processes do not overlap and no answer of the database is lost, the job
\* implements the abstract board, whatever calls are refused or cut by a crash.
THEOREM ImplementsBoardHolds ==
  ASSUME Overlap = FALSE, "lost" \notin Faults
  PROVE  Safe => ImplementsBoard
<1>1. Init => DrivenIsActive
  BY DEF Init, DrivenIsActive, Driven, NoWorker
<1>2. TypeOK /\ OneAtATime /\ DrivenIsActive /\ [Next]_vars => DrivenIsActive'
  BY DrivenIsActiveStep DEF vars, DrivenIsActive, Driven
<1>3. Init => Board!BoardInit
  <2> SUFFICES ASSUME Init PROVE Board!BoardInit
    OBVIOUS
  <2>1. \A a \in Analyses : BoardView(rows[a]) = "free"
    BY ViewOf DEF Init
  <2>2. results = {}
    BY DEF Init
  <2>3. QED
    BY <2>1, <2>2 DEF Board!BoardInit, Board!Ids, Analyses
<1>4. TypeOK /\ OneAtATime /\ DrivenIsActive /\ [Next]_vars => [Board!BoardNext]_(Board!boardVars)
  <2>1. ASSUME TypeOK, OneAtATime, DrivenIsActive, Next PROVE [Board!BoardNext]_(Board!boardVars)
    BY <2>1, StepImplements DEF Board!BoardNext, Board!boardVars, Board!Ids, Analyses, View
  <2>2. ASSUME UNCHANGED vars PROVE UNCHANGED Board!boardVars
    BY <2>2 DEF vars, Board!boardVars
  <2>3. QED
    BY <2>1, <2>2
<1>5. QED
  BY <1>1, <1>2, <1>3, <1>4, TypeCorrect, OneAtATimeHolds, PTL
     DEF Safe, ImplementsBoard, Board!BoardSpec

-----------------------------------------------------------------------------
(* What stays active has somebody at it.                                    *)

\* A process that has left the recovery behind, whether it serves or not.
Recovered(i) == phase[i] \in {"serving", "stopping", "draining"}

\* ActiveIsDriven with the processes that drain as well: a row is left without
\* a worker only by a crash, and no process is running then.
DrivenUntilDown ==
    \A a \in Analyses :
        rows[a].status \in Active /\ (\E i \in Instances : Recovered(i)) => Driven(a)

LEMMA DrivenUntilDownStep ==
  ASSUME TypeOK, OneAtATime, Overlap = FALSE, Faults \subseteq {"crash"}, DrivenUntilDown, Next
  PROVE  DrivenUntilDown'
<1> USE DEF DrivenUntilDown, Driven, Recovered
<1>0. "lost" \notin Faults /\ "refused" \notin Faults
  OBVIOUS
<1>1. ASSUME NEW a \in Analyses, WorkerStep(a) \/ Deadline(a) PROVE DrivenUntilDown'
  <2>1. CASE AdvanceLoading(a) \/ AdvanceAnalyzing(a) \/ AdvanceSaving(a)
    BY <2>1, AdvanceEffect
  <2>2. CASE LoadDataset(a) \/ Analyze(a) \/ ToAnomalies(a) \/ Interrupted(a) \/ Deadline(a)
    BY <2>2, CallEffect
  <2>3. CASE Complete(a)
    <3>1. StoreResults(a) /\ EndWorker(a) /\ phase' = phase
      BY <1>0, <2>3 DEF Complete, Fault
    <3>2. QED
      BY <3>1, StoreEffect, EndEffect DEF TypeOK, Active
  <2>4. CASE Fail(a)
    <3>1. RecordFailure(a) /\ EndWorker(a) /\ phase' = phase
      BY <1>0, <2>4 DEF Fail, Fault
    <3>2. QED
      BY <3>1, RecordFailureEffect, EndEffect DEF TypeOK, Active
  <2>5. QED
    BY <1>1, <2>1, <2>2, <2>3, <2>4 DEF WorkerStep
<1>2. ASSUME NEW r \in Requests, HandlerStep(r) \/ \E i \in Instances : Arrive(r, i) PROVE DrivenUntilDown'
  <2>1. CASE Create(r)
    BY <1>0, <2>1, CreateEffect
  <2>2. CASE CheckActive(r) \/ \E i \in Instances : Arrive(r, i)
    BY <2>2 DEF CheckActive, CheckActiveWith, Arrive
  <2>3. QED
    BY <1>2, <2>1, <2>2 DEF HandlerStep
<1>3. ASSUME NEW i \in Instances, Recover(i) PROVE DrivenUntilDown'
  <2>1. CloseInterrupted
    BY <1>0, <1>3 DEF Recover, Fault
  <2>2. \A a \in Analyses : rows'[a].status \notin Active
    BY <2>1 DEF CloseInterrupted, TypeOK, RowsType, Active
  <2>3. QED
    BY <2>2
<1>4. ASSUME NEW i \in Instances, NEW p, SetPhase(i, p)
      PROVE  phase'[i] = p /\ \A j \in Instances : j # i => phase'[j] = phase[j]
  BY <1>4 DEF SetPhase, TypeOK, PhaseType
<1>5. ASSUME NEW i \in Instances, Boot(i) PROVE DrivenUntilDown'
  <2>1. \A j \in Instances : phase'[j] \in {"down", "booting"}
    BY <1>4, <1>5 DEF Boot
  <2>2. QED
    BY <2>1
<1>6. ASSUME NEW i \in Instances, Signal(i) \/ ShutdownDone(i) \/ Exit(i) PROVE DrivenUntilDown'
  <2>1. \A a \in Analyses : worker'[a].pc = worker[a].pc /\ rows'[a] = rows[a]
    BY <1>6 DEF Signal, ShutdownDone, Exit, TypeOK, WorkerType
  <2>2. \A j \in Instances : phase'[j] \in {"serving", "stopping", "draining"}
                              => phase[j] \in {"serving", "stopping", "draining"}
    BY <1>4, <1>6 DEF Signal, ShutdownDone, Exit
  <2>3. QED
    BY <2>1, <2>2
<1>7. ASSUME NEW i \in Instances, ShutdownTimeout(i) \/ Crash(i) PROVE DrivenUntilDown'
  <2>1. \A j \in Instances : phase'[j] = "down"
    BY <1>4, <1>7 DEF ShutdownTimeout, Crash, OneAtATime, OneProcess
  <2>2. QED
    BY <2>1
<1>8. QED
  BY <1>1, <1>2, <1>3, <1>5, <1>6, <1>7 DEF Next, StopStep

\* While processes do not overlap and only crashes happen, no active row is
\* without a worker once a process serves: none blocks the analyses to come.
THEOREM ActiveIsDrivenHolds ==
  ASSUME Overlap = FALSE, Faults \subseteq {"crash"}
  PROVE  Safe => []ActiveIsDriven
<1>1. Init => DrivenUntilDown
  BY DEF Init, DrivenUntilDown, Active
<1>2. TypeOK /\ OneAtATime /\ DrivenUntilDown /\ [Next]_vars => DrivenUntilDown'
  <2>1. ASSUME DrivenUntilDown, UNCHANGED vars PROVE DrivenUntilDown'
    BY <2>1 DEF vars, DrivenUntilDown, Driven, Recovered
  <2>2. QED
    BY <2>1, DrivenUntilDownStep
<1>3. DrivenUntilDown => ActiveIsDriven
  BY DEF DrivenUntilDown, ActiveIsDriven, Driven, Recovered
<1>4. QED
  BY <1>1, <1>2, <1>3, TypeCorrect, OneAtATimeHolds, PTL DEF Safe

-----------------------------------------------------------------------------
(* A step shown as done stays done.                                         *)

\* How far a step is, and the step a worker has written when it makes a call.
Rank(step) ==
    CASE step = "none" -> 0 [] step = "loading_data" -> 1 [] step = "analyzing" -> 2
      [] step = "saving" -> 3 [] step = "completed" -> 4
StepAt ==
    [start |-> "none", load |-> "loading_data", loaded |-> "loading_data", call |-> "analyzing",
     answered |-> "analyzing", convert |-> "saving", commit |-> "saving"]

\* The row of a worker is at the step the worker wrote last, and a row that
\* does not exist is at none.
StepsFollow ==
    \A a \in Analyses :
        /\ worker[a].pc \in Working => rows[a].step = StepAt[worker[a].pc]
        /\ a > created => rows[a].step = "none"

\* The drawer shows as done what comes before the row's step.
LEMMA DoneMeans ==
  ASSUME NEW row, row.step \in StepNames, NEW k \in 1..4
  PROVE  StepStateOf(row, k) = "done" <=> row.status = "COMPLETED" \/ k < Rank(row.step)
<1> DEFINE current == {j \in 1..4 : DrawerSteps[j] = row.step}
<1>1. \A j : j \in current <=> j \in 1..4 /\ j = Rank(row.step)
  <2>1. /\ DrawerSteps[1] = "loading_data" /\ DrawerSteps[2] = "analyzing"
        /\ DrawerSteps[3] = "saving" /\ DrawerSteps[4] = "completed"
    BY DEF DrawerSteps
  <2>2. Rank(row.step) \in 0..4 /\ \A j \in 1..4 : DrawerSteps[j] = row.step <=> j = Rank(row.step)
    BY <2>1 DEF Rank, StepNames
  <2>3. QED
    BY <2>2
<1>2. Rank(row.step) \in 0..4
  BY DEF Rank, StepNames
<1>3. StepStateOf(row, k) =
        IF row.status = "COMPLETED" \/ (\E j \in current : k < j) THEN "done"
        ELSE IF k \notin current THEN "pending"
        ELSE IF row.status = "FAILED" THEN "failed" ELSE "current"
  BY DEF StepStateOf
<1> HIDE DEF current
<1>4. (\E j \in current : k < j) <=> k < Rank(row.step)
  <2>1. ASSUME k < Rank(row.step) PROVE Rank(row.step) \in current
    BY <1>1, <1>2, <2>1
  <2>2. QED
    BY <1>1, <2>1
<1>5. QED
  BY <1>3, <1>4

\* The writes of a worker, for its step.
LEMMA RowSteps ==
  ASSUME RowsType, NEW a \in Analyses
  PROVE  /\ \A step : SetStep(a, step) => rows'[a].step = step
         /\ RecordFailure(a) => rows'[a].step = rows[a].step
BY DEF RowsType, SetStep, RecordFailure

LEMMA AdvanceFollows ==
  ASSUME TypeOK, OneAtATime, StepsFollow, NEW a \in Analyses, NEW from \in Working, NEW to \in Working,
         NEW step, step = StepAt[to], Rank(StepAt[from]) <= Rank(step), Advance(a, from, step, to)
  PROVE  /\ StepsFollow'
         /\ rows'[a].step = rows[a].step \/ Rank(rows[a].step) <= Rank(rows'[a].step)
<1> USE DEF StepsFollow, TypeOK
<1>0. "failing" \notin Working /\ rows[a].step = StepAt[from]
  BY DEF Advance, Working
<1>1. CASE SetStep(a, step)
  <2>1. rows'[a].step = step /\ \A b \in Analyses : b # a => rows'[b] = rows[b]
    BY <1>1, RowSteps, SetStepEffect
  <2>2. Move(a, to) \/ Move(a, "failing")
    BY DEF Advance
  <2>3. worker'[a].pc \in {to, "failing"} /\ \A b \in Analyses : b # a => worker'[b] = worker[b]
    BY <2>2, MoveEffect
  <2>4. created' = created /\ ~ (a > created)
    <3>1. worker[a].pc # "idle"
      BY DEF Advance, Working
    <3>2. QED
      BY <3>1 DEF Advance, OneAtATime, IdsInOrder
  <2>5. QED
    BY <1>0, <2>1, <2>3, <2>4
<1>2. CASE ~ SetStep(a, step)
  <2>1. Move(a, "failing") /\ rows' = rows /\ created' = created
    BY <1>2 DEF Advance
  <2>2. worker'[a].pc = "failing" /\ \A b \in Analyses : b # a => worker'[b] = worker[b]
    BY <2>1, MoveEffect
  <2>3. QED
    BY <1>0, <2>1, <2>2
<1>3. QED
  BY <1>1, <1>2

\* The three writes of a step, as instances of it.
LEMMA AdvancesFollow ==
  ASSUME TypeOK, OneAtATime, StepsFollow, NEW a \in Analyses,
         AdvanceLoading(a) \/ AdvanceAnalyzing(a) \/ AdvanceSaving(a)
  PROVE  /\ StepsFollow'
         /\ rows'[a].step = rows[a].step \/ Rank(rows[a].step) <= Rank(rows'[a].step)
<1>1. {"start", "load", "loaded", "call", "answered", "convert"} \subseteq Working
  BY DEF Working
<1>2. /\ StepAt["start"] = "none" /\ StepAt["load"] = "loading_data"
      /\ StepAt["loaded"] = "loading_data" /\ StepAt["call"] = "analyzing"
      /\ StepAt["answered"] = "analyzing" /\ StepAt["convert"] = "saving"
  BY DEF StepAt
<1>3. /\ Rank("none") <= Rank("loading_data") /\ Rank("loading_data") <= Rank("analyzing")
      /\ Rank("analyzing") <= Rank("saving")
  BY DEF Rank
<1>4. CASE AdvanceLoading(a)
  BY <1>1, <1>2, <1>3, <1>4, AdvanceFollows DEF AdvanceLoading
<1>5. CASE AdvanceAnalyzing(a)
  BY <1>1, <1>2, <1>3, <1>5, AdvanceFollows DEF AdvanceAnalyzing
<1>6. CASE AdvanceSaving(a)
  BY <1>1, <1>2, <1>3, <1>6, AdvanceFollows DEF AdvanceSaving
<1>7. QED
  BY <1>4, <1>5, <1>6

\* Each worker writes its steps in order.
LEMMA WorkerFollows ==
  ASSUME TypeOK, OneAtATime, StepsFollow, NEW a \in Analyses, WorkerStep(a) \/ Deadline(a)
  PROVE  StepsFollow'
<1> USE DEF TypeOK
<1>0. Working = {"start", "load", "loaded", "call", "answered", "convert", "commit"}
  BY DEF Working
<1>1. CASE AdvanceLoading(a) \/ AdvanceAnalyzing(a) \/ AdvanceSaving(a)
  BY <1>1, AdvancesFollow
<1>2. CASE LoadDataset(a) \/ Analyze(a) \/ ToAnomalies(a) \/ Interrupted(a) \/ Deadline(a)
  <2>1. UNCHANGED <<rows, created>> /\ \A b \in Analyses : b # a => worker'[b] = worker[b]
    BY <1>2, CallEffect
  <2>2. worker[a].pc \in Working
    BY <1>2, CallEffect
  <2>3. worker'[a].pc \in Working => StepAt[worker'[a].pc] = StepAt[worker[a].pc]
    <3>1. CASE Deadline(a)
      BY <3>1 DEF Deadline, WorkerType
    <3>2. CASE LoadDataset(a) \/ Analyze(a) \/ ToAnomalies(a) \/ Interrupted(a)
      <4>1. \/ Move(a, "failing")
            \/ Move(a, "loaded") /\ worker[a].pc = "load"
            \/ Move(a, "answered") /\ worker[a].pc = "call"
            \/ Move(a, "commit") /\ worker[a].pc = "convert"
        BY <3>2 DEF LoadDataset, Analyze, ToAnomalies, Interrupted, Call
      <4>2. QED
        BY <1>0, <4>1, MoveEffect DEF StepAt
    <3>3. QED
      BY <1>2, <3>1, <3>2
  <2>4. QED
    BY <2>1, <2>2, <2>3 DEF StepsFollow
<1>3. CASE Complete(a) \/ Fail(a)
  <2>1. /\ worker[a].pc # "idle" /\ created' = created
        /\ EndWorker(a) \/ Move(a, "failing")
        /\ rows' = rows \/ StoreResults(a) \/ RecordFailure(a)
    BY <1>3 DEF Complete, Fail
  <2>2. worker'[a].pc \notin Working /\ \A b \in Analyses : b # a => worker'[b] = worker[b]
    BY <1>0, <2>1, MoveEffect, EndEffect
  <2>3. \A b \in Analyses : b # a => rows'[b] = rows[b]
    BY <2>1, StoreEffect, RecordFailureEffect
  <2>4. ~ (a > created)
    BY <2>1 DEF OneAtATime, IdsInOrder
  <2>5. QED
    BY <2>1, <2>2, <2>3, <2>4 DEF StepsFollow
<1>4. QED
  BY <1>1, <1>2, <1>3 DEF WorkerStep

LEMMA FollowStep ==
  ASSUME TypeOK, OneAtATime, StepsFollow, Next
  PROVE  StepsFollow'
<1> USE DEF TypeOK
<1>1. ASSUME NEW r \in Requests, Create(r) PROVE StepsFollow'
  <2>1. CASE ~ InsertRow
    BY <1>1, <2>1 DEF Create, StepsFollow
  <2>2. CASE InsertRow
    <3>1. created + 1 \in Analyses /\ created \in Nat
      BY <2>2, BoundsAssumption DEF RowsType, InsertRow, Analyses
    <3>2. /\ rows'[created + 1].step = "none" /\ created' = created + 1
          /\ \A b \in Analyses : b # created + 1 => rows'[b] = rows[b]
      BY <2>2, <3>1 DEF InsertRow, RowsType
    <3>3. \/ Spawn(created + 1, request[r].host, phase[request[r].host] = "serving")
          \/ worker' = worker
      BY <1>1 DEF Create
    <3>4. worker[created + 1].pc = "idle"
      BY <3>1 DEF OneAtATime, IdsInOrder
    <3>5. /\ worker'[created + 1].pc \in {"start", "idle"}
          /\ \A b \in Analyses : b # created + 1 => worker'[b] = worker[b]
      BY <3>1, <3>3, <3>4, SpawnEffect
    <3>6. "idle" \notin Working /\ StepAt["start"] = "none"
      BY DEF Working, StepAt
    <3>7. ASSUME NEW b \in Analyses
          PROVE  /\ worker'[b].pc \in Working => rows'[b].step = StepAt[worker'[b].pc]
                 /\ b > created' => rows'[b].step = "none"
      <4>1. CASE b = created + 1
        BY <3>2, <3>5, <3>6, <4>1
      <4>2. CASE b # created + 1
        <5>1. b \in Nat /\ (b > created' => b > created)
          BY <3>1, <3>2, BoundsAssumption DEF Analyses
        <5>2. QED
          BY <3>2, <3>5, <4>2, <5>1 DEF StepsFollow
      <4>3. QED
        BY <4>1, <4>2
    <3>8. QED
      BY <3>7 DEF StepsFollow
  <2>3. QED
    BY <2>1, <2>2
<1>2. ASSUME NEW r \in Requests, CheckActive(r) \/ \E i \in Instances : Arrive(r, i) PROVE StepsFollow'
  BY <1>2 DEF CheckActive, CheckActiveWith, Arrive, StepsFollow
<1>3. ASSUME NEW i \in Instances, Recover(i) PROVE StepsFollow'
  <2>1. \A a \in Analyses : rows'[a].step = rows[a].step
    <3>1. CASE rows' = rows
      BY <3>1
    <3>2. CASE CloseInterrupted
      BY <3>2 DEF CloseInterrupted, RowsType
    <3>3. QED
      BY <1>3, <3>1, <3>2, RecoverEffect
  <2>2. QED
    BY <1>3, <2>1, RecoverEffect DEF StepsFollow
<1>4. ASSUME NEW i \in Instances, Boot(i) \/ Signal(i) \/ StopStep(i) \/ Crash(i) PROVE StepsFollow'
  <2>1. "idle" \notin Working
    BY DEF Working
  <2>2. QED
    BY <1>4, <2>1, ProcessEffect DEF StepsFollow
<1>5. QED
  BY <1>1, <1>2, <1>3, <1>4, WorkerFollows DEF Next, HandlerStep

\* What each step leaves of a row: it is complete, or it is no less advanced
\* and was not complete or still is.
LEMMA RowAdvances ==
  ASSUME TypeOK, OneAtATime, "lost" \notin Faults, DrivenIsActive, StepsFollow, Next, NEW c \in Analyses
  PROVE  \/ rows'[c].status = "COMPLETED"
         \/ /\ rows[c].status # "COMPLETED"
            /\ rows'[c].step = rows[c].step \/ Rank(rows[c].step) <= Rank(rows'[c].step)
<1> USE DEF TypeOK
<1>1. CASE rows'[c] = rows[c]
  BY <1>1
<1>2. ASSUME NEW a \in Analyses, WorkerStep(a) \/ Deadline(a), rows'[c] # rows[c]
      PROVE  \/ rows'[c].status = "COMPLETED"
             \/ /\ rows[c].status # "COMPLETED"
                /\ rows'[c].step = rows[c].step \/ Rank(rows[c].step) <= Rank(rows'[c].step)
  <2>1. CASE AdvanceLoading(a) \/ AdvanceAnalyzing(a) \/ AdvanceSaving(a)
    <3>1. a = c /\ worker[a].pc \in Working
      BY <1>2, <2>1, AdvanceEffect
    <3>2. rows[a].status \in Active
      BY <3>1, OwnRow
    <3>3. rows'[a].step = rows[a].step \/ Rank(rows[a].step) <= Rank(rows'[a].step)
      BY <2>1, AdvancesFollow
    <3>4. QED
      BY <3>1, <3>2, <3>3 DEF Active
  <2>2. CASE LoadDataset(a) \/ Analyze(a) \/ ToAnomalies(a) \/ Interrupted(a) \/ Deadline(a)
    BY <1>2, <2>2, CallEffect
  <2>3. CASE Complete(a)
    <3>1. StoreResults(a) \/ rows' = rows
      BY <2>3 DEF Complete
    <3>2. QED
      BY <1>2, <3>1, StoreEffect
  <2>4. CASE Fail(a)
    <3>1. RecordFailure(a) /\ Driven(a)
      BY <1>2, <2>4 DEF Fail, Driven
    <3>2. a = c /\ rows[a].status \in Active /\ rows'[a].step = rows[a].step
      BY <1>2, <3>1, RecordFailureEffect, RowSteps DEF DrivenIsActive
    <3>3. QED
      BY <3>2 DEF Active
  <2>5. QED
    BY <1>2, <2>1, <2>2, <2>3, <2>4 DEF WorkerStep
<1>3. ASSUME NEW r \in Requests, Create(r), rows'[c] # rows[c]
      PROVE  rows[c].status # "COMPLETED" /\ rows'[c].step = rows[c].step
  <2>1. InsertRow
    BY <1>3 DEF Create
  <2>2. created + 1 \in Analyses /\ created \in Nat
    BY <2>1, BoundsAssumption DEF RowsType, InsertRow, Analyses
  <2>3. c = created + 1 /\ rows'[c].step = "none"
    BY <1>3, <2>1, <2>2 DEF InsertRow, RowsType
  <2>4. rows[c].status = "none" /\ rows[c].step = "none"
    BY <2>2, <2>3 DEF OneAtATime, IdsInOrder, StepsFollow
  <2>5. QED
    BY <2>3, <2>4
<1>4. ASSUME NEW i \in Instances, Recover(i), rows'[c] # rows[c]
      PROVE  rows[c].status # "COMPLETED" /\ rows'[c].step = rows[c].step
  <2>1. CloseInterrupted
    BY <1>4, RecoverEffect
  <2>2. QED
    BY <1>4, <2>1 DEF CloseInterrupted, RowsType, Active
<1>5. ASSUME NEW r \in Requests, CheckActive(r) \/ \E i \in Instances : Arrive(r, i) PROVE rows' = rows
  BY <1>5 DEF CheckActive, CheckActiveWith, Arrive
<1>6. QED
  BY <1>1, <1>2, <1>3, <1>4, <1>5, ProcessEffect DEF Next, HandlerStep

\* While processes do not overlap and no answer of the database is lost, a step
\* that the drawer showed as done stays done: AdvanceAnalysis and FailAnalysis
\* find their row active although they do not ask for it.
THEOREM DoneStaysDoneHolds ==
  ASSUME Overlap = FALSE, "lost" \notin Faults
  PROVE  Safe => DoneStaysDone
<1>1. Init => DrivenIsActive /\ StepsFollow
  BY DEF Init, DrivenIsActive, Driven, NoWorker, StepsFollow, Working
<1>2. TypeOK /\ OneAtATime /\ DrivenIsActive /\ [Next]_vars => DrivenIsActive'
  BY DrivenIsActiveStep DEF vars, DrivenIsActive, Driven
<1>3. TypeOK /\ OneAtATime /\ StepsFollow /\ [Next]_vars => StepsFollow'
  BY FollowStep DEF vars, StepsFollow
<1>4. TypeOK /\ TypeOK' /\ OneAtATime /\ DrivenIsActive /\ StepsFollow /\ [Next]_vars =>
        [\A a \in Analyses, k \in 1..4 :
          StepStateOf(rows[a], k) = "done" => StepStateOf(rows'[a], k) = "done"]_vars
  <2> SUFFICES ASSUME TypeOK, TypeOK', OneAtATime, DrivenIsActive, StepsFollow, Next,
                      NEW a \in Analyses, NEW k \in 1..4, StepStateOf(rows[a], k) = "done"
               PROVE  StepStateOf(rows'[a], k) = "done"
    OBVIOUS
  <2>1. rows[a].step \in StepNames /\ rows'[a].step \in StepNames
    BY DEF TypeOK, RowsType
  <2>2. rows[a].status = "COMPLETED" \/ k < Rank(rows[a].step)
    BY <2>1, DoneMeans
  <2>3. \A step \in StepNames : Rank(step) \in 0..4
    BY DEF StepNames, Rank
  <2>4. rows'[a].status = "COMPLETED" \/ k < Rank(rows'[a].step)
    BY <2>1, <2>2, <2>3, RowAdvances
  <2>5. QED
    BY <2>1, <2>4, DoneMeans
<1>5. QED
  BY <1>1, <1>2, <1>3, <1>4, TypeCorrect, OneAtATimeHolds, PTL DEF Safe, DoneStaysDone

-----------------------------------------------------------------------------
(* Pipeline: the evidence of a meter and what a rule takes of it.           *)

Kinds == ConsumptionKinds \cup VoltageKinds \cup EquipmentKinds
KindOf(k) == evidence[k].signal.kind

\* The evidence of a meter: a list of signals with one shift of level at most.
EvidenceType ==
    /\ \E n \in Nat : DOMAIN evidence = 1..n
    /\ \A k \in DOMAIN evidence : evidence[k].signal \in Signals(Kinds)
    /\ \A k \in DOMAIN evidence : KindOf(k) \in ConsumptionKinds => evidence[k].signal.magnitude >= 25
    /\ \A j, k \in DOMAIN evidence : KindOf(j) = "surge" /\ KindOf(k) = "surge" => j = k

\* The least of a set of positions is one of them.
LEMMA LeastIsIn ==
  ASSUME NEW S \in SUBSET Nat, S # {}
  PROVE  Min(S) \in S
<1>1. PICK x \in S : \A y \in S : <<y, x>> \notin OpToRel(<, Nat)
  BY NatLessThanWellFounded, WFMin
<1>2. OpToRel(<, Nat) = {ss \in Nat \X Nat : ss[1] < ss[2]}
  BY DEF OpToRel
<1>3. \A y \in S : ~ (y < x)
  BY <1>1, <1>2
<1>4. \E m \in S : \A y \in S : m <= y
  BY <1>3
<1>5. QED
  BY <1>4 DEF Min

\* The rules and the matcher of each.
LEMMA TheRules ==
  /\ Len(Rules) = 6
  /\ \A n \in 1..6 :
        \/ n = 1 /\ Rules[n] = "R1" /\ TypeOfRule(Rules[n]) = "data_quality"
        \/ n = 2 /\ Rules[n] = "R2" /\ TypeOfRule(Rules[n]) = "false_positive"
        \/ n = 3 /\ Rules[n] = "R3" /\ TypeOfRule(Rules[n]) = "explainable"
        \/ n \in 4..6 /\ Rules[n] \in {"R4", "R5", "R6"} /\ TypeOfRule(Rules[n]) = "real"
BY DEF Rules, TypeOfRule

LEMMA MatcherOf ==
  ASSUME NEW items
  PROVE  /\ Matcher(Rules[1], items) = MeasurementFault(items)
         /\ Matcher(Rules[2], items) = ScheduledOutage(items)
         /\ Matcher(Rules[3], items) = ExplainedSurge(items)
         /\ Matcher(Rules[4], items) = UnexplainedSurge(items)
         /\ Matcher(Rules[5], items) = UnexplainedDrop(items)
         /\ Matcher(Rules[6], items) = EquipmentFault(items)
BY DEF Rules, Matcher

\* What a match of each rule takes of the items, and with which severity.
Takes(n, items, match) ==
    /\ match.primary \in match.evidence
    /\ match.evidence \subseteq items
    /\ n = 1 => /\ OfKinds(items, ConsumptionKinds) = {}
                /\ KindOf(match.primary) \in VoltageKinds
                /\ match.evidence = OfKinds(items, VoltageKinds) \cup OfKinds(items, EquipmentKinds)
                /\ match.severity = "high"
    /\ n = 2 => /\ KindOf(match.primary) = "drop" /\ IsOutage(evidence[match.primary])
                /\ match.evidence = {match.primary}
                /\ match.severity = "low"
    /\ n = 3 => /\ KindOf(match.primary) = "surge" /\ evidence[match.primary].correlation.explains
                /\ OfKinds(items, {"low_power_factor"}) = {}
                /\ match.evidence = {match.primary} \cup OfKinds(items, {"overcurrent"})
                /\ match.severity = "medium"
    /\ n = 4 => /\ KindOf(match.primary) = "surge"
                /\ match.evidence = {match.primary} \cup OfKinds(items, EquipmentKinds)
    /\ n = 5 => /\ KindOf(match.primary) = "drop"
                /\ match.evidence = {match.primary}
    /\ n = 6 => match.evidence = OfKinds(items, EquipmentKinds)
    /\ n \in 4..6 => match.severity \in {"high", "medium"}

\* What every match is made of.
LEMMA MatchedIsSome ==
  ASSUME NEW candidates, NEW others, NEW severity
  PROVE  Matched(candidates, others, severity) # NoMatch
<1>1. Matched(candidates, others, severity).evidence # NoMatch.evidence
  BY DEF Matched, NoMatch
<1>2. QED
  BY <1>1

LEMMA OfKindsIs ==
  ASSUME NEW items, NEW kinds
  PROVE  OfKinds(items, kinds) = {k \in items : KindOf(k) \in kinds}
BY DEF OfKinds, KindOf

LEMMA RuleTakes ==
  ASSUME NEW items, items \in SUBSET Nat, NEW n \in 1..6, Matcher(Rules[n], items) # NoMatch
  PROVE  Takes(n, items, Matcher(Rules[n], items))
<1>1. CASE n = 1
  <2> DEFINE voltage == OfKinds(items, VoltageKinds)
             others == voltage \cup OfKinds(items, EquipmentKinds)
  <2>1. /\ Matcher(Rules[n], items) = Matched(voltage, others, "high")
        /\ voltage # {} /\ OfKinds(items, ConsumptionKinds) = {}
    BY <1>1, MatcherOf DEF MeasurementFault
  <2>2. voltage \subseteq items /\ others \subseteq items
        /\ \A k \in voltage : KindOf(k) \in VoltageKinds
    BY OfKindsIs
  <2> HIDE DEF voltage, others
  <2>3. QED
    <3> DEFINE match == Matched(voltage, others, "high")
    <3>0. match = Matched(voltage, others, "high") /\ voltage \in SUBSET Nat
      BY <2>2
    <3> HIDE DEF match
    <3>1. match.primary \in voltage /\ match.evidence = {match.primary} \cup others /\ match.severity = "high"
      BY <2>1, <3>0, LeastIsIn DEF Matched
    <3>2. match.evidence = others
      BY <3>1 DEF others
    <3>3. Takes(1, items, match)
      BY <2>1, <2>2, <3>1, <3>2 DEF Takes, others, voltage
    <3>4. QED
      BY <1>1, <2>1, <3>3 DEF match
<1>2. CASE n = 2
  <2> DEFINE outages == {k \in OfKinds(items, {"drop"}) : IsOutage(evidence[k])}
             match == Matched(outages, {}, "low")
  <2>1. Matcher(Rules[n], items) = match /\ outages # {}
    BY <1>2, MatcherOf DEF ScheduledOutage
  <2>2. \A k \in outages : k \in items /\ KindOf(k) = "drop" /\ IsOutage(evidence[k])
    BY OfKindsIs
  <2> HIDE DEF outages
  <2>0. match = Matched(outages, {}, "low") /\ outages \in SUBSET Nat
    BY <2>2
  <2> HIDE DEF match
  <2>3. match.primary \in outages /\ match.evidence = {match.primary} /\ match.severity = "low"
    BY <2>0, <2>1, LeastIsIn DEF Matched
  <2>4. Takes(2, items, match)
    BY <2>2, <2>3 DEF Takes
  <2>5. QED
    BY <1>2, <2>1, <2>4
<1>3. CASE n = 3
  <2> DEFINE explained == {k \in OfKinds(items, {"surge"}) : evidence[k].correlation.explains}
             others == OfKinds(items, {"overcurrent"})
             match == Matched(explained, others, "medium")
  <2>1. /\ Matcher(Rules[n], items) = match /\ explained # {}
        /\ OfKinds(items, {"low_power_factor"}) = {}
    BY <1>3, MatcherOf DEF ExplainedSurge
  <2>2. /\ \A k \in explained : k \in items /\ KindOf(k) = "surge" /\ evidence[k].correlation.explains
        /\ others \subseteq items
    BY OfKindsIs
  <2> HIDE DEF explained
  <2>0. match = Matched(explained, others, "medium") /\ explained \in SUBSET Nat
    BY <2>2
  <2> HIDE DEF match
  <2>3. match.primary \in explained /\ match.evidence = {match.primary} \cup others /\ match.severity = "medium"
    BY <2>0, <2>1, LeastIsIn DEF Matched
  <2>4. Takes(3, items, match)
    BY <2>1, <2>2, <2>3 DEF Takes
  <2>5. QED
    BY <1>3, <2>1, <2>4
<1>4. CASE n = 4
  <2> DEFINE surges == OfKinds(items, {"surge"})
             others == OfKinds(items, EquipmentKinds)
             severity == IF others # {} \/ evidence[Min(surges)].signal.magnitude >= 50 THEN "high" ELSE "medium"
             match == Matched(surges, others, severity)
  <2>1. Matcher(Rules[n], items) = match /\ surges # {}
    BY <1>4, MatcherOf DEF UnexplainedSurge
  <2>2. /\ \A k \in surges : k \in items /\ KindOf(k) = "surge"
        /\ others \subseteq items /\ severity \in {"high", "medium"}
    BY OfKindsIs
  <2> HIDE DEF surges, severity
  <2>0. match = Matched(surges, others, severity) /\ surges \in SUBSET Nat
    BY <2>2
  <2> HIDE DEF match
  <2>3. match.primary \in surges /\ match.evidence = {match.primary} \cup others /\ match.severity = severity
    BY <2>0, <2>1, LeastIsIn DEF Matched
  <2>4. Takes(4, items, match)
    BY <2>2, <2>3 DEF Takes
  <2>5. QED
    BY <1>4, <2>1, <2>4
<1>5. CASE n = 5
  <2> DEFINE drops == OfKinds(items, {"drop"})
             severity == IF evidence[Min(drops)].signal.end = NotEnded THEN "high" ELSE "medium"
             match == Matched(drops, {}, severity)
  <2>1. Matcher(Rules[n], items) = match /\ drops # {}
    BY <1>5, MatcherOf DEF UnexplainedDrop
  <2>2. (\A k \in drops : k \in items /\ KindOf(k) = "drop") /\ severity \in {"high", "medium"}
    BY OfKindsIs
  <2> HIDE DEF drops, severity
  <2>0. match = Matched(drops, {}, severity) /\ drops \in SUBSET Nat
    BY <2>2
  <2> HIDE DEF match
  <2>3. match.primary \in drops /\ match.evidence = {match.primary} /\ match.severity = severity
    BY <2>0, <2>1, LeastIsIn DEF Matched
  <2>4. Takes(5, items, match)
    BY <2>2, <2>3 DEF Takes
  <2>5. QED
    BY <1>5, <2>1, <2>4
<1>6. CASE n = 6
  <2> DEFINE equipment == OfKinds(items, EquipmentKinds)
             match == Matched(equipment, equipment, "medium")
  <2>1. Matcher(Rules[n], items) = match /\ equipment # {}
    BY <1>6, MatcherOf DEF EquipmentFault
  <2>2. equipment \subseteq items
    BY OfKindsIs
  <2>0. match = Matched(equipment, equipment, "medium") /\ equipment \in SUBSET Nat
    BY <2>2
  <2> HIDE DEF match
  <2>3. match.primary \in equipment /\ match.evidence = {match.primary} \cup equipment /\ match.severity = "medium"
    BY <2>0, <2>1, LeastIsIn DEF Matched
  <2>4. Takes(6, items, match)
    BY <2>2, <2>3 DEF Takes
  <2>5. QED
    BY <1>6, <2>1, <2>4
<1>7. QED
  BY <1>1, <1>2, <1>3, <1>4, <1>5, <1>6

\* What is left when a rule does not match.
LEMMA RuleLeaves ==
  ASSUME NEW items, items \in SUBSET Nat, NEW n \in 1..6, Matcher(Rules[n], items) = NoMatch
  PROVE  /\ n = 1 => (\A k \in items : KindOf(k) \notin VoltageKinds) \/ (\E k \in items : KindOf(k) \in ConsumptionKinds)
         /\ n = 2 => \A k \in items : KindOf(k) = "drop" => ~ IsOutage(evidence[k])
         /\ n = 3 => \/ \E k \in items : KindOf(k) = "low_power_factor"
                     \/ \A k \in items : KindOf(k) = "surge" => ~ evidence[k].correlation.explains
         /\ n = 4 => \A k \in items : KindOf(k) # "surge"
         /\ n = 5 => \A k \in items : KindOf(k) # "drop"
         /\ n = 6 => \A k \in items : KindOf(k) \notin EquipmentKinds
<1>1. CASE n = 1
  <2>1. OfKinds(items, VoltageKinds) = {} \/ OfKinds(items, ConsumptionKinds) # {}
    BY <1>1, MatcherOf, MatchedIsSome DEF MeasurementFault
  <2>2. \/ \A k \in items : KindOf(k) \notin VoltageKinds
        \/ \E k \in items : KindOf(k) \in ConsumptionKinds
    BY <2>1, OfKindsIs
  <2>3. QED
    BY <1>1, <2>2
<1>2. CASE n = 2
  <2>1. {k \in OfKinds(items, {"drop"}) : IsOutage(evidence[k])} = {}
    BY <1>2, MatcherOf, MatchedIsSome DEF ScheduledOutage
  <2>2. QED
    BY <1>2, <2>1, OfKindsIs
<1>3. CASE n = 3
  <2>1. \/ OfKinds(items, {"low_power_factor"}) # {}
        \/ {k \in OfKinds(items, {"surge"}) : evidence[k].correlation.explains} = {}
    BY <1>3, MatcherOf, MatchedIsSome DEF ExplainedSurge
  <2>2. \/ \E k \in items : KindOf(k) = "low_power_factor"
        \/ \A k \in items : KindOf(k) = "surge" => ~ evidence[k].correlation.explains
    BY <2>1, OfKindsIs
  <2>3. QED
    BY <1>3, <2>2
<1>4. CASE n = 4
  <2>1. OfKinds(items, {"surge"}) = {}
    BY <1>4, MatcherOf, MatchedIsSome DEF UnexplainedSurge
  <2>2. QED
    BY <1>4, <2>1, OfKindsIs
<1>5. CASE n = 5
  <2>1. OfKinds(items, {"drop"}) = {}
    BY <1>5, MatcherOf, MatchedIsSome DEF UnexplainedDrop
  <2>2. QED
    BY <1>5, <2>1, OfKindsIs
<1>6. CASE n = 6
  <2>1. OfKinds(items, EquipmentKinds) = {}
    BY <1>6, MatcherOf, MatchedIsSome DEF EquipmentFault
  <2>2. QED
    BY <1>6, <2>1, OfKindsIs
<1>7. QED
  BY <1>1, <1>2, <1>3, <1>4, <1>5, <1>6

-----------------------------------------------------------------------------
(* The verdicts.                                                            *)

\* What the rules make of a signal, whatever the others: the table where a row is
\* about it; R6 for an equipment signal beside a drop; nothing for a voltage
\* signal beside a change of consumption.
RuleFor(item) ==
    LET kind == item.signal.kind
        healthy == ExplainedSurgePresent /\ ~ Present({"low_power_factor"})
        recovered == item.signal.end # NotEnded /\ item.correlation.duration # "differs"
    IN  CASE kind \in VoltageKinds -> IF Present(ConsumptionKinds) THEN "none" ELSE "R1"
          [] kind = "surge" -> IF healthy THEN "R3" ELSE "R4"
          [] kind = "drop" -> IF item.correlation.explains /\ recovered THEN "R2" ELSE "R5"
          [] kind \in EquipmentKinds ->
                IF Present({"surge"}) THEN IF healthy THEN "R3" ELSE "R4"
                ELSE IF Present(VoltageKinds) /\ ~ Present(ConsumptionKinds) THEN "R1" ELSE "R6"

Verdict(k) == RuleFor(evidence[k])
Some(kinds) == \E k \in DOMAIN evidence : KindOf(k) \in kinds
Healthy ==
    /\ \E k \in DOMAIN evidence : KindOf(k) = "surge" /\ evidence[k].correlation.explains
    /\ ~ Some({"low_power_factor"})

\* The verdicts, kind by kind.
LEMMA VerdictIs ==
  ASSUME EvidenceType, NEW k \in DOMAIN evidence
  PROVE  /\ KindOf(k) \in VoltageKinds => Verdict(k) = IF Some(ConsumptionKinds) THEN "none" ELSE "R1"
         /\ KindOf(k) = "surge" => Verdict(k) = IF Healthy THEN "R3" ELSE "R4"
         /\ KindOf(k) = "drop" => Verdict(k) = IF IsOutage(evidence[k]) THEN "R2" ELSE "R5"
         /\ KindOf(k) \in EquipmentKinds =>
              Verdict(k) = IF Some({"surge"}) THEN IF Healthy THEN "R3" ELSE "R4"
                           ELSE IF Some(VoltageKinds) /\ ~ Some(ConsumptionKinds) THEN "R1" ELSE "R6"
         /\ KindOf(k) \in VoltageKinds \cup {"surge", "drop"} \cup EquipmentKinds
<1>1. \A kinds : Present(kinds) <=> Some(kinds)
  BY OfKindsIs DEF Present, Some
<1>2. Healthy <=> ExplainedSurgePresent /\ ~ Present({"low_power_factor"})
  BY <1>1, OfKindsIs DEF Healthy, ExplainedSurgePresent
<1>3. KindOf(k) \in VoltageKinds \cup {"surge", "drop"} \cup EquipmentKinds
  BY DEF EvidenceType, KindOf, Signals, Kinds, ConsumptionKinds
<1>4. KindOf(k) \in VoltageKinds => Verdict(k) = IF Some(ConsumptionKinds) THEN "none" ELSE "R1"
  BY <1>1 DEF Verdict, RuleFor, KindOf, VoltageKinds, EquipmentKinds
<1>5. KindOf(k) = "surge" => Verdict(k) = IF Healthy THEN "R3" ELSE "R4"
  BY <1>2 DEF Verdict, RuleFor, KindOf, VoltageKinds, EquipmentKinds
<1>6. KindOf(k) = "drop" => Verdict(k) = IF IsOutage(evidence[k]) THEN "R2" ELSE "R5"
  BY DEF Verdict, RuleFor, KindOf, VoltageKinds, EquipmentKinds, IsOutage
<1>7. KindOf(k) \in EquipmentKinds =>
        Verdict(k) = IF Some({"surge"}) THEN IF Healthy THEN "R3" ELSE "R4"
                     ELSE IF Some(VoltageKinds) /\ ~ Some(ConsumptionKinds) THEN "R1" ELSE "R6"
  BY <1>1, <1>2 DEF Verdict, RuleFor, KindOf, VoltageKinds, EquipmentKinds
<1>8. QED
  BY <1>3, <1>4, <1>5, <1>6, <1>7

\* The position of a rule, and of no rule.
Turn(r) ==
    CASE r = "R1" -> 1 [] r = "R2" -> 2 [] r = "R3" -> 3
      [] r = "R4" -> 4 [] r = "R5" -> 5 [] r = "R6" -> 6 [] r = "none" -> 9

\* The rules have reported what the table gives to those before the one being
\* tried, and nothing of those after it; of the one being tried, all or nothing,
\* unless it is a rule for one drop at a time.
Reported ==
    \A k \in DOMAIN evidence :
        /\ k \in remaining => Turn(Verdict(k)) >= rule
        /\ Turn(Verdict(k)) > rule => k \in remaining
        /\ \A j \in DOMAIN evidence :
              Verdict(j) = Verdict(k) /\ Verdict(k) \notin {"R2", "R5"} => (j \in remaining <=> k \in remaining)
        /\ k \notin remaining =>
              \E i \in DOMAIN findings : findings[i].rule = Verdict(k) /\ Uses(findings[i], k)

LEMMA TurnIs ==
  /\ \A n \in 1..6 : Turn(Rules[n]) = n
  /\ \A n \in 1..6 : \A r \in {"R1", "R2", "R3", "R4", "R5", "R6", "none"} : Turn(r) = n => r = Rules[n]
  /\ \A r \in {"R1", "R2", "R3", "R4", "R5", "R6", "none"} : Turn(r) \in 1..6 \/ (Turn(r) = 9 /\ r = "none")
BY DEF Turn, Rules

LEMMA VerdictType ==
  ASSUME EvidenceType, NEW k \in DOMAIN evidence
  PROVE  Verdict(k) \in {"R1", "R2", "R3", "R4", "R5", "R6", "none"}
BY VerdictIs DEF VoltageKinds, EquipmentKinds

\* A match takes what the table gives to its rule: nothing else, and all of it
\* that there is, but for the drops, which are taken one at a time.
LEMMA MatchIsTheTable ==
  ASSUME EvidenceType, Reported, remaining \subseteq DOMAIN evidence, rule \in 1..6,
         NEW match, Takes(rule, remaining, match)
  PROVE  /\ \A k \in match.evidence : Verdict(k) = Rules[rule]
         /\ rule \notin {2, 5} => \A k \in DOMAIN evidence : Verdict(k) = Rules[rule] => k \in match.evidence
<1>0. /\ match.primary \in match.evidence /\ match.evidence \subseteq remaining
      /\ \A k \in match.evidence : k \in DOMAIN evidence
  BY DEF Takes
<1>1. ASSUME \A k \in match.evidence : Verdict(k) = Rules[rule], rule \notin {2, 5},
             NEW k \in DOMAIN evidence, Verdict(k) = Rules[rule]
      PROVE  k \in remaining
  <2>1. Verdict(match.primary) = Rules[rule] /\ match.primary \in remaining
    BY <1>0, <1>1
  <2>2. Rules[rule] \notin {"R2", "R5"}
    BY <1>1, TurnIs DEF Rules
  <2>3. QED
    BY <1>0, <1>1, <2>1, <2>2 DEF Reported
<1>2. \A k \in DOMAIN evidence : Turn(Verdict(k)) > rule => k \in remaining
  BY DEF Reported
<1>3. CASE rule = 1
  <2>1. \A k \in DOMAIN evidence : KindOf(k) \notin ConsumptionKinds
    <3>1. ASSUME NEW k \in DOMAIN evidence, KindOf(k) \in ConsumptionKinds PROVE FALSE
      <4>1. Verdict(k) \in {"R2", "R3", "R4", "R5"}
        BY <3>1, VerdictIs DEF ConsumptionKinds
      <4>2. Turn(Verdict(k)) > rule
        BY <1>3, <4>1 DEF Turn
      <4>3. k \in OfKinds(remaining, ConsumptionKinds)
        BY <1>2, <3>1, <4>2, OfKindsIs
      <4>4. QED
        BY <1>3, <4>3 DEF Takes
    <3>2. QED
      BY <3>1
  <2>2. ~ Some(ConsumptionKinds) /\ ~ Some({"surge"}) /\ Some(VoltageKinds)
    BY <1>0, <1>3, <2>1 DEF Some, Takes, ConsumptionKinds
  <2>3. \A k \in remaining :
           k \in match.evidence <=> KindOf(k) \in VoltageKinds \/ KindOf(k) \in EquipmentKinds
    BY <1>3, OfKindsIs DEF Takes
  <2>4. \A k \in DOMAIN evidence : Verdict(k) = "R1"
    BY <2>1, <2>2, VerdictIs DEF ConsumptionKinds
  <2>5. \A k \in remaining : k \in match.evidence
    BY <2>1, <2>3, VerdictIs DEF ConsumptionKinds
  <2>6. Rules[rule] = "R1"
    BY <1>3 DEF Rules
  <2>7. QED
    BY <1>0, <1>1, <2>4, <2>5, <2>6
<1>4. CASE rule = 2
  <2>1. Verdict(match.primary) = "R2" /\ match.evidence = {match.primary}
    BY <1>0, <1>4, VerdictIs DEF Takes
  <2>2. QED
    BY <1>4, <2>1 DEF Rules
<1>5. CASE rule = 3
  <2>1. /\ KindOf(match.primary) = "surge" /\ evidence[match.primary].correlation.explains
        /\ \A k \in remaining : k \in match.evidence <=> k = match.primary \/ KindOf(k) = "overcurrent"
        /\ \A k \in remaining : KindOf(k) # "low_power_factor"
    BY <1>0, <1>5, OfKindsIs DEF Takes
  <2>2. Some({"surge"})
    BY <1>0, <2>1 DEF Some
  <2>3. Healthy
    <3>1. ASSUME NEW k \in DOMAIN evidence, KindOf(k) = "low_power_factor" PROVE FALSE
      <4>1. ~ Healthy
        BY <3>1 DEF Healthy, Some
      <4>2. Verdict(k) = "R4"
        BY <2>2, <3>1, <4>1, VerdictIs DEF EquipmentKinds
      <4>3. Turn(Verdict(k)) > rule
        BY <1>5, <4>2 DEF Turn
      <4>4. QED
        BY <1>2, <2>1, <3>1, <4>3
    <3>2. QED
      BY <1>0, <2>1, <3>1 DEF Healthy, Some
  <2>4. \A k \in DOMAIN evidence : KindOf(k) # "low_power_factor"
    BY <2>3 DEF Healthy, Some
  <2>5. \A k \in DOMAIN evidence : Verdict(k) = "R3" <=> KindOf(k) = "surge" \/ KindOf(k) \in EquipmentKinds
    BY <2>2, <2>3, VerdictIs DEF VoltageKinds, EquipmentKinds
  <2>6. \A k \in DOMAIN evidence : KindOf(k) = "surge" => k = match.primary
    BY <1>0, <2>1 DEF EvidenceType
  <2>7. Rules[rule] = "R3"
    BY <1>5 DEF Rules
  <2>8. \A k \in match.evidence : Verdict(k) = "R3"
    BY <1>0, <2>1, <2>5 DEF EquipmentKinds
  <2>9. \A k \in remaining : Verdict(k) = "R3" => k \in match.evidence
    BY <1>0, <2>1, <2>4, <2>5, <2>6 DEF EquipmentKinds
  <2>10. QED
    BY <1>1, <2>7, <2>8, <2>9
<1>6. CASE rule = 4
  <2>1. /\ KindOf(match.primary) = "surge"
        /\ \A k \in remaining : k \in match.evidence <=> k = match.primary \/ KindOf(k) \in EquipmentKinds
    BY <1>0, <1>6, OfKindsIs DEF Takes
  <2>2. Some({"surge"})
    BY <1>0, <2>1 DEF Some
  <2>3. ~ Healthy
    <3>1. Turn(Verdict(match.primary)) >= 4
      BY <1>0, <1>6 DEF Reported
    <3>2. Verdict(match.primary) # "R3"
      BY <3>1 DEF Turn
    <3>3. QED
      BY <1>0, <2>1, <3>2, VerdictIs
  <2>5. \A k \in DOMAIN evidence : Verdict(k) = "R4" <=> KindOf(k) = "surge" \/ KindOf(k) \in EquipmentKinds
    BY <2>2, <2>3, VerdictIs DEF VoltageKinds, EquipmentKinds
  <2>6. \A k \in DOMAIN evidence : KindOf(k) = "surge" => k = match.primary
    BY <1>0, <2>1 DEF EvidenceType
  <2>7. Rules[rule] = "R4"
    BY <1>6 DEF Rules
  <2>8. QED
    BY <1>0, <1>1, <2>1, <2>5, <2>6, <2>7
<1>7. CASE rule = 5
  <2>1. Turn(Verdict(match.primary)) >= 5
    BY <1>0, <1>7 DEF Reported
  <2>2. Verdict(match.primary) # "R2"
    BY <2>1 DEF Turn
  <2>3. Verdict(match.primary) = "R5" /\ match.evidence = {match.primary}
    BY <1>0, <1>7, <2>2, VerdictIs DEF Takes
  <2>4. QED
    BY <1>7, <2>3 DEF Rules
<1>8. CASE rule = 6
  <2>1. \A k \in remaining : k \in match.evidence <=> KindOf(k) \in EquipmentKinds
    BY <1>0, <1>8, OfKindsIs DEF Takes
  <2>2. ASSUME NEW k \in remaining PROVE Verdict(k) \in {"R6", "none"}
    <3>1. Turn(Verdict(k)) >= 6
      BY <1>8, <2>2 DEF Reported
    <3>2. QED
      BY <3>1, <2>2, VerdictType DEF Turn
  <2>3. \A k \in DOMAIN evidence : Verdict(k) = "R6" => KindOf(k) \in EquipmentKinds
    BY VerdictIs
  <2>4. \A k \in DOMAIN evidence : KindOf(k) \in EquipmentKinds => Verdict(k) # "none"
    BY VerdictIs
  <2>5. Rules[rule] = "R6"
    BY <1>8 DEF Rules
  <2>6. QED
    BY <1>0, <1>1, <2>1, <2>2, <2>3, <2>4, <2>5
<1>9. QED
  BY <1>3, <1>4, <1>5, <1>6, <1>7, <1>8

\* A rule that does not match has nothing left of what the table gives to it.
LEMMA NoMatchIsDone ==
  ASSUME EvidenceType, Reported, remaining \subseteq DOMAIN evidence, rule \in 1..6,
         Matcher(Rules[rule], remaining) = NoMatch,
         NEW k \in remaining
  PROVE  Verdict(k) # Rules[rule]
<1> SUFFICES ASSUME Verdict(k) = Rules[rule] PROVE FALSE
  OBVIOUS
<1>0. remaining \in SUBSET Nat /\ k \in DOMAIN evidence
  BY DEF EvidenceType
<1>1. ASSUME NEW j \in DOMAIN evidence, Verdict(j) = Rules[rule], rule \notin {2, 5}
      PROVE  j \in remaining
  <2>1. Rules[rule] \notin {"R2", "R5"}
    BY <1>1, TurnIs DEF Rules
  <2>2. QED
    BY <1>0, <1>1, <2>1 DEF Reported
<1>2. \A j \in DOMAIN evidence : KindOf(j) \in VoltageKinds \cup {"surge", "drop"} \cup EquipmentKinds
  BY VerdictIs
<1>3. CASE rule = 1
  <2>1. Verdict(k) = "R1"
    BY <1>3 DEF Rules
  <2>2. Some(VoltageKinds) /\ ~ Some(ConsumptionKinds)
    BY <1>0, <2>1, VerdictIs DEF Some
  <2>3. PICK j \in DOMAIN evidence : KindOf(j) \in VoltageKinds
    BY <2>2 DEF Some
  <2>4. j \in remaining
    BY <1>1, <1>3, <2>1, <2>2, <2>3, VerdictIs
  <2>5. QED
    BY <1>0, <1>3, <2>2, <2>3, <2>4, RuleLeaves DEF Some
<1>4. CASE rule = 2
  <2>1. Verdict(k) = "R2"
    BY <1>4 DEF Rules
  <2>2. KindOf(k) = "drop" /\ IsOutage(evidence[k])
    BY <1>0, <2>1, VerdictIs
  <2>3. QED
    BY <1>0, <1>4, <2>2, RuleLeaves
<1>5. CASE rule = 3
  <2>1. Verdict(k) = "R3"
    BY <1>5 DEF Rules
  <2>2. Healthy
    BY <1>0, <2>1, VerdictIs
  <2>3. PICK j \in DOMAIN evidence : KindOf(j) = "surge" /\ evidence[j].correlation.explains
    BY <2>2 DEF Healthy
  <2>4. j \in remaining
    BY <1>1, <1>5, <2>1, <2>2, <2>3, VerdictIs
  <2>5. \A i \in remaining : KindOf(i) # "low_power_factor"
    BY <2>2 DEF Healthy, Some
  <2>6. QED
    BY <1>0, <1>5, <2>3, <2>4, <2>5, RuleLeaves
<1>6. CASE rule = 4
  <2>1. Verdict(k) = "R4"
    BY <1>6 DEF Rules
  <2>2. ~ Healthy /\ Some({"surge"})
    BY <1>0, <2>1, VerdictIs DEF Some
  <2>3. PICK j \in DOMAIN evidence : KindOf(j) = "surge"
    BY <2>2 DEF Some
  <2>4. j \in remaining
    BY <1>1, <1>6, <2>1, <2>2, <2>3, VerdictIs
  <2>5. QED
    BY <1>0, <1>6, <2>3, <2>4, RuleLeaves
<1>7. CASE rule = 5
  <2>1. Verdict(k) = "R5"
    BY <1>7 DEF Rules
  <2>2. KindOf(k) = "drop"
    BY <1>0, <2>1, VerdictIs
  <2>3. QED
    BY <1>0, <1>7, <2>2, RuleLeaves
<1>8. CASE rule = 6
  <2>1. Verdict(k) = "R6"
    BY <1>8 DEF Rules
  <2>2. KindOf(k) \in EquipmentKinds
    BY <1>0, <2>1, VerdictIs
  <2>3. QED
    BY <1>0, <1>8, <2>2, RuleLeaves
<1>9. QED
  BY <1>3, <1>4, <1>5, <1>6, <1>7, <1>8

-----------------------------------------------------------------------------
(* The evidence of every meter, and what its signals can be.                *)

Fine(list) ==
    /\ list \in Seq(Signals(Kinds))
    /\ \A i \in DOMAIN list : list[i].kind \in ConsumptionKinds => list[i].magnitude >= 25
    /\ \A i, j \in DOMAIN list : list[i].kind = "surge" /\ list[j].kind = "surge" => i = j
WithoutSurge(list) ==
    /\ list \in Seq(Signals(Kinds))
    /\ \A i \in DOMAIN list :
          list[i].kind # "surge" /\ (list[i].kind \in ConsumptionKinds => list[i].magnitude >= 25)

LEMMA ConcatIs ==
  ASSUME NEW S, NEW x \in Seq(S), NEW y \in Seq(S)
  PROVE  /\ x \o y \in Seq(S)
         /\ \A i \in DOMAIN (x \o y) : \/ i \in DOMAIN x /\ (x \o y)[i] = x[i]
                                       \/ i - Len(x) \in DOMAIN y /\ (x \o y)[i] = y[i - Len(x)]
OBVIOUS

LEMMA FineGrows ==
  ASSUME NEW x, NEW y, Fine(x), WithoutSurge(y)
  PROVE  Fine(x \o y)
<1>1. x \in Seq(Signals(Kinds)) /\ y \in Seq(Signals(Kinds))
  BY DEF Fine, WithoutSurge
<1>2. /\ x \o y \in Seq(Signals(Kinds))
      /\ \A i \in DOMAIN (x \o y) : \/ i \in DOMAIN x /\ (x \o y)[i] = x[i]
                                    \/ i - Len(x) \in DOMAIN y /\ (x \o y)[i] = y[i - Len(x)]
  BY <1>1, ConcatIs
<1> DEFINE z == x \o y
<1>3. \A i \in DOMAIN z : z[i].kind \in ConsumptionKinds => z[i].magnitude >= 25
  BY <1>2 DEF Fine, WithoutSurge
<1>4. \A i \in DOMAIN z : z[i].kind = "surge" => i \in DOMAIN x /\ z[i] = x[i]
  BY <1>2 DEF WithoutSurge
<1>5. \A i, j \in DOMAIN z : z[i].kind = "surge" /\ z[j].kind = "surge" => i = j
  BY <1>4 DEF Fine
<1>6. QED
  BY <1>2, <1>3, <1>5 DEF Fine

LEMMA WiderKinds ==
  ASSUME NEW kinds \in SUBSET Kinds, NEW list \in Seq(Signals(kinds))
  PROVE  list \in Seq(Signals(Kinds)) /\ \A i \in DOMAIN list : list[i].kind \in kinds
<1>1. \A s \in Signals(kinds) : s \in Signals(Kinds) /\ s.kind \in kinds
  BY DEF Signals
<1>2. list \in [1..Len(list) -> Signals(kinds)] /\ DOMAIN list = 1..Len(list) /\ Len(list) \in Nat
  OBVIOUS
<1>3. list \in [1..Len(list) -> Signals(Kinds)]
  BY <1>1, <1>2
<1>4. list \in Seq(Signals(Kinds))
  BY <1>2, <1>3
<1>5. QED
  BY <1>1, <1>2, <1>4

LEMMA InitEvidence == ClassifyInit => EvidenceType
<1> SUFFICES ASSUME ClassifyInit PROVE EvidenceType
  OBVIOUS
<1>1. PICK s \in Surges, d \in Drops, v \in Voltages, p \in PowerFactors, o \in Overcurrents, e \in EventLists :
         evidence = [i \in DOMAIN (s \o d \o v \o p \o o) |->
                       [signal |-> (s \o d \o v \o p \o o)[i],
                        correlation |-> Correlate((s \o d \o v \o p \o o)[i], e)]]
  BY DEF ClassifyInit
<1>2. Fine(s)
  <2>1. s \in Seq(Signals({"surge"})) /\ Len(s) <= 1 /\ \A i \in DOMAIN s : s[i].magnitude >= 25
    BY ConsumptionAssumption
  <2>2. s \in Seq(Signals(Kinds))
    <3>1. {"surge"} \in SUBSET Kinds
      BY DEF Kinds, ConsumptionKinds
    <3>2. QED
      BY <2>1, <3>1, WiderKinds
  <2>3. \A i \in DOMAIN s : i = 1
    BY <2>1
  <2>4. QED
    BY <2>1, <2>2, <2>3 DEF Fine
<1>3. WithoutSurge(d)
  <2>1. d \in Seq(Signals({"drop"})) /\ \A i \in DOMAIN d : d[i].magnitude >= 50
    BY ConsumptionAssumption
  <2>2. d \in Seq(Signals(Kinds)) /\ \A i \in DOMAIN d : d[i].kind = "drop"
    <3>1. {"drop"} \in SUBSET Kinds
      BY DEF Kinds, ConsumptionKinds
    <3>2. QED
      BY <2>1, <3>1, WiderKinds
  <2>3. \A i \in DOMAIN d : d[i] \in Signals(Kinds)
    BY <2>2
  <2>4. \A i \in DOMAIN d : d[i].magnitude \in Int
    BY <2>3 DEF Signals
  <2>5. QED
    BY <2>1, <2>2, <2>4 DEF WithoutSurge
<1>4. WithoutSurge(v)
  <2>1. v \in Seq(Signals(Kinds)) /\ \A i \in DOMAIN v : v[i].kind \in VoltageKinds
    <3>1. v \in Seq(Signals(VoltageKinds))
      BY ElectricalAssumption
    <3>2. VoltageKinds \in SUBSET Kinds
      BY DEF Kinds
    <3>3. QED
      BY <3>1, <3>2, WiderKinds
  <2>2. QED
    BY <2>1 DEF WithoutSurge, VoltageKinds, ConsumptionKinds
<1>5. WithoutSurge(p)
  <2>1. p \in Seq(Signals({"low_power_factor"}))
    BY ElectricalAssumption
  <2>2. {"low_power_factor"} \in SUBSET Kinds
    BY DEF Kinds, EquipmentKinds
  <2>3. p \in Seq(Signals(Kinds)) /\ \A i \in DOMAIN p : p[i].kind = "low_power_factor"
    BY <2>1, <2>2, WiderKinds
  <2>4. QED
    BY <2>3 DEF WithoutSurge, ConsumptionKinds
<1>6. WithoutSurge(o)
  <2>1. o \in Seq(Signals({"overcurrent"}))
    BY ElectricalAssumption
  <2>2. {"overcurrent"} \in SUBSET Kinds
    BY DEF Kinds, EquipmentKinds
  <2>3. o \in Seq(Signals(Kinds)) /\ \A i \in DOMAIN o : o[i].kind = "overcurrent"
    BY <2>1, <2>2, WiderKinds
  <2>4. QED
    BY <2>3 DEF WithoutSurge, ConsumptionKinds
<1> DEFINE all == s \o d \o v \o p \o o
<1>7. Fine(all)
  BY <1>2, <1>3, <1>4, <1>5, <1>6, FineGrows
<1>8. evidence = [i \in DOMAIN all |-> [signal |-> all[i], correlation |-> Correlate(all[i], e)]]
  BY <1>1
<1> HIDE DEF all
<1>9. all \in Seq(Signals(Kinds)) /\ DOMAIN all = 1..Len(all) /\ Len(all) \in Nat
  BY <1>7 DEF Fine
<1>10. DOMAIN evidence = 1..Len(all) /\ \A i \in DOMAIN evidence : evidence[i].signal = all[i]
  BY <1>8, <1>9
<1>11. \A i \in DOMAIN evidence : all[i] \in Signals(Kinds) /\ KindOf(i) = all[i].kind
  BY <1>9, <1>10 DEF KindOf
<1>12. QED
  BY <1>7, <1>9, <1>10, <1>11 DEF EvidenceType, Fine

-----------------------------------------------------------------------------
(* Scores.                                                                  *)

LEMMA ProductAtLeast ==
  ASSUME NEW a \in Nat, NEW b \in Nat, NEW x \in Nat, NEW y \in Nat, a <= x, b <= y
  PROVE  a * b <= x * y
<1>1. a * b <= a * y
  <2>1. a * y = a * b + a * (y - b) /\ y - b \in Nat
    OBVIOUS
  <2>2. a * (y - b) \in Nat
    BY <2>1
  <2>3. QED
    BY <2>1, <2>2
<1>2. a * y <= x * y
  <2>1. x * y = a * y + (x - a) * y /\ x - a \in Nat
    OBVIOUS
  <2>2. (x - a) * y \in Nat
    BY <2>1
  <2>3. QED
    BY <2>1, <2>2
<1>3. QED
  BY <1>1, <1>2

LEMMA TakenIsSome ==
  ASSUME EvidenceType, NEW items, items \subseteq DOMAIN evidence, NEW n, NEW match, Takes(n, items, match)
  PROVE  Cardinality(match.evidence) \in Nat \ {0}
<1>1. PICK m \in Nat : DOMAIN evidence = 1..m
  BY DEF EvidenceType
<1>2. IsFiniteSet(match.evidence)
  <2>1. match.evidence \subseteq 1..m
    BY <1>1 DEF Takes
  <2>2. IsFiniteSet(1..m)
    BY <1>1, FS_Interval
  <2>3. QED
    BY <2>1, <2>2, FS_Subset
<1>3. match.evidence # {}
  BY DEF Takes
<1>4. QED
  BY <1>2, <1>3, FS_CardinalityType, FS_EmptySet

\* The parts of a score.
LEMMA PartsOfScore ==
  ASSUME EvidenceType, NEW items, items \subseteq DOMAIN evidence, NEW n, NEW match, Takes(n, items, match),
         NEW type
  PROVE  /\ Impact(evidence[match.primary].signal) \in 100..200
         /\ Confidence(match, type) \in 55..99
         /\ Activity(evidence[match.primary].signal) \in {6, 10}
<1>1. match.primary \in DOMAIN evidence
  BY DEF Takes
<1>2. /\ evidence[match.primary].signal.magnitude \in Int
      /\ KindOf(match.primary) \in ConsumptionKinds => evidence[match.primary].signal.magnitude >= 25
  BY <1>1 DEF EvidenceType, Signals
<1>3. Impact(evidence[match.primary].signal) \in 100..200
  BY <1>2 DEF Impact, Least, KindOf
<1>4. EventContext(match, type) \in {0, 15, 25}
  BY DEF EventContext
<1>5. Cardinality(match.evidence) \in Nat \ {0}
  BY TakenIsSome
<1>6. Least(20, 10 * (Cardinality(match.evidence) - 1)) \in 0..20
  BY <1>5 DEF Least
<1>7. Confidence(match, type) \in 55..99
  BY <1>4, <1>6 DEF Confidence, Least
<1>8. Activity(evidence[match.primary].signal) \in {6, 10}
  BY DEF Activity
<1>9. QED
  BY <1>3, <1>7, <1>8

\* A false positive scores under a point, every other finding over it.
LEMMA PriorityIs ==
  ASSUME EvidenceType, NEW items, items \subseteq DOMAIN evidence, NEW n \in 1..6, NEW match, Takes(n, items, match)
  PROVE  /\ Priority(match, TypeOfRule(Rules[n])) \in Int
         /\ n = 2 => Priority(match, TypeOfRule(Rules[n])) < 10
         /\ n # 2 => Priority(match, TypeOfRule(Rules[n])) > 10
<1> DEFINE type == TypeOfRule(Rules[n])
           primary == evidence[match.primary].signal
           w == TypeWeight(type) * SeverityWeight(match.severity)
           i == Impact(primary)
           c == Confidence(match, type)
           a == Activity(primary)
<1>1. i \in 100..200 /\ c \in 55..99 /\ a \in {6, 10}
  BY PartsOfScore
<1>2. /\ w \in Nat
      /\ n = 2 => w = 3 /\ a = 6
      /\ n # 2 => w >= 48
  <2>1. CASE n = 1
    <3>1. type = "data_quality" /\ match.severity = "high"
      BY <2>1, TheRules DEF Takes
    <3>2. QED
      BY <2>1, <3>1 DEF TypeWeight, SeverityWeight
  <2>2. CASE n = 2
    <3>1. type = "false_positive" /\ match.severity = "low" /\ primary.end # NotEnded
      BY <2>2, TheRules DEF Takes, IsOutage
    <3>2. QED
      BY <2>2, <3>1 DEF TypeWeight, SeverityWeight, Activity
  <2>3. CASE n = 3
    <3>1. type = "explainable" /\ match.severity = "medium"
      BY <2>3, TheRules DEF Takes
    <3>2. QED
      BY <2>3, <3>1 DEF TypeWeight, SeverityWeight
  <2>4. CASE n \in 4..6
    <3>1. type = "real" /\ match.severity \in {"high", "medium"}
      BY <2>4, TheRules DEF Takes
    <3>2. QED
      BY <2>4, <3>1 DEF TypeWeight, SeverityWeight
  <2>5. QED
    BY <2>1, <2>2, <2>3, <2>4
<1>3. Priority(match, type) = (w * i * c * a + 20000) \div 40000
  BY DEF Priority
<1> HIDE DEF w, i, c, a, type
<1>4. w * i \in Nat /\ w * i * c \in Nat /\ w * i * c * a \in Nat
  BY <1>1, <1>2
<1>5. CASE n = 2
  <2>1. w * i <= 600
    BY <1>1, <1>2, <1>5
  <2>2. (w * i) * c <= 600 * 99
    BY <1>1, <1>4, <2>1, ProductAtLeast
  <2>3. w * i * c * a <= 356400
    BY <1>2, <1>4, <1>5, <2>2
  <2>4. QED
    BY <1>3, <1>4, <1>5, <2>3 DEF type
<1>6. CASE n # 2
  <2>1. 48 * 100 <= w * i
    BY <1>1, <1>2, <1>6, ProductAtLeast
  <2>2. 4800 * 55 <= (w * i) * c
    BY <1>1, <1>4, <2>1, ProductAtLeast
  <2>3. 264000 * 6 <= (w * i * c) * a
    BY <1>1, <1>4, <2>2, ProductAtLeast
  <2>4. QED
    BY <1>3, <1>4, <1>6, <2>3 DEF type
<1>7. QED
  BY <1>5, <1>6

-----------------------------------------------------------------------------
(* The invariant of the classification.                                     *)

FindingRecords ==
    [rule : {Rules[n] : n \in 1..6}, type : {TypeOfRule(Rules[n]) : n \in 1..6},
     evidence : SUBSET (DOMAIN evidence), priority : Int]
ClassifyType ==
    /\ rule \in 1..8
    /\ remaining \subseteq DOMAIN evidence
    /\ findings \in Seq(FindingRecords)

\* What a finding uses is not available, and no other finding uses it.
OneUser ==
    \A k \in DOMAIN evidence : \A i \in DOMAIN findings :
        Uses(findings[i], k) => /\ k \notin remaining
                                /\ \A j \in DOMAIN findings : Uses(findings[j], k) => i = j

\* The list of an answer is in the order of the priorities.
InOrder ==
    rule = Len(Rules) + 2 =>
        \A i, j \in DOMAIN findings : i < j => findings[i].priority >= findings[j].priority

ClassifyInvariant ==
    /\ EvidenceType
    /\ ClassifyType
    /\ Reported
    /\ OneUser
    /\ FalsePositivesLast
    /\ InOrder

LEMMA AppendIs ==
  ASSUME NEW S, NEW s \in Seq(S), NEW x \in S
  PROVE  /\ Append(s, x) \in Seq(S)
         /\ Len(s) \in Nat /\ DOMAIN s = 1..Len(s)
         /\ DOMAIN Append(s, x) = 1..(Len(s) + 1)
         /\ \A i \in DOMAIN s : Append(s, x)[i] = s[i]
         /\ Append(s, x)[Len(s) + 1] = x
OBVIOUS

LEMMA PriorityOf ==
  ASSUME ClassifyType, NEW i \in DOMAIN findings
  PROVE  findings[i].priority \in Int
<1>1. findings[i] \in FindingRecords
  BY DEF ClassifyType
<1>2. \A f \in FindingRecords : f.priority \in Int
  <2> DEFINE rules == {Rules[n] : n \in 1..6}
             types == {TypeOfRule(Rules[n]) : n \in 1..6}
             lists == SUBSET (DOMAIN evidence)
  <2>1. FindingRecords = [rule : rules, type : types, evidence : lists, priority : Int]
    BY DEF FindingRecords
  <2> HIDE DEF rules, types, lists
  <2>2. QED
    BY <2>1
<1>3. QED
  BY <1>1, <1>2

LEMMA ClassifyInitially == ClassifyInit => ClassifyInvariant
<1> SUFFICES ASSUME ClassifyInit PROVE ClassifyInvariant
  OBVIOUS
<1>0. rule = 1 /\ remaining = DOMAIN evidence /\ findings = <<>>
  BY DEF ClassifyInit
<1>1. EvidenceType
  BY InitEvidence
<1>2. ClassifyType
  BY <1>0 DEF ClassifyType
<1>3. Reported
  <2>1. \A k \in DOMAIN evidence : Turn(Verdict(k)) >= 1
    BY <1>1, VerdictType, TurnIs
  <2>2. QED
    BY <1>0, <2>1 DEF Reported
<1>4. DOMAIN findings = {}
  BY <1>0
<1>5. OneUser /\ FalsePositivesLast
  BY <1>4 DEF OneUser, FalsePositivesLast
<1>6. InOrder
  BY <1>4 DEF InOrder
<1>7. QED
  BY <1>1, <1>2, <1>3, <1>5, <1>6 DEF ClassifyInvariant

\* What is left after a match, and what the match is.
LEMMA MatchIs ==
  ASSUME ClassifyInvariant, Match
  PROVE  \E match : /\ rule \in 1..6
                    /\ Takes(rule, remaining, match)
                    /\ match.evidence # {} /\ match.evidence \in SUBSET (DOMAIN evidence)
                    /\ findings' = Append(findings, Finding(Rules[rule], match))
                    /\ remaining' = Without(remaining, match)
                    /\ Finding(Rules[rule], match) \in FindingRecords
<1> DEFINE match == Matcher(Rules[rule], remaining)
<1>1. /\ rule \in 1..6
      /\ match # NoMatch
      /\ findings' = Append(findings, Finding(Rules[rule], match))
      /\ remaining' = Without(remaining, match)
  BY TheRules DEF Match, ClassifyInvariant, ClassifyType
<1>2. remaining \in SUBSET Nat
  BY DEF ClassifyInvariant, ClassifyType, EvidenceType
<1>3. Takes(rule, remaining, match)
  BY <1>1, <1>2, RuleTakes
<1> HIDE DEF match
<1>4. match.evidence # {} /\ match.evidence \in SUBSET (DOMAIN evidence)
  BY <1>3 DEF Takes, ClassifyInvariant, ClassifyType
<1>5. Priority(match, TypeOfRule(Rules[rule])) \in Int
  BY <1>1, <1>3, PriorityIs DEF ClassifyInvariant, ClassifyType
<1>6. Finding(Rules[rule], match) \in FindingRecords
  BY <1>1, <1>4, <1>5 DEF Finding, FindingRecords
<1>7. QED
  BY <1>1, <1>3, <1>4, <1>6

LEMMA MatchKeeps ==
  ASSUME ClassifyInvariant, Match
  PROVE  ClassifyInvariant'
<1>0. /\ EvidenceType /\ ClassifyType /\ Reported /\ OneUser /\ FalsePositivesLast /\ InOrder
      /\ evidence' = evidence /\ rule' = rule
  BY DEF ClassifyInvariant, Match
<1>1. PICK match : /\ rule \in 1..6
                   /\ Takes(rule, remaining, match)
                   /\ match.evidence # {} /\ match.evidence \in SUBSET (DOMAIN evidence)
                   /\ findings' = Append(findings, Finding(Rules[rule], match))
                   /\ remaining' = Without(remaining, match)
                   /\ Finding(Rules[rule], match) \in FindingRecords
  BY MatchIs
<1> DEFINE new == Finding(Rules[rule], match)
<1>2. /\ findings' \in Seq(FindingRecords)
      /\ Len(findings) \in Nat /\ DOMAIN findings = 1..Len(findings)
      /\ DOMAIN findings' = 1..(Len(findings) + 1)
      /\ \A i \in DOMAIN findings : findings'[i] = findings[i]
      /\ findings'[Len(findings) + 1] = new
  BY <1>0, <1>1, AppendIs DEF ClassifyType
<1>3. \A k : k \in remaining' <=> k \in remaining /\ \A j \in match.evidence : evidence[j] # evidence[k]
  BY <1>1 DEF Without
<1>4. /\ \A k \in match.evidence : Verdict(k) = Rules[rule]
      /\ rule \notin {2, 5} => \A k \in DOMAIN evidence : Verdict(k) = Rules[rule] => k \in match.evidence
  BY <1>0, <1>1, MatchIsTheTable DEF ClassifyType
<1>5. /\ new.evidence = match.evidence /\ new.rule = Rules[rule] /\ new.type = TypeOfRule(Rules[rule])
      /\ new.priority = Priority(match, TypeOfRule(Rules[rule]))
  BY DEF Finding
<1> HIDE DEF new
<1>6. match.evidence \subseteq remaining
  BY <1>1 DEF Takes
<1>7. \A k : Uses(new, k) <=> \E j \in match.evidence : evidence[j] = evidence[k]
  BY <1>5 DEF Uses
<1>8. EvidenceType'
  BY <1>0 DEF EvidenceType, KindOf
<1>9. ClassifyType'
  <2>1. FindingRecords' = FindingRecords
    BY <1>0 DEF FindingRecords
  <2>2. rule' \in 1..8 /\ remaining' \subseteq DOMAIN evidence'
    BY <1>0, <1>3 DEF ClassifyType
  <2>3. QED
    BY <1>2, <2>1, <2>2 DEF ClassifyType
<1>10. \A k \in DOMAIN evidence : (Verdict(k))' = Verdict(k)
  BY <1>0 DEF Verdict, RuleFor, ExplainedSurgePresent, Present, OfKinds
<1>11. \A finding, k : (Uses(finding, k))' <=> Uses(finding, k)
  BY <1>0 DEF Uses
<1>12. Reported'
  <2>1. \A j, k \in DOMAIN evidence : evidence[j] = evidence[k] => Verdict(j) = Verdict(k)
    BY DEF Verdict
  <2>2. \A k \in DOMAIN evidence : Verdict(k) # Rules[rule] => (k \in remaining' <=> k \in remaining)
    BY <1>1, <1>3, <1>4, <2>1
  <2>3. \A k \in match.evidence : k \notin remaining'
    BY <1>3
  <2>4. ASSUME NEW k \in DOMAIN evidence
        PROVE  /\ k \in remaining' => Turn(Verdict(k)) >= rule
               /\ Turn(Verdict(k)) > rule => k \in remaining'
    <3>1. Turn(Rules[rule]) = rule
      BY <1>1, TurnIs
    <3>2. QED
      BY <1>0, <1>1, <1>3, <2>2, <3>1 DEF Reported, ClassifyType
  <2>5. ASSUME NEW k \in DOMAIN evidence, NEW j \in DOMAIN evidence,
               Verdict(j) = Verdict(k), Verdict(k) \notin {"R2", "R5"}
        PROVE  j \in remaining' <=> k \in remaining'
    <3>1. CASE Verdict(k) = Rules[rule]
      <4>1. rule \notin {2, 5}
        BY <2>5, <3>1 DEF Rules
      <4>2. QED
        BY <1>4, <2>3, <2>5, <3>1, <4>1
    <3>2. CASE Verdict(k) # Rules[rule]
      BY <1>0, <2>2, <2>5, <3>2 DEF Reported
    <3>3. QED
      BY <3>1, <3>2
  <2>6. ASSUME NEW k \in DOMAIN evidence, k \notin remaining'
        PROVE  \E i \in DOMAIN findings' : findings'[i].rule = Verdict(k) /\ Uses(findings'[i], k)
    <3>1. CASE k \notin remaining
      BY <1>0, <1>2, <3>1 DEF Reported
    <3>2. CASE k \in remaining
      <4>1. PICK j \in match.evidence : evidence[j] = evidence[k]
        BY <1>3, <2>6, <3>2
      <4>2. Verdict(k) = Rules[rule] /\ Uses(new, k)
        BY <1>1, <1>4, <1>7, <2>1, <4>1
      <4>3. QED
        BY <1>2, <1>5, <4>2
    <3>3. QED
      BY <3>1, <3>2
  <2>7. \A k \in DOMAIN evidence' :
           /\ k \in remaining' => Turn((Verdict(k))') >= rule'
           /\ Turn((Verdict(k))') > rule' => k \in remaining'
           /\ \A j \in DOMAIN evidence' :
                 (Verdict(j))' = (Verdict(k))' /\ (Verdict(k))' \notin {"R2", "R5"} =>
                    (j \in remaining' <=> k \in remaining')
           /\ k \notin remaining' =>
                 \E i \in DOMAIN findings' : findings'[i].rule = (Verdict(k))' /\ (Uses(findings[i], k))'
    <3>1. \A i, k : (Uses(findings[i], k))' <=> Uses(findings'[i], k)
      BY <1>0 DEF Uses
    <3>2. QED
      BY <1>0, <1>10, <2>4, <2>5, <2>6, <3>1
  <2>8. QED
    BY <2>7 DEF Reported, Turn
<1>13. OneUser'
  <2>1. \A i \in DOMAIN findings' : \/ i \in DOMAIN findings /\ findings'[i] = findings[i]
                                    \/ i = Len(findings) + 1 /\ findings'[i] = new
    BY <1>2
  <2>2. \A k \in DOMAIN evidence : \A i \in DOMAIN findings : ~ (Uses(findings[i], k) /\ Uses(new, k))
    <3>1. ASSUME NEW k \in DOMAIN evidence, NEW i \in DOMAIN findings, Uses(findings[i], k), Uses(new, k)
          PROVE  FALSE
      <4>1. PICK j \in match.evidence : evidence[j] = evidence[k]
        BY <1>7, <3>1
      <4>2. Uses(findings[i], j)
        BY <3>1, <4>1 DEF Uses
      <4>3. QED
        BY <1>0, <1>1, <1>6, <4>1, <4>2 DEF OneUser
    <3>2. QED
      BY <3>1
  <2>3. ASSUME NEW k \in DOMAIN evidence, NEW i \in DOMAIN findings', Uses(findings'[i], k)
        PROVE  /\ k \notin remaining'
               /\ \A j \in DOMAIN findings' : Uses(findings'[j], k) => i = j
    <3>1. k \notin remaining'
      BY <1>0, <1>3, <1>7, <2>1, <2>3 DEF OneUser
    <3>2. ASSUME NEW j \in DOMAIN findings', Uses(findings'[j], k) PROVE i = j
      BY <1>0, <2>1, <2>2, <2>3, <3>2 DEF OneUser
    <3>3. QED
      BY <3>1, <3>2
  <2>4. \A i, k : (Uses(findings[i], k))' <=> Uses(findings'[i], k)
    BY <1>0 DEF Uses
  <2>5. QED
    BY <1>0, <2>3, <2>4 DEF OneUser
<1>14. FalsePositivesLast'
  <2>1. IF new.type = "false_positive" THEN new.priority < 10 ELSE new.priority > 10
    <3>1. /\ rule = 2 => Priority(match, TypeOfRule(Rules[rule])) < 10
          /\ rule # 2 => Priority(match, TypeOfRule(Rules[rule])) > 10
      BY <1>0, <1>1, PriorityIs DEF ClassifyType
    <3>2. new.type = "false_positive" <=> rule = 2
      BY <1>1, <1>5, TheRules
    <3>3. QED
      BY <1>5, <3>1, <3>2
  <2>2. QED
    BY <1>0, <1>2, <2>1 DEF FalsePositivesLast
<1>15. InOrder'
  BY <1>0, <1>1, TheRules DEF InOrder
<1>16. QED
  BY <1>8, <1>9, <1>12, <1>13, <1>14, <1>15 DEF ClassifyInvariant

LEMMA NextRuleKeeps ==
  ASSUME ClassifyInvariant, NextRule
  PROVE  ClassifyInvariant'
<1>0. /\ EvidenceType /\ ClassifyType /\ Reported /\ OneUser /\ FalsePositivesLast /\ InOrder
      /\ evidence' = evidence /\ remaining' = remaining /\ findings' = findings
      /\ rule \in 1..6 /\ rule' = rule + 1
      /\ Matcher(Rules[rule], remaining) = NoMatch
  BY TheRules DEF ClassifyInvariant, NextRule, ClassifyType
<1>1. EvidenceType'
  BY <1>0 DEF EvidenceType, KindOf
<1>2. ClassifyType'
  BY <1>0 DEF ClassifyType, FindingRecords
<1>3. Reported'
  <2>1. \A k \in remaining : Verdict(k) # Rules[rule]
    BY <1>0, NoMatchIsDone DEF ClassifyType
  <2>2. \A k \in DOMAIN evidence : Turn(Verdict(k)) \in Int /\ (Turn(Verdict(k)) = rule => Verdict(k) = Rules[rule])
    BY <1>0, VerdictType, TurnIs
  <2>3. \A k \in DOMAIN evidence :
           /\ k \in remaining => Turn(Verdict(k)) >= rule + 1
           /\ Turn(Verdict(k)) > rule + 1 => k \in remaining
    BY <1>0, <2>1, <2>2 DEF Reported
  <2>4. /\ \A k : (Verdict(k))' = Verdict(k)
        /\ \A i, k : (Uses(findings[i], k))' <=> Uses(findings[i], k)
    BY <1>0 DEF Verdict, RuleFor, ExplainedSurgePresent, Present, OfKinds, Uses
  <2>5. QED
    BY <1>0, <2>3, <2>4 DEF Reported, Turn
<1>4. OneUser'
  BY <1>0 DEF OneUser, Uses
<1>5. FalsePositivesLast'
  BY <1>0 DEF FalsePositivesLast
<1>6. InOrder'
  BY <1>0, TheRules DEF InOrder
<1>7. QED
  BY <1>1, <1>2, <1>3, <1>4, <1>5, <1>6 DEF ClassifyInvariant

LEMMA AnswerKeeps ==
  ASSUME ClassifyInvariant, Answer
  PROVE  ClassifyInvariant'
<1>0. /\ EvidenceType /\ ClassifyType /\ Reported /\ OneUser /\ FalsePositivesLast /\ InOrder
      /\ evidence' = evidence /\ remaining' = remaining
      /\ rule = 7 /\ rule' = 8
  BY TheRules DEF ClassifyInvariant, Answer
<1>1. PICK order \in Bijection(DOMAIN findings, DOMAIN findings) :
         /\ IsByPriority(findings, order)
         /\ findings' = [k \in DOMAIN findings |-> findings[order[k]]]
  BY DEF Answer
<1>2. /\ \A k \in DOMAIN findings : order[k] \in DOMAIN findings
      /\ \A j, k \in DOMAIN findings : order[j] = order[k] => j = k
      /\ \A i \in DOMAIN findings : \E k \in DOMAIN findings : order[k] = i
  BY <1>1 DEF Bijection, Injection, IsInjective, Surjection
<1>3. DOMAIN findings' = DOMAIN findings /\ \A k \in DOMAIN findings : findings'[k] = findings[order[k]]
  BY <1>1
<1>4. /\ Len(findings) \in Nat /\ DOMAIN findings = 1..Len(findings)
      /\ \A i \in DOMAIN findings : findings[i] \in FindingRecords
  BY <1>0 DEF ClassifyType
<1>5. findings' \in Seq(FindingRecords)
  <2>1. findings' \in [1..Len(findings) -> FindingRecords]
    BY <1>1, <1>2, <1>4
  <2>2. QED
    BY <1>4, <2>1
<1>6. EvidenceType'
  BY <1>0 DEF EvidenceType, KindOf
<1>7. ClassifyType'
  BY <1>0, <1>5 DEF ClassifyType, FindingRecords
<1>8. /\ \A k : (Verdict(k))' = Verdict(k)
      /\ \A i, k : (Uses(findings[i], k))' <=> Uses(findings'[i], k)
  BY <1>0 DEF Verdict, RuleFor, ExplainedSurgePresent, Present, OfKinds, Uses
<1>9. Reported'
  <2>1. \A k \in DOMAIN evidence : /\ Turn(Verdict(k)) \in Int /\ Turn(Verdict(k)) # 7 /\ Turn(Verdict(k)) # 8
    BY <1>0, VerdictType, TurnIs
  <2>2. \A k \in DOMAIN evidence :
           /\ k \in remaining => Turn(Verdict(k)) >= 8
           /\ Turn(Verdict(k)) > 8 => k \in remaining
    BY <1>0, <2>1 DEF Reported
  <2>3. \A k \in DOMAIN evidence : k \notin remaining =>
           \E i \in DOMAIN findings' : findings'[i].rule = Verdict(k) /\ Uses(findings'[i], k)
    <3>1. ASSUME NEW k \in DOMAIN evidence, k \notin remaining
          PROVE  \E i \in DOMAIN findings' : findings'[i].rule = Verdict(k) /\ Uses(findings'[i], k)
      <4>1. PICK i \in DOMAIN findings : findings[i].rule = Verdict(k) /\ Uses(findings[i], k)
        BY <1>0, <3>1 DEF Reported
      <4>2. PICK j \in DOMAIN findings : order[j] = i
        BY <1>2
      <4>3. j \in DOMAIN findings' /\ findings'[j] = findings[i]
        BY <1>3, <4>2
      <4>4. QED
        BY <4>1, <4>3
    <3>2. QED
      BY <3>1
  <2>4. \A j, k \in DOMAIN evidence :
           Verdict(j) = Verdict(k) /\ Verdict(k) \notin {"R2", "R5"} => (j \in remaining <=> k \in remaining)
    BY <1>0 DEF Reported
  <2>5. QED
    BY <1>0, <1>8, <2>2, <2>3, <2>4 DEF Reported, Turn
<1>10. OneUser'
  <2>1. \A k \in DOMAIN evidence : \A i \in DOMAIN findings :
           Uses(findings'[i], k) => /\ k \notin remaining
                                    /\ \A j \in DOMAIN findings : Uses(findings'[j], k) => i = j
    <3>1. ASSUME NEW k \in DOMAIN evidence, NEW i \in DOMAIN findings, Uses(findings'[i], k)
          PROVE  k \notin remaining /\ \A j \in DOMAIN findings : Uses(findings'[j], k) => i = j
      <4>1. order[i] \in DOMAIN findings /\ Uses(findings[order[i]], k)
        BY <1>2, <1>3, <3>1
      <4>2. k \notin remaining /\ \A m \in DOMAIN findings : Uses(findings[m], k) => order[i] = m
        BY <1>0, <4>1 DEF OneUser
      <4>3. \A j \in DOMAIN findings : Uses(findings'[j], k) => order[i] = order[j]
        BY <1>2, <1>3, <4>2
      <4>4. QED
        BY <1>2, <4>2, <4>3
    <3>2. QED
      BY <3>1
  <2>2. QED
    BY <1>0, <1>3, <1>8, <2>1 DEF OneUser
<1>11. FalsePositivesLast'
  <2>1. \A i \in DOMAIN findings :
           LET finding == findings[order[i]]
           IN  IF finding.type = "false_positive" THEN finding.priority < 10 ELSE finding.priority > 10
    BY <1>0, <1>2 DEF FalsePositivesLast
  <2>2. QED
    BY <1>3, <2>1 DEF FalsePositivesLast
<1>12. InOrder'
  <2>1. \A i \in DOMAIN findings : findings[i].priority \in Int
    BY <1>0, PriorityOf
  <2>2. \A i, j \in DOMAIN findings : i < j => findings[order[i]].priority >= findings[order[j]].priority
    <3>1. ASSUME NEW i \in DOMAIN findings, NEW j \in DOMAIN findings, i < j
          PROVE  findings[order[i]].priority >= findings[order[j]].priority
      <4>1. findings[order[i]].priority \in Int /\ findings[order[j]].priority \in Int
        BY <1>2, <2>1
      <4>2. \/ findings[order[i]].priority > findings[order[j]].priority
            \/ findings[order[i]].priority = findings[order[j]].priority
        BY <1>1, <3>1 DEF IsByPriority
      <4>3. QED
        BY <4>1, <4>2
    <3>2. QED
      BY <3>1
  <2>3. QED
    BY <1>3, <2>2 DEF InOrder
<1>13. QED
  BY <1>6, <1>7, <1>9, <1>10, <1>11, <1>12 DEF ClassifyInvariant

LEMMA ClassifyStep == ClassifyInvariant /\ [ClassifyNext]_classifyVars => ClassifyInvariant'
<1> SUFFICES ASSUME ClassifyInvariant, [ClassifyNext]_classifyVars PROVE ClassifyInvariant'
  OBVIOUS
<1>1. CASE Match
  BY <1>1, MatchKeeps
<1>2. CASE NextRule
  BY <1>2, NextRuleKeeps
<1>3. CASE Answer
  BY <1>3, AnswerKeeps
<1>4. CASE UNCHANGED classifyVars
  <2>0. evidence' = evidence /\ rule' = rule /\ remaining' = remaining /\ findings' = findings
    BY <1>4 DEF classifyVars
  <2>1. EvidenceType' /\ ClassifyType'
    BY <2>0 DEF ClassifyInvariant, EvidenceType, ClassifyType, FindingRecords, KindOf
  <2>2. Reported'
    <3>1. /\ \A k : (Verdict(k))' = Verdict(k)
          /\ \A i, k : (Uses(findings[i], k))' <=> Uses(findings[i], k)
      BY <2>0 DEF Verdict, RuleFor, ExplainedSurgePresent, Present, OfKinds, Uses
    <3>2. QED
      BY <2>0, <3>1 DEF ClassifyInvariant, Reported, Turn
  <2>3. OneUser' /\ FalsePositivesLast' /\ InOrder'
    BY <2>0 DEF ClassifyInvariant, OneUser, Uses, FalsePositivesLast, InOrder
  <2>4. QED
    BY <2>1, <2>2, <2>3 DEF ClassifyInvariant
<1>5. QED
  BY <1>1, <1>2, <1>3, <1>4 DEF ClassifyNext

LEMMA AlwaysClassified == ClassifySpec => []ClassifyInvariant
<1>1. QED
  BY ClassifyInitially, ClassifyStep, PTL DEF ClassifySpec

-----------------------------------------------------------------------------
(* The theorems.                                                            *)

\* classify (rules.py) counts every signal once: it is available, or
\* exactly one finding uses it, however many signals and findings there are.
THEOREM CountedOnceHolds == ClassifySpec => []CountedOnce
<1>1. ClassifyInvariant => CountedOnce
  <2> SUFFICES ASSUME ClassifyInvariant, NEW k \in DOMAIN evidence
               PROVE  Cardinality({i \in DOMAIN findings : Uses(findings[i], k)}) = IF k \in remaining THEN 0 ELSE 1
    BY DEF CountedOnce
  <2> DEFINE users == {i \in DOMAIN findings : Uses(findings[i], k)}
  <2>1. CASE k \in remaining
    <3>1. users = {}
      BY <2>1 DEF ClassifyInvariant, OneUser
    <3>2. QED
      BY <2>1, <3>1, FS_EmptySet
  <2>2. CASE k \notin remaining
    <3>1. PICK i \in DOMAIN findings : Uses(findings[i], k)
      BY <2>2 DEF ClassifyInvariant, Reported
    <3>2. users = {i}
      BY <3>1 DEF ClassifyInvariant, OneUser
    <3>3. QED
      BY <2>2, <3>2, FS_Singleton
  <2>3. QED
    BY <2>1, <2>2
<1>2. QED
  BY <1>1, AlwaysClassified, PTL

\* What the answer says of each signal.
LEMMA VerdictsOfAnswer ==
  ASSUME ClassifyInvariant, rule = 8, NEW k \in DOMAIN evidence
  PROVE  IF Verdict(k) = "none" THEN k \in remaining ELSE ReportedUnder(k, Verdict(k))
<1>1. \/ Turn(Verdict(k)) \in 1..6 /\ Verdict(k) # "none"
      \/ Turn(Verdict(k)) = 9 /\ Verdict(k) = "none"
  BY VerdictType, TurnIs DEF ClassifyInvariant, Turn
<1>2. QED
  BY <1>1 DEF ClassifyInvariant, Reported, ReportedUnder

\* Where a row of the table is about a signal, the rules follow it.
LEMMA RulesFollowTheTable ==
  ASSUME EvidenceType, NEW k \in DOMAIN evidence, TableRule(evidence[k]) # "none"
  PROVE  TableRule(evidence[k]) = Verdict(k)
<1> DEFINE item == evidence[k]
<1>1. Present({"surge"}) => Present(ConsumptionKinds)
  BY DEF Present, OfKinds, ConsumptionKinds
<1>2. item.signal.kind \in VoltageKinds \cup {"surge", "drop"} \cup EquipmentKinds
  BY VerdictIs DEF KindOf
<1>3. CASE item.signal.kind = "surge"
  BY <1>3 DEF TableRule, Verdict, RuleFor, VoltageKinds, EquipmentKinds
<1>4. CASE item.signal.kind = "drop"
  BY <1>4 DEF TableRule, Verdict, RuleFor, VoltageKinds, EquipmentKinds
<1>5. CASE item.signal.kind \in VoltageKinds
  BY <1>5 DEF TableRule, Verdict, RuleFor, VoltageKinds, EquipmentKinds
<1>6. CASE item.signal.kind \in EquipmentKinds
  BY <1>1, <1>6 DEF TableRule, Verdict, RuleFor, VoltageKinds, EquipmentKinds
<1>7. QED
  BY <1>2, <1>3, <1>4, <1>5, <1>6

\* Trying the rules in order and letting them consume evidence reports every
\* signal that a row of the methodology's table is about under the rule of that
\* row.
THEOREM VerdictByTableHolds == ClassifySpec => []VerdictByTable
<1>1. ClassifyInvariant => VerdictByTable
  <2> SUFFICES ASSUME ClassifyInvariant, rule = 8, NEW k \in DOMAIN evidence,
                      TableRule(evidence[k]) # "none"
               PROVE  ReportedUnder(k, TableRule(evidence[k]))
    BY TheRules DEF VerdictByTable
  <2>1. TableRule(evidence[k]) = Verdict(k)
    BY RulesFollowTheTable DEF ClassifyInvariant
  <2>2. QED
    BY <2>1, VerdictsOfAnswer
<1>2. QED
  BY <1>1, AlwaysClassified, PTL

\* What the answer makes of the signals that no row is about: an equipment signal
\* beside a drop is reported by the rule for loose equipment signals, and a
\* voltage signal beside a change of consumption by none.
THEOREM BesideTheTable ==
  ClassifySpec => [](rule = Len(Rules) + 2 =>
                       \A k \in DOMAIN evidence :
                           TableRule(evidence[k]) = "none" =>
                               IF evidence[k].signal.kind \in EquipmentKinds THEN ReportedUnder(k, "R6")
                               ELSE evidence[k].signal.kind \in VoltageKinds /\ k \in remaining)
<1>1. ClassifyInvariant =>
        (rule = Len(Rules) + 2 =>
            \A k \in DOMAIN evidence :
                TableRule(evidence[k]) = "none" =>
                    IF evidence[k].signal.kind \in EquipmentKinds THEN ReportedUnder(k, "R6")
                    ELSE evidence[k].signal.kind \in VoltageKinds /\ k \in remaining)
  <2> SUFFICES ASSUME ClassifyInvariant, rule = 8, NEW k \in DOMAIN evidence, TableRule(evidence[k]) = "none"
               PROVE  IF evidence[k].signal.kind \in EquipmentKinds THEN ReportedUnder(k, "R6")
                      ELSE evidence[k].signal.kind \in VoltageKinds /\ k \in remaining
    BY TheRules
  <2> DEFINE item == evidence[k]
  <2>1. item.signal.kind \in VoltageKinds \cup {"surge", "drop"} \cup EquipmentKinds
    BY VerdictIs DEF KindOf, ClassifyInvariant
  <2>2. item.signal.kind \notin {"surge", "drop"}
    BY DEF TableRule
  <2>3. CASE item.signal.kind \in VoltageKinds
    <3>1. item.signal.kind \notin EquipmentKinds /\ Verdict(k) = "none"
      BY <2>3 DEF TableRule, Verdict, RuleFor, VoltageKinds, EquipmentKinds
    <3>2. QED
      BY <2>3, <3>1, VerdictsOfAnswer
  <2>4. CASE item.signal.kind \in EquipmentKinds
    <3>1. Verdict(k) = "R6"
      BY <2>4 DEF TableRule, Verdict, RuleFor, VoltageKinds, EquipmentKinds
    <3>2. QED
      BY <2>4, <3>1, VerdictsOfAnswer
  <2>5. QED
    BY <2>1, <2>2, <2>3, <2>4
<1>2. QED
  BY <1>1, AlwaysClassified, PTL

\* Whatever its magnitude, its events and what supports it, the score of a false
\* positive is under a point and that of any other finding over it.
THEOREM FalsePositivesLastHolds == ClassifySpec => []FalsePositivesLast
BY AlwaysClassified, PTL DEF ClassifyInvariant

\* In the list of an answer, sorted by priority, nothing but false positives
\* comes after a false positive.
THEOREM OnlyFalsePositivesAfterOne ==
  ClassifySpec => [](rule = Len(Rules) + 2 =>
                       \A i, j \in DOMAIN findings :
                           i < j /\ findings[i].type = "false_positive" => findings[j].type = "false_positive")
<1>1. ClassifyInvariant => (rule = Len(Rules) + 2 =>
                       \A i, j \in DOMAIN findings :
                           i < j /\ findings[i].type = "false_positive" => findings[j].type = "false_positive")
  <2>1. ClassifyInvariant => \A i \in DOMAIN findings : findings[i].priority \in Int
    BY PriorityOf DEF ClassifyInvariant
  <2>2. QED
    BY <2>1 DEF ClassifyInvariant, FalsePositivesLast, InOrder
<1>2. QED
  BY <1>1, AlwaysClassified, PTL

\* The loop over the rules ends: a match takes evidence away for good and
\* anything else moves to the next rule, so a meter with n signals takes no more
\* than n matches.
THEOREM LoopProgresses ==
  ClassifySpec => [][\/ rule' = rule + 1 /\ remaining' = remaining
                     \/ rule' = rule /\ remaining' \subseteq remaining /\ remaining' # remaining]_classifyVars
<1>1. ClassifyInvariant /\ [ClassifyNext]_classifyVars =>
        [\/ rule' = rule + 1 /\ remaining' = remaining
         \/ rule' = rule /\ remaining' \subseteq remaining /\ remaining' # remaining]_classifyVars
  <2> SUFFICES ASSUME ClassifyInvariant, ClassifyNext
               PROVE  \/ rule' = rule + 1 /\ remaining' = remaining
                      \/ rule' = rule /\ remaining' \subseteq remaining /\ remaining' # remaining
    OBVIOUS
  <2>1. CASE Match
    <3>1. PICK match : /\ Takes(rule, remaining, match) /\ match.evidence # {}
                       /\ remaining' = Without(remaining, match)
      BY <2>1, MatchIs
    <3>2. PICK k \in match.evidence : k \in remaining
      BY <3>1 DEF Takes
    <3>3. k \notin remaining' /\ remaining' \subseteq remaining
      BY <3>1, <3>2 DEF Without
    <3>4. QED
      BY <2>1, <3>2, <3>3 DEF Match
  <2>2. CASE NextRule \/ Answer
    BY <2>2 DEF NextRule, Answer
  <2>3. QED
    BY <2>1, <2>2 DEF ClassifyNext
<1>2. QED
  BY <1>1, AlwaysClassified, PTL DEF ClassifySpec
=============================================================================
