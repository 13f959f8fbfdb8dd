# Verification of biaenergy

biaenergy watches electricity meters: operators import readings and events from
CSV files, an AI service looks for anomalies in them, and operators follow each
anomaly up until it is resolved. This directory holds TLA+ models of the parts
of that system whose behaviour depends on order, concurrency or failure, the TLC
runs that check them on small instances and the TLAPS proofs of their main
properties for instances of any size.

Every definition is a reading of the code; `PROJECT.json` maps it to its lines
(`map`), lists the parts of the system (`components`), the places where the code
could go wrong in ways a test hardly reaches (`hazards`), and for every property
a plausible bug in a mapped definition that breaks it (`mutants`).

To run: `tlc -config AnalysisFaults.cfg MCAnalysis` and so on for each run of
`PROJECT.json`; `tlapm AnalysisProofs.tla` and so on for each `*Proofs` module.

## The system

| Part | State it keeps | Operations |
| --- | --- | --- |
| Analysis job (`backend/internal/modules/analysis`) | the `analysis` and `anomaly` tables; `startMutex`, the workers' wait group and the process's context, in memory | `POST /ai/analyze` (reuse the active analysis or create one and start its goroutine), the worker's steps, its failure, the recovery of interrupted rows at start-up |
| Process life cycle (`backend/internal/app`, `cmd/api`) | whether the process boots, serves or drains | boot, signal, graceful shutdown of 10 s, wait for the workers, exit |
| AI service (`ai-service`) | none | detectors over each meter's series, correlation with events, rules R1 to R6, score, explanation by a model or a template |
| Anomaly follow-up (`modules/anomaly`, `StatusWorkflow.tsx`) | status and note of each anomaly; what each page shows and waits for | `PATCH /anomalies/{id}/status` in three statements; the page's buttons |
| CSV import (`modules/ingestion`) | `import_batch`, `meter`, `reading`, `event` tables | parse, record a failed batch, or save everything in one transaction; list the batches |
| Import page (`ImportPage.tsx` and its components) | file, upload and outcome of two cards, the history, the banner | choose, replace, upload, leave |
| Meters (`modules/meter`) | the `meter` table, with logical deletion and a unique index on active codes | create, update, delete, list, series and hourly profile of a range |
| Page of the meters (`MetersPage.tsx` and its components) | a query in the URL, a search box, the page on screen, a form, a confirmation, their requests | search, filter, sort, turn, create, edit, delete |
| Reading pages (`DashboardPage.tsx`, `AnomaliesPage.tsx`, `MeterDetailPage.tsx`) | the data, error and request of each hook; the range chosen | show, retry, choose a range |
| Dashboard service (`modules/dashboard`) | none | KPIs from the tables |
| Authentication (`modules/auth`, `platform/token`) | `app_user`; tokens carry their own expiry | login, middleware, administrator upsert |
| Session in the browser (`AuthContext.tsx`, `session.ts`, `api.ts`) | the session in localStorage, shared by all tabs, and each tab's copy with two timers | login, logout, expiry, 401, storage events |
| Analysis provider (`AnalysisContext.tsx`, the drawer) | the analysis shown, the polling timer, the version that makes pages refetch | mount, start, poll, announce |
| Fetch hook (`useFetch.ts`) | data, error and the request in flight of each use | execute with abort; a change of path executes, a null path stops |

They interact in four ways. The browser calls the backend over HTTP and any
answer can be late, lost or overtaken. The backend calls Postgres statement by
statement, in a transaction only where `Complete` and `saveBatch` open one. The
worker calls the AI service once, within a deadline. And two processes of the
backend meet through the tables: Railway starts the new one, waits for its
`/api/health` and only then stops the old one, so for a while both serve.

What is hard here: two handlers or two processes between a read and the write
that depends on it; a crash between two statements; a commit whose answer is
lost; a worker that outlives what waits for it; answers of GETs and POSTs
delivered in another order; closures of an old render that act on a page that
has moved on; hooks whose paths depend on each other's data; tabs that share a
storage and hear of its changes late; imports that wait for each other's rows;
rules that take evidence from each other.

## The modules

| Module | Models | State and actions |
| --- | --- | --- |
| `Analysis` | `analysis/service.go`, `repository.go`, `db/queries/analysis.sql`, `app/app.go`, `cmd/api/main.go`; what the drawer shows of a row | `rows` is the table, `results` the analyses with stored anomalies, `phase` each process, `request` each POST handler, `worker` each goroutine with the call it makes next and whether its context is live. One action per database call or step: `CheckActive`, `Create`, `AdvanceLoading`, `LoadDataset`, `AdvanceAnalyzing`, `Call`, `AdvanceSaving`, `ToAnomalies`, `Complete`, `Interrupted`, `Deadline`, `Fail`; and for the process `Boot`, `Recover`, `Signal`, `ShutdownDone`, `ShutdownTimeout`, `Exit`, `Crash`. A call may be refused (no effect) or lost (effect, and an error to its caller). |
| `AnalysisBoard` | the abstract specification: analyses are launched one at a time and each ends once, with all of its results or with none | `Launch`, `Finish`, `Abort`; `Analysis` implements it (`ImplementsBoard`, a refinement mapping of `rows` and `results`) |
| `Triage` | `anomaly/service.go` `UpdateStatus` and `StatusWorkflow.tsx` | `row`, one `page` per browser, one `handler` per PATCH. `Click`, `Type`, `Reopen` in the page; `Validate`, `ReadCurrent`, `Write`, `Answer`, `Disconnect` in the handler; `Deliver` for the answer. `alone` records that a request has overlapped no other |
| `Watch` | `AnalysisContext.tsx`, `RunAnalysisButton.tsx`, `AnalysisDrawer.tsx`, and `execute` of `useFetch.ts` for the list | the server is reduced to what `AnalysisBoard` promises. Each request is sent, handled (its answer is what the server saw then) and delivered; `ahead` has, for each one in flight, those in flight that were sent before it, and `reordered` records whether one was handled, or its answer arrived, before one of those was, since the layout mounted; requests that are only in flight together do not set it. `CanRun` and `CanRetry` are the buttons the drawer and the header offer |
| `Session` | `AuthContext.tsx`, `session.ts`, the 401 path of `api.ts`, `LoginForm.tsx` | `storage` is the localStorage entry, `tab` each tab's state with its armed timers and whether `clampDelay` cut them short, `event` the storage events it has not handled, `age` the life of each token, which starts within a timer's reach or beyond it (`Lifetimes`) |
| `Ingestion` | `ingestion/service.go`, `repository.go`, `parser.go`, the queries it runs, and creation and deletion of meters | `meter`, `reading` and `batch` are the tables, with the rows of open transactions; `import` is each upload. `Find`, `Restore`, `RestoreLocked`, `Create` are `ensureMeters` statement by statement; `InsertRow`, `Commit`, `Refuse`, `Deadlock` the rest of the transaction |
| `Imports` | `ImportPage.tsx`, `ImportCard.tsx`, `Dropzone.tsx`, `ImportHistory.tsx`, the list of batches | `upload` is every upload from its request to its answer, `card` the two cards, `history` the hook of the list with its request, `banner` the offer of an analysis. The service's part is reduced to what `Ingestion` shows: a batch has its number from the start of its transaction and is visible from its end |
| `Meters` | `MetersPage.tsx`, its toolbar, table, form, confirmation and pagination; `Create`, `Update`, `Delete` and `List` of `meter/service.go` | `url`, `input` and `debounced` are the query; `data`, `failed` and `load` the list; `form` and `asked` the dialogs; `write` their requests, each with the query of the render that sent it. The page of rows and the total are two statements (`HandlePage`, `HandleCount`) |
| `Pages` | the three reading pages with their hooks, and the ranges `meter/service.go` accepts | `fetch` is each hook with its path, request, data and error. `Render`, `Effect` and `Execute` are what renders and effects do to the hooks of the page; the paths of the detail form a chain: meter, its last reading, the range, the main anomaly, its change, the two profiles |
| `Pipeline` | `events.py`, `rules.py`, `scoring.py`, `pipeline.py` of the AI service | one step per match or rule given up: `evidence` with its correlation, `rule` the position in `RULES`, `remaining` the positions of the evidence that no rule has used, and `findings` with type and priority; the last step sorts them, by the permutation that keeps equals in order |
| `AnalysisProofs`, `TriageProofs`, `WatchProofs`, `SessionProofs`, `IngestionProofs`, `MetersProofs`, `ImportsProofs`, `PagesProofs` | proofs about the modules they are named for, `AnalysisProofs` about `Pipeline` too | see below |

How they compose. `Watch` uses of the job only what `AnalysisBoard` promises and
that analyses end (`EveryAnalysisSettles`), both checked of `Analysis`. `Meters`
and `Pages` use of an analysis only that it completes in one step, which
`ImplementsBoard` promises, and of `Watch` that a page hears of it
(`announced`). `Imports` uses of `Ingestion` that an upload is all or nothing
and is answered. `Pipeline` is what one meter's part of the worker's `Call`
computes; its specification is named `ClassifySpec`, its parts alike, because
`AnalysisProofs` reads it beside `Analysis`.

The `MC*` modules give the constants that a cfg cannot write and, for the safety
runs only, the symmetry of interchangeable handlers, pages and process slots.

What is abstracted: the anomalies of an analysis are one value that is stored or
not; a note is one of a few values, among them one that is wide in bytes; a row of
a CSV file is a meter code and a time, or invalid; a meter is its code, its status
and a version that every write raises; a page of meters is the set of its rows;
time is order only, except in `Pages`, where ranges are days, and that a token is
further from its end than a browser's timer reaches (2^31-1 ms), nearer, about to
expire, or expired; a timer cut to that reach may fire at any time. In `Pipeline` percentages, weights and
confidences are integers (tenths, hundredths and twentieths), rounded half up as
`round` does on the values that occur. Payloads, wording and layout are left out,
and so is the import's warning that the same file was imported before, which
changes an answer and no state.

What `Meters` assumes of the operator: a dialog covers the page, so nothing else is
clicked while one is open, and filling it takes longer than the 300 ms of the
search box. Headers that sort change the query as the pills do.

## The runs

Bounds are the constants of each cfg; each run ends within three minutes.

| Run | Question | Bounds and why they are enough |
| --- | --- | --- |
| `analysis_faults` | While processes do not overlap, does one analysis at a time hold, whatever calls are refused, lost or cut by a crash? | 3 rows, 2 handlers, 1 slot, 2 faults: an old row, an active one and one created after it; two faults allow a failure whose record fails too, or a crash after a lost answer |
| `analysis_live` | Does the job implement the board, does what the drawer showed as done stay done, and does everything end, when processes crash and restart? | 2 rows, 2 handlers, 2 crashes: a crash of the worker and one of the process that recovers it |
| `triage_pages` | Does a page wait for its own request only, is a conflict always due to a stale page, does a request that overlaps no other make a documented transition and show it, and is every click answered? | 2 pages, 2 handlers that may overlap, 2 clicks, every fault: enough to race, and to act on a status that another page has changed; the theorems cover longer histories, with a request alone after two that raced |
| `triage_race` (violation) | Do only documented transitions happen when two operators act at once? | 2 handlers, no fault |
| `watch` | Is an active analysis always polled, and, while requests in flight do not overtake each other, its end told once and eventually? | 3 analyses, 2 POSTs in flight beside the first GET and a poll, 1 error, 1 reload: an old analysis, one on screen and a newer one; both POSTs answered in order, and out of it |
| `session_tabs` | Do tabs agree with the storage, who can make a valid session look expired, and does an expired session end? | 2 tabs, 2 tokens, each of a life within a timer's reach or beyond, that expire in either order, events delayed at will: one session replaced by another |
| `ingestion` | Is an import all or nothing, are its counts true, and is every upload answered? | 2 imports of files with the same rows in the opposite order, repeated rows or an invalid one; 3 meters (one per code and one deleted), 1 deletion, 1 creation, 1 fault |
| `imports_page` | Does the history show every upload that was answered, is an outcome that of the file on the card, and does an upload end? | 2 cards, 2 uploads, a history of 1, 2 faults or departures: uploads that overlap, one newer that pushes the other out, a page left in between |
| `meters_page` | Does a page at rest show its query and nothing older than what was told, does an answer close only its own dialog, and does a search reach the list? | 2 seeded meters and a third, pages of 1 row, 3 changes or writes, 1 surprise of the server: a page that empties, a write from another query, an analysis beside it |
| `pages` | Does the chain of hooks end, tell one story and show what was announced? | 2 meters, ranges of 3 and 14 days, imports of 2 days, 1 analysis with three outcomes, 2 turns: a change that moves out of the range, a meter without anomalies after one with |
| `pipeline` | Is every signal counted once, is each one a row of the methodology's table is about under that row's rule, and are false positives last? | every combination of 3 surges, 5 series of drops, 3 of voltage, 3 of power factor, 2 of current and up to 2 events of 6 kinds and hours: 52 000 states |
| `pipeline_unclassified` (violation) | Is every signal classified, as the methodology says? | as `pipeline` |

`CHECK_DEADLOCK FALSE` is used where the bounds let everything end: no clicks
left, all tokens expired, all uploads answered, no analysis left to create, all
findings listed.

### Fairness and why the code justifies it

- `Analysis`: a worker's next call happens (the scheduler runs goroutines, and
  every call has the worker's deadline or the 5 s of the failure's own context);
  a process that is down is started again (`restart: unless-stopped`, Railway's
  `ON_FAILURE`), recovers and, when signalled, stops. `CheckActive` is given
  strong fairness because it waits for `startMutex`, and a Go mutex hands itself
  to a waiter that starves. Nothing is assumed of requests, crashes or signals.
- `Triage`: a PATCH that was sent is handled and answered or fails, as `fetch`
  does; nothing is assumed of operators.
- `Watch`: analyses end (`EveryAnalysisSettles` of `Analysis`), requests are
  handled and delivered, timers fire.
- `Session`: the browser runs a timer that is due; nothing else.
- `Ingestion`: a statement that can run runs, and the database breaks a cycle of
  waits. Nothing is assumed of operators.
- `Imports`: an upload or a read of the history that was sent is answered or
  fails.
- `Meters`: requests are handled and answered, the pause of the search box ends.
- `Pages`: some answer is handled or delivered while one is due; no hook is
  preferred.
- `Pipeline`: the loop over the rules goes on.

## What the checks show

The properties are commented in the modules. The ones worth knowing:

- `AtMostOneActive`: with one process at a time, the read of the active row and the
  insert are never separated, and no late write makes a finished row active again.
  It rests on the mutex and on workers ending with their process.
- `ImplementsBoard`, `DoneStaysDone`: while the database answers, a reader of the
  latest completed analysis sees all of its anomalies, and no step the drawer
  showed as done is taken back, although the updates have no condition on the
  status.
- `ActiveIsDriven`, `EveryAnalysisSettles`, `EveryRequestEnds`: nothing is left active
  by a crash, and no client polls an analysis that nobody works on.
- `SerialWorkflow`, `SuccessShowsTheRow`: a request that overlaps no other makes a
  documented transition, from a page however stale and after any two that raced,
  and the page that is told so shows the row.
- `ConflictMeansStale`: the two copies of the transition table, in Go and in
  TypeScript, agree, so a 409 always means that the page was stale.
- `PendingHasItsRequest`: leaving a page and opening it again never lets the
  answer of the earlier visit release or mislead the new one.
- `ActiveIsPolled`, `ListIsCurrent`: in every order of answers, an analysis shown
  as active is being polled, and a list is not older than its announcement.
- `ToldOnce`, `ShownMovesForward`, `ToldWhenItEndsInOrder`: hold while no request
  overtakes another, with the first GET, two POSTs and a poll in flight together.
  When one does overtake, a retry that was pressed twice can break the first two,
  and a late GET of the mount the third.
- `TabsAgree`, `NoticeEarned`, `ExpiredEnds`: what one tab does reaches all of them,
  however late; a tab takes its valid session for an expired one only after the late
  refusal of another token, or by a timer that `clampDelay` cut short; and no tab
  stays signed in with an expired token.
- `BatchCountsAreTrue`, `SuccessMeansStored`, `ErrorLeavesNothing`: an import that
  skips a row because another holds it does not succeed unless that one commits.
- `HistoryInOneMeter`: an import creates a meter only for a code that never had
  one, if no meter is deleted while an import is at work.
- `AnsweredIsShown`, `OutcomeIsOfTheFile`: two cards that share a history never
  leave it without an upload that was answered on this page.
- `ListMatchesQuery`, `NothingToldIsMissing`, `DraftKept`: the refresh of an old
  render is harmless because a dialog that waits keeps the query from changing.
  A dialog that is closed while its request is in flight (`dismissed`) breaks it.
- `SearchSettles`: the search box, the URL and the list agree in the end, through
  the pills, the sidebar and the pages that change the same URL.
- `OneStory`, `ProfilesAnswered`, `PageSettles`: whatever order seven hooks are
  answered in, the chain ends with the range, the anomaly and the profiles of
  one meter; a profile is missing only for the three reasons the property names.
- `VerdictByTable`: a signal that a row of the methodology's table is about is reported
  under that row's rule, although rules take evidence from each other in order. The
  table (`TableRule`) has no row for a voltage signal beside a change of consumption
  nor for an equipment signal beside a drop; see below.
- `FalsePositivesLast`: no magnitude, event or supporting signal lifts a false
  positive above another finding.

### Where the code and its documentation disagree

Two runs show it. `triage_race`: two operators who act at once move an anomaly by a
transition that is not allowed, because the update has no condition on the status
(`openapi.yaml:403`). `pipeline_unclassified`: a voltage signal beside a change of
consumption is in no finding, because R1 is for voltage without one (`rules.py:79`)
and R6 takes power factor and current only, against "ninguna señal queda sin
clasificar" (`METHODOLOGY.md:291`, and `:309`). `PROJECT.json` quotes the lines
(`findings`).

The others were met while modelling and have no run of their own. The models
contain them, and no property claims the contrary:

- Job. Two overlapping processes both create an active analysis: `startMutex` is
  per process (`analysis.sql:18` says only one is active). `FailInterruptedAnalyses`
  closes a row that an overlapping process still works on, whose next step makes
  it RUNNING again. With `Overlap = TRUE`, `AtMostOneActive` fails.
- Job. A lost commit is taken for a failure: a FAILED analysis with stored results
  (against `service_test.go:352`). With `"lost"` among the faults `ImplementsBoard`
  fails.
- Job. A failure whose record fails leaves a RUNNING row that every request reuses
  until a restart.
- Job. `RefreshMeterStatuses` sets every active meter, also one created while the
  analysis ran. An analysis of some meters, which no page asks for, becomes the
  latest one and hides the anomalies of the others.
- Watch. The GET sent on mount, answered late, replaces the analysis just started,
  whose end is then never announced (the drawer promises otherwise,
  `AnalysisDrawer.tsx:139`). The drawer and the card of the last analysis say that
  none was run when the GET of the latest failed or is not answered yet.
- Session. With a `JWT_TTL` over 24.8 days, which `config.go:89` accepts, `clampDelay`
  (`AuthContext.tsx:13`) cuts the timers to the longest a browser takes: they fire
  before the token expires, warn, and end a session that is valid.
- Session. The late 401 of an old request, or the expiry timer of a tab that has
  not handled the storage event, removes the session signed in with since
  (`LoginForm.tsx:54`). A tab keeps the warning, or the notice of the expiry, of an
  earlier session when it adopts another tab's (`AuthContext.tsx:52`).
- Triage. The note's limit of 500 characters counts bytes (`anomaly/service.go:80`,
  against `openapi.yaml:415`).
- Ingestion. A meter that is restored by one import and deleted again between
  another's search and insert gets a second meter; two imports that wait for the
  same deleted meter both count it as restored.
- Import page. An upload that ends after the page was left and opened again is
  missing from the new page's history until something reads it again, and offers
  no analysis. A retry after a lost answer inserts nothing, so the banner does not
  appear. The banner stays after the analysis it asked for completes. A slow
  upload appears below newer ones, by its number. A file rejected by the dropzone
  and chosen again fires no change.
- Meters. The last meter of the last page deleted leaves a page that says there are
  no meters, or no results (`MetersPage.tsx:155`). The page and the total are two
  statements (`meter/repository.go:54`) that can disagree until the next load.
- Meters. The form sends every field, so saving it undoes what another operator
  changed since the page was loaded; an optional field that was cleared keeps its
  value (`COALESCE`, `meter.sql:54`) although the toast says it was updated. A
  creation repeated after a lost answer is refused as a duplicate of itself.
- Detail of a meter. After going from a meter with an anomaly to one without, or
  after an analysis that found none, the page says that it has no anomalies
  (`MeterDetailPage.tsx:189`) beside profiles split at the old one's change:
  `useFetch` keeps its data when the path becomes null. With a change older than
  the range the profiles answer an error. The panel says that each variable has
  the threshold of the engine (`MeterDetailPage.tsx:160`), while `ElectricalPanel.tsx`
  draws current against 1.5 times the peak of the range chosen.
- Pipeline. The row of R6 is for equipment signals without a change of consumption
  (`METHODOLOGY.md:301`), but the code also reports by it those left beside a drop
  (`BesideTheTable`). A finding of R4 or R5 gets the bonus of an event that explains it,
  though the verdict is that it does not.

## What is proved

For every number of rows, handlers, processes, faults, pages, requests, tabs,
uploads, files, meters, analyses and signals. The proofs use the named assumptions on the constants
and, where the text says so, the condition of the theorem.

`AnalysisProofs`:

- `TypeCorrect`: `Safe => []TypeOK`. One lemma per helper that writes a variable
  says what it preserves; the step of each action cites the helpers it uses.
- `OneAtATimeHolds`, `AtMostOneActiveHolds`, `CompletedHasNoErrorHolds`, all with
  `Overlap = FALSE`. `AtMostOneActive` is not inductive: a worker's `SetStep` could
  make a finished row active again and a handler could insert after another had.
  `OneAtATime` adds what prevents it: one process runs; handlers and workers
  belong to a process that has not passed the point where it waits for them; what
  a handler read under the mutex still holds, and only one has read; a worker
  that can still advance its row finds it active; ids are given in order; only a
  failed row has an error. It is also checked by TLC in `analysis_faults`.

On top of `OneAtATime`, in the same module:

- `ImplementsBoardHolds` (`Overlap = FALSE`, no lost answers): the refinement. Its
  invariant `DrivenIsActive` says that a worker that has not ended finds its row
  active also when it is about to fail it, which a lost commit would break.
- `ActiveIsDrivenHolds` (`Overlap = FALSE`, only crashes): by `DrivenUntilDown`, the
  same for processes that drain as well: a row is left without a worker only by a
  crash, and no process runs then.
- `DoneStaysDoneHolds` (`Overlap = FALSE`, no lost answers): the row of a worker is at
  the step the worker wrote last (`StepsFollow`), so that each write advances it; the
  other writes find it active (`DrivenIsActive`) and keep its step. A lost commit
  breaks it: the failure that follows takes a completed row back. `DoneMeans` reads
  off the drawer's rule that a step is done if the row is complete or past it.

`Pipeline`, in the same module, for every list of signals the detectors may emit and
every list of events:

- `CountedOnceHolds`, `VerdictByTableHolds` and `FalsePositivesLastHolds`, by one
  invariant, `ClassifyInvariant`. None of the three is inductive. What is missing is
  what the rules tried so far have done to the evidence. `RuleFor` is the rule the
  code ends with for each signal, if any; it completes the methodology's table where
  that has no row (`RulesFollowTheTable`), and `Reported` says in its words: a signal still available is due to the rule being tried or to a
  later one; what is due to a later one is still available; of what is due to one rule
  all is available or none, but for the drops, which are taken one at a time; and what
  is gone was reported by the rule it was due to. Two lemmas carry the step:
  `MatchIsTheTable`, that a match takes what `RuleFor` gives to its rule, all of it
  and nothing else, and `NoMatchIsDone`, that a rule that no longer matches has left
  nothing of its own. `OneUser` is what two findings may not share. The third theorem
  bounds each factor of the score (`PartsOfScore`, `PriorityIs`).
- `BesideTheTable`: what becomes of the signals no row is about: R6 reports the
  equipment signals beside a drop, and voltage signals beside a change are left.
- `OnlyFalsePositivesAfterOne`: with the order of the answer (`InOrder`), what the score
  bounds mean for the list.
- `LoopProgresses`: each match takes a signal away for good and every other step goes
  on to the next rule, so the `while` of `classify` ends.
- They rest on `ConsumptionAssumption` and `ElectricalAssumption`, what
  `level_shift.py` and the other detectors can return. One shift of level at most is
  needed: with two surges, one explained and one not, the explained rule takes the
  first with the overcurrents and leaves the second to the next rule, against the
  table. How many drops there are does not matter, nor how long the other lists are.
- `remaining` and what a matcher takes are sets of positions, not lists, so no proof
  has to go through a list element by element; the order of the list is in the least
  position, which is the element a matcher finds first.

`TriageProofs`:

- `TriageTypeCorrect`, by `WellFormed`: the type, that requests in flight carry a
  transition the page offered, and that a successful answer carries a status.
- `ConflictMeansStaleHolds`: from the equality of the two tables (`SameTable`) and
  `WellFormed`.
- `SerialWorkflowHolds`: a request that overlapped no other is the only one in flight
  (`AloneIsAlone`), and so what it checked is still the row's status when it writes
  (`CheckedStillAllowed`).
- `PendingHasItsRequestHolds`, by the invariant that a request a page owns is in
  flight and is the one it shows as pending, and by the uniqueness of it.
- `SuccessShowsTheRowHolds`: what a request that overlapped no other wrote is still the
  row when its answer is delivered, with the note it carried (`WrittenIsTheRow`),
  and only a delivery ends a successful request
  (`OnlyDeliveryEnds`).

`WatchProofs`:

- `ActiveIsPolledHolds`: inductive as it stands.
- `ListIsCurrentHolds`, by `WatchInv`: a poll that says an analysis is over is right
  however late it comes (`OverIsTrue`), what was announced is over (`ToldIsOver`),
  and from then on the GET of the list in flight, or the last one, was handled
  after it (`ListWillBeCurrent`).
- `ToldOnceHolds` and `ShownMovesForwardHolds`, by `OrderInv`. Of two requests
  in flight one was sent before the other (`AheadOK`); only the newest analysis runs
  (`OnlyNewestRuns`); an end that an answer or the screen tells is true (`AnswersTrue`,
  `ShownTrue`). And while no request overtook another, those sent before one that has
  its answer have theirs (`AheadAnswered`); of two answers the one sent later does not
  go back from the other (`AnswersInOrder`), nor any of them from the screen
  (`AnswersForward`); and what was told is shown as ended (`ToldIsPast`). Every step is one of five shapes
  (`StepShapes`), and the parts are proved by shape.

`SessionProofs`: `SessionTypeCorrect`, `TabsAgreeHolds` and `NoticeEarnedHolds`, by one
invariant: the type, `Unissued` (nothing carries a token not issued yet),
`RefusedHadNone` (a refused request had no token or an expired one) and `TabsAgree`,
which is inductive with them.

`IngestionProofs`:

- `BatchCountsAreTrueHolds`, `ErrorLeavesNothingHolds`, `HistoryInOneMeterHolds`, by an
  invariant of named parts, one per upload: what is held is hidden and held by an
  open transaction (`HiddenIsHeld`, `Clean`, `Private`), the counters are what was
  added (`Counted`, `Recorded`), an upload that searches has a code without a meter
  (`Progress`), and a code about to get a meter has no deleted one unless a meter
  was deleted meanwhile (`Orphan`).
- `SuccessMeansStoredHolds`, by a second invariant: the meters an upload knows have
  the code it looked for and are visible or its own (`Known`, `Targeted`), and the
  rows before the next one are stored by it or by an upload that committed
  (`Stored`): a row of one that has not committed makes it wait.

`MetersProofs`: `ListMatchesQueryHolds`, `NothingToldIsMissingHolds` and
`DraftKeptHolds`, by one invariant. Nobody is told of a version the table does not
have (`Versions`, since versions only grow); one dialog is open at most
(`OneDialog`); unless one was left with its request in flight, one request is in
flight at most, its dialog is open and the query is the one it was sent with
(`Waiting`), from which the request of the list, or what it answered, is of the
query of the URL (`OfUrl`) and not older than what was told (`Fresh`).
`OnlyDeliveryFrees` reduces `DraftKept` to the one action that answers a dialog.

`ImportsProofs`: `ImportsInvariant`, `AnsweredIsShownHolds` and
`OutcomeIsOfTheFileHolds`, by one invariant. What the service has not ended shows no
batch (`Settled`); an upload the page waits for is of a card that still has its file
(`OfItsCard`), one per card (`OneEach`), and a card that says it uploads has one
(`HasItsUpload`); no upload is of a page that was left (`Away`). `Listed` is the rest of
`AnsweredIsShown`: once an upload is answered, the answer on its way to the history
has it too, or newer ones enough to fill the list (`LatestHas`, `NewerGrows`).

`PagesProofs`: `PagesInvariant`, `OneStoryHolds`, `NewsIsShownHolds` and
`ProfilesAnsweredHolds`, by one invariant, stated hook by hook (`HookOf`): a hook at
rest has the data of its path (`Settled`); a list is not older than what was announced
(`NotOlder`), nor a meter's last reading than what the announced analysis found
(`UpToDate`); the anomaly on screen is one that was found (`Found`); every path is the
one a render would give it now (`Synced`); and without faults a hook fails only on a
range the service refuses (`Refused`). A step moves each hook by one of three moves
(kept, stopped, sent anew), which keep all of this. The proof needs that dates are
positive, that the longest span of the selector is one the service accepts and that
operators enter by pages that exist, which `PagesBounds` and `EntriesArePages` state.
The attempt also found two CASE expressions of `Pages` and `Analysis` with guards that
overlap, whose value TLA+ leaves open though TLC takes the first: they are IFs now.

Only model-checked:

- Liveness under fairness, which the prover does not reach: `EveryAnalysisSettles`,
  `EveryRequestEnds`, `EveryClickEnds`, `ToldWhenItEndsInOrder`, `ExpiredEnds`,
  `EveryUploadEnds`, `UploadsEnd`, `SearchSettles`, `PageSettles`.
- That an answer exists, in `Pipeline`: every list has an order by priority, which is
  a fact by induction over the list. Evaluated by TLC on the run's bounds, a step is
  enabled in every state before the answer; no run states it.

Of the safety properties that runs expect to hold, every one has a theorem. The type
invariants are proved, or part of an invariant that is, for every module with proofs.

## What is not modelled, and why

The parts marked `not_modelled` in `PROJECT.json`:

- The detectors and the building of series: sequential arithmetic over
  floating-point series (medians, CUSUM, percentiles), without state between
  calls. A model over small integers would repeat the unit tests, and what they
  may emit together is the parameter of `Pipeline`.
- The API of the AI service, the explanations and the KPIs: one request in, one
  answer out; a failure is one of the AI client or of a page's hook, which are
  modelled. A failed model falls back to a template within the call.
- Routing, encoding, logging, configuration, health, migrations and generated code:
  no behaviour over time, or mapped through the queries they come from.
- Charts, formats and theme only show what the modelled parts hold.

Left out of modules that are there: the payloads of an analysis and an analysis
of chosen meters, which no page asks for; the filters of the page of anomalies;
passwords and signatures; events, which differ from readings in their unique key.

What would add most next: the detectors as functions over short series, against a
reference definition of maximal runs, which would show that what they return is
within the assumptions of `Pipeline`.
