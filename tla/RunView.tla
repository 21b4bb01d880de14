------------------------------ MODULE RunView ------------------------------
(* One workflow run and one browser that submits it and watches it.         *)
(*                                                                          *)
(* The runner writes its rows (run, scenario runs, test results) and a      *)
(* journal of events.  The browser learns of them along four paths that     *)
(* race each other: the event stream, whose events wait in two queues until *)
(* a render's effects take them; the replay of the journal from a cursor;   *)
(* snapshots of the rows; and the answer to its own cancel request.  An     *)
(* answer carries what the server held when it served the request and may   *)
(* be delivered much later.                                                 *)
EXTENDS RunStatus, Sequences, SequencesExt, FiniteSets, FiniteSetsExt

CONSTANTS
    Scenarios,      \* scenarios of the run; each has one test
    QueueCap,       \* 500: length of the stream's queues and of activities
    PageSize,       \* 200: events of one page of the journal
    MaxActivities,  \* bound of the model: structured events of a scenario
    MaxDrops,       \* bound of the model: streams lost
    MaxFailures,    \* bound of the model: failed requests
    MaxRetries,     \* bound of the model: presses of the Retry button
    MaxCancels,     \* bound of the model: cancel requests
    MaxClicks,      \* bound of the model: refreshes and loads of earlier events
    MaxVisits,      \* bound of the model: mounts of the page
    Outcomes,       \* of a test: subset of {"passed", "failed"}
    Streaming,      \* whether the network lets event streams through
    WorkerFails     \* whether the worker may give up (failJob)

ASSUME RunViewAssumption ==
    /\ {QueueCap, PageSize} \subseteq Nat \ {0}
    /\ {MaxActivities, MaxDrops, MaxFailures, MaxRetries, MaxCancels, MaxClicks,
        MaxVisits} \subseteq Nat
    /\ Outcomes \subseteq {"passed", "failed"}
    /\ Streaming \in BOOLEAN /\ WorkerFails \in BOOLEAN

VARIABLES
    runner,    \* rows of the run, its scenarios and tests; the job; the worker's progress
    journal,   \* workflow_run_events: the position of an event is its id
    ui,        \* stores and state of the page in the browser
    reqs,      \* requests that have been served and not yet answered
    budget     \* faults and user actions left

vars == <<runner, journal, ui, reqs, budget>>

----------------------------------------------------------------------------
(* The runner.  Rows are written before the event that announces them.      *)

(* activity is the status a structured event reports of its test, None for  *)
(* a plain message; aggregated marks the final event, whose result holds    *)
(* the status of every scenario.                                            *)
LogEvent(scenario, status) ==
    [topic |-> "workflowlog", scenario |-> scenario, status |-> status,
     activity |-> None, aggregated |-> None]

ActivityEvent(scenario, activity) ==
    [LogEvent(scenario, "running") EXCEPT !.activity = activity]

ResultEvent(scenario, results) ==
    [topic |-> "testresult", scenario |-> scenario, status |-> results,
     activity |-> None, aggregated |-> None]

Emit(events) == journal' = journal \o events

Working == runner.job \in {"running", "cancelling"}

(* A claimed job: updateRun, then the first event.                          *)
ClaimJob ==
    /\ runner.job = "pending"
    /\ runner' = [runner EXCEPT !.job = "running", !.run = "running", !.step = "scenarios"]
    /\ Emit(<<LogEvent(None, "running")>>)
    /\ UNCHANGED <<ui, reqs, budget>>

RunScenario(s) ==
    /\ Working /\ runner.step = "scenarios" /\ runner.phase[s] = "waiting"
    /\ runner' = [runner EXCEPT !.scenario[s] = "running", !.phase[s] = "testing"]
    /\ Emit(<<LogEvent(s, "running")>>)
    /\ UNCHANGED <<ui, reqs, budget>>

(* The test runs: it is announced, then its row is written, then the event  *)
(* with its outcome.                                                        *)
TestStarted(s) ==
    /\ Working /\ runner.phase[s] = "testing" /\ runner.test[s] = None
    /\ runner.activities[s] < MaxActivities
    /\ runner' = [runner EXCEPT !.activities[s] = @ + 1]
    /\ Emit(<<ActivityEvent(s, "started")>>)
    /\ UNCHANGED <<ui, reqs, budget>>

TestRan(s, outcome) ==
    /\ Working /\ runner.phase[s] = "testing" /\ runner.test[s] = None
    /\ runner' = [runner EXCEPT !.test[s] = outcome]
    /\ Emit(<<ActivityEvent(s, outcome)>>)
    /\ UNCHANGED <<ui, reqs, budget>>

ScenarioEnd(s) ==
    IF runner.test[s] = "passed" THEN {"completed", "cleanup_failed"} ELSE {"failed", "cleanup_failed"}

(* updateScenario writes the row; emitTestResults and emitLog follow.  The  *)
(* services of a scenario without a test outcome could not be provisioned.  *)
ScenarioRowWritten(s, status) ==
    /\ Working /\ runner.phase[s] = "testing" /\ status \in ScenarioEnd(s)
    /\ runner' = [runner EXCEPT !.scenario[s] = status, !.phase[s] = "written"]
    /\ UNCHANGED <<journal, ui, reqs, budget>>

ScenarioReported(s) ==
    /\ Working /\ runner.phase[s] = "written"
    /\ runner' = [runner EXCEPT !.phase[s] = "ended"]
    /\ Emit(<<ResultEvent(s, {runner.test[s]} \ {None}), LogEvent(s, runner.scenario[s])>>)
    /\ UNCHANGED <<ui, reqs, budget>>

FinalStatus ==
    LET ends == {runner.scenario[s] : s \in Scenarios}
    IN  IF "cleanup_failed" \in ends THEN "cleanup_failed"
        ELSE IF ends = {"completed"} THEN "completed"
        ELSE IF "completed" \in ends THEN "partial_failed"
        ELSE "failed"

RunRowWritten ==
    /\ Working /\ runner.step = "scenarios"
    /\ \A s \in Scenarios : runner.phase[s] = "ended"
    /\ runner' = [runner EXCEPT !.run = FinalStatus, !.step = "announce"]
    /\ UNCHANGED <<journal, ui, reqs, budget>>

RunEndEmitted ==
    /\ Working /\ runner.step = "announce"
    /\ runner' = [runner EXCEPT !.step = "complete"]
    /\ Emit(<<[LogEvent(None, FinalStatus) EXCEPT !.aggregated = runner.scenario]>>)
    /\ UNCHANGED <<ui, reqs, budget>>

(* CompleteWorkflowJob: the job of a failed run is completed too.           *)
JobCompleted ==
    /\ runner.job = "running" /\ runner.step = "complete"
    /\ runner' = [runner EXCEPT !.job = "completed", !.step = "done"]
    /\ UNCHANGED <<journal, ui, reqs, budget>>

(* failJob: job and row first, then the event with the diagnostic.          *)
JobFailed ==
    /\ WorkerFails
    /\ runner.job = "running" /\ runner.step = "scenarios"
    /\ runner' = [runner EXCEPT !.job = "failed", !.run = "failed", !.step = "diagnose"]
    /\ UNCHANGED <<journal, ui, reqs, budget>>

FailureEmitted ==
    /\ runner.step = "diagnose"
    /\ runner' = [runner EXCEPT !.step = "done"]
    /\ Emit(<<[LogEvent(None, "failed") EXCEPT !.activity = "failed"]>>)
    /\ UNCHANGED <<ui, reqs, budget>>

(* Rows and event of a cancellation are one transaction.                    *)
CancelledRecords(status) ==
    [runner EXCEPT !.job = status, !.run = status,
                   !.scenario = [s \in Scenarios |->
                      IF runner.scenario[s] \in {"completed", "failed", "cleanup_failed", "cancelled"}
                      THEN runner.scenario[s] ELSE status]]

CancelJob ==
    /\ runner.job = "cancelling"
    /\ runner' = [CancelledRecords("cancelled") EXCEPT !.step = "done"]
    /\ Emit(<<LogEvent(None, "cancelled")>>)
    /\ UNCHANGED <<ui, reqs, budget>>

Ended == runner.job \in {"completed", "failed", "cancelled"} /\ runner.step = "done"

----------------------------------------------------------------------------
(* The browser's stores.                                                    *)

UpdateExecutionStatus(u, status) ==
    IF u.status = None THEN u ELSE [u EXCEPT !.status = status]

UpdateReplayCursor(u, id) ==
    IF u.status # None /\ id > u.cursor THEN [u EXCEPT !.cursor = id] ELSE u

UpdateScenarioRun(u, s, status) ==
    IF u.scenario[s] = None THEN u ELSE [u EXCEPT !.scenario[s] = status]

(* updateTestResult creates the result with version 1 or raises its         *)
(* version.                                                                 *)
UpdateTestResult(u, s, status) ==
    [u EXCEPT !.test[s] = [status |-> status, version |-> @.version + 1]]

(* deserializeTestResult gives every row version 1.                         *)
UpsertTestResultFromSync(u, s, status) ==
    IF status = None \/ u.test[s].version > 1 THEN u
    ELSE [u EXCEPT !.test[s] = [status |-> status, version |-> 1]]

\* Mutant: the snapshot does not touch the scenario runs.
HydratedRunOnly(u, snapshot) ==
    [u EXCEPT !.status = snapshot.run]

(* hydrateWorkflowRunSnapshot: run and scenario rows replace the stored     *)
(* ones whatever those hold.                                                *)
HydrateWorkflowRunSnapshot(u, snapshot) ==
    LET v == [u EXCEPT !.status = snapshot.run, !.scenario = snapshot.scenario]
    IN  FoldSet(LAMBDA s, w : UpsertTestResultFromSync(w, s, snapshot.test[s]), v, Scenarios)

----------------------------------------------------------------------------
(* Requests.  A request is added together with the answer that the server   *)
(* gives at that moment.                                                    *)

RunSnapshot == [run |-> runner.run, scenario |-> runner.scenario, test |-> runner.test]

LogIds == {i \in 1..Len(journal) : journal[i].topic = "workflowlog"}

(* The events that the page draws; of the others only the text is kept.     *)
Structured == {i \in LogIds : journal[i].activity # None}

(* The newest PageSize workflowlog events, events of the other topic are    *)
(* not listed.                                                              *)
NewestPage == {i \in LogIds : Cardinality({j \in LogIds : j > i}) < PageSize}

(* fetchWorkflowRunEventsSince walks page after page back to the cursor.    *)
EventsSince(cursor) == {i \in LogIds : i > cursor}

SnapshotRequest(kind, visit) == [kind |-> kind, visit |-> visit, answer |-> RunSnapshot]
PageRequest(kind, visit, ids) == [kind |-> kind, visit |-> visit, answer |-> ids]

Reconciling == \E r \in reqs : r.kind \in {"replay", "reconcile"} /\ r.visit = ui.visit

----------------------------------------------------------------------------
(* The page: what one mount of it keeps in React state and refs.            *)

FreshPage(u, visit) ==
    [u EXCEPT !.visit = visit, !.open = TRUE, !.hydrated = FALSE, !.error = FALSE,
              !.logQueue = <<>>, !.resultQueue = <<>>, !.processed = {}, !.activities = <<>>,
              !.persisted = {}, !.oldest = 0, !.stream = "closed", !.position = 0,
              !.streamFor = None, !.connected = FALSE, !.terminalReconciled = FALSE,
              !.again = FALSE]

(* execute: the stores know the run before it is submitted; an answer other *)
(* than 202, or none, marks it failed.                                      *)
Execute(answer) ==
    /\ ui.status = None /\ runner.job = None
    /\ \/ /\ answer \in {"accepted", "lost"}
          /\ runner' = [runner EXCEPT !.job = "pending", !.run = "pending",
                                      !.scenario = [s \in Scenarios |-> "pending"]]
       \/ /\ answer = "refused"
          /\ UNCHANGED runner
    /\ answer # "accepted" => budget.failures > 0
    /\ budget' = IF answer = "accepted" THEN budget ELSE [budget EXCEPT !.failures = @ - 1]
    /\ ui' = [ui EXCEPT !.status = IF answer = "accepted" THEN "pending" ELSE "failed",
                        !.scenario = [s \in Scenarios |-> "pending"]]
    /\ UNCHANGED <<journal, reqs>>

(* A mount starts loadInitialRun.                                           *)
OpenPage ==
    /\ runner.job # None /\ budget.visits > 0
    /\ ui' = FreshPage(ui, ui.visit + 1)
    /\ reqs' = reqs \cup {SnapshotRequest("load", ui.visit + 1)}
    /\ budget' = [budget EXCEPT !.visits = @ - 1]
    /\ UNCHANGED <<runner, journal>>

Retry ==
    /\ ui.open /\ ui.error /\ budget.retries > 0
    /\ ui' = [ui EXCEPT !.error = FALSE]
    /\ reqs' = reqs \cup {SnapshotRequest("load", ui.visit)}
    /\ budget' = [budget EXCEPT !.retries = @ - 1]
    /\ UNCHANGED <<runner, journal>>

\* Mutant: the first page moves the cursor and is not shown.
PageNotShown(u, ids) ==
    LET v == [u EXCEPT !.oldest = IF ids = {} THEN 0 ELSE Min(ids)]
    IN  IF ids = {} THEN v ELSE UpdateReplayCursor(v, Max(ids))

PageLoaded(u, ids) ==
    LET v == [u EXCEPT !.persisted = ids \cap Structured, !.oldest = IF ids = {} THEN 0 ELSE Min(ids)]
    IN  IF ids = {} THEN v ELSE UpdateReplayCursor(v, Max(ids))

EventsReplayed(u, ids) ==
    LET v == [u EXCEPT !.persisted = @ \cup (ids \cap Structured)]
    IN  IF ids = {} THEN v ELSE UpdateReplayCursor(v, Max(ids))

(* What an answer to an unmounted page still does: the stores are global.   *)
StoresOf(u, v) ==
    [u EXCEPT !.status = v.status, !.cursor = v.cursor, !.scenario = v.scenario, !.test = v.test]

Applied(r, v) == IF r.visit = ui.visit THEN v ELSE StoresOf(ui, v)

LoadInitialRun(r) ==
    \/ /\ r.kind = "load"
       /\ ui' = Applied(r, HydrateWorkflowRunSnapshot(ui, r.answer))
       /\ reqs' = (reqs \ {r}) \cup {PageRequest("page", r.visit, NewestPage)}
    \/ /\ r.kind = "page"
       /\ ui' = Applied(r, [PageLoaded(ui, r.answer) EXCEPT !.hydrated = TRUE])
       /\ reqs' = reqs \ {r}

(* reconcileDurableRun: replay, then snapshot; a caller that waits for the  *)
(* one in flight starts another after it.                                   *)
ReconcileDurableRun(r) ==
    \/ /\ r.kind = "replay"
       /\ ui' = Applied(r, EventsReplayed(ui, r.answer))
       /\ reqs' = (reqs \ {r}) \cup {SnapshotRequest("reconcile", r.visit)}
    \/ /\ r.kind = "reconcile"
       /\ LET v == Applied(r, HydrateWorkflowRunSnapshot(ui, r.answer))
              again == r.visit = ui.visit /\ ui.again
          IN  /\ ui' = IF again THEN [v EXCEPT !.again = FALSE] ELSE v
              /\ reqs' = (reqs \ {r}) \cup
                    IF again THEN {PageRequest("replay", r.visit, EventsSince(ui.cursor))} ELSE {}

Answered ==
    /\ \E r \in reqs :
         \/ LoadInitialRun(r)
         \/ ReconcileDurableRun(r)
         \/ /\ r.kind = "event"
            /\ ui' = HydrateWorkflowRunSnapshot(ui, r.answer)
            /\ reqs' = reqs \ {r}
         \/ /\ r.kind = "cancel"
            /\ ui' = UpdateExecutionStatus(ui, r.answer)
            /\ reqs' = reqs \ {r}
    /\ UNCHANGED <<runner, journal, budget>>

(* A failed reconciliation takes the caller that waits for it with it.      *)
RequestFailed ==
    /\ budget.failures > 0
    /\ \E r \in reqs :
         /\ reqs' = reqs \ {r}
         /\ ui' = IF r.visit # ui.visit THEN ui
                  ELSE IF r.kind \in {"load", "page"} THEN [ui EXCEPT !.error = TRUE, !.hydrated = TRUE]
                  ELSE IF r.kind \in {"replay", "reconcile"} THEN [ui EXCEPT !.again = FALSE]
                  ELSE ui
    /\ budget' = [budget EXCEPT !.failures = @ - 1]
    /\ UNCHANGED <<runner, journal>>

(* The polling fallback and the Refresh button: nothing when one runs.      *)
StartReconciliation ==
    /\ ~Reconciling
    /\ reqs' = reqs \cup {PageRequest("replay", ui.visit, EventsSince(ui.cursor))}
    /\ UNCHANGED <<runner, journal, ui>>

Click ==
    /\ ui.open /\ ui.hydrated /\ ~ui.error /\ budget.clicks > 0
    /\ budget' = [budget EXCEPT !.clicks = @ - 1]

\* Mutant: only a run that waits in the queue is polled.
ShouldPollPending == ui.open /\ ui.hydrated /\ ~ui.connected /\ ui.status = "pending"

ShouldPoll == ui.open /\ ui.hydrated /\ ~ui.connected /\ IsWorkflowRunActive(ui.status)

Poll == ShouldPoll /\ StartReconciliation /\ UNCHANGED budget

HandleRefresh == Click /\ StartReconciliation

(* loadEarlierEvents: the page before the oldest event shown.               *)
LoadEarlierEvents ==
    /\ Click
    /\ LET earlier == {i \in LogIds : i < ui.oldest}
           page == {i \in earlier : Cardinality({j \in earlier : j > i}) < PageSize}
       IN  /\ page # {}
           /\ ui' = [ui EXCEPT !.persisted = @ \cup (page \cap Structured), !.oldest = Min(page)]
    /\ UNCHANGED <<runner, journal, reqs>>

(* The DELETE request is served at once; its answer is the job's status.    *)
HandleCancel ==
    /\ ui.open /\ ui.hydrated /\ ~ui.error /\ budget.cancels > 0
    /\ IsWorkflowRunActive(ui.status)
    /\ budget' = [budget EXCEPT !.cancels = @ - 1]
    /\ LET status == CASE runner.job = "pending" -> "cancelled"
                       [] runner.job = "running" -> "cancelling"
                       [] OTHER -> runner.job
       IN  /\ IF runner.job \in {"pending", "running"}
              THEN /\ runner' = [CancelledRecords(status) EXCEPT
                                   !.step = IF status = "cancelled" THEN "done" ELSE @]
                   /\ Emit(<<LogEvent(None, status)>>)
              ELSE UNCHANGED <<runner, journal>>
           /\ reqs' = reqs \cup {[kind |-> "cancel", visit |-> ui.visit, answer |-> status]}
    /\ UNCHANGED ui

----------------------------------------------------------------------------
(* The event stream.                                                        *)

StreamOpened ==
    /\ Streaming /\ ui.stream = "connecting"
    /\ ui' = [ui EXCEPT !.stream = "open", !.connected = TRUE]
    /\ UNCHANGED <<runner, journal, reqs, budget>>

Queued(queue, id) == LET q == Append(queue, id)
                     IN  SubSeq(q, Len(q) - (IF Len(q) > QueueCap THEN QueueCap ELSE Len(q)) + 1, Len(q))

StreamDelivers ==
    /\ ui.stream = "open" /\ ui.position < Len(journal)
    /\ LET id == ui.position + 1
       IN  ui' = IF journal[id].topic = "workflowlog"
                 THEN [ui EXCEPT !.position = id, !.logQueue = Queued(@, id)]
                 ELSE [ui EXCEPT !.position = id, !.resultQueue = Queued(@, id)]
    /\ UNCHANGED <<runner, journal, reqs, budget>>

(* The server ends the stream of a finished job; the browser connects again *)
(* with the last id it received.                                            *)
StreamEnds ==
    /\ ui.stream = "open" /\ ui.position = Len(journal)
    /\ runner.job \in {"completed", "failed", "cancelled"}
    /\ ui' = [ui EXCEPT !.stream = "connecting", !.connected = FALSE]
    /\ UNCHANGED <<runner, journal, reqs, budget>>

(* A lost connection is opened again by the browser, a refused one is not.  *)
StreamDropped ==
    /\ ui.stream # "closed" /\ budget.drops > 0
    /\ \E next \in {"connecting", "closed"} :
         ui' = [ui EXCEPT !.stream = next, !.connected = FALSE,
                          !.position = IF next = "closed" THEN 0 ELSE @]
    /\ budget' = [budget EXCEPT !.drops = @ - 1]
    /\ UNCHANGED <<runner, journal, reqs>>

----------------------------------------------------------------------------
(* The effects that one commit of the page runs, in their order.  Each      *)
(* reads the values of the render, r, and writes the stores, u.             *)

Wanted(r) == IF r.hydrated /\ ~r.error /\ IsWorkflowRunActive(r.status) THEN r.status ELSE None

(* Every change of the status closes the stream and opens another one from  *)
(* the cursor; connected is reset only when none is opened.                 *)
StreamEffect(u, r) ==
    IF Wanted(r) = r.streamFor THEN u
    ELSE IF Wanted(r) = None
    THEN [u EXCEPT !.streamFor = None, !.stream = "closed", !.position = 0, !.connected = FALSE]
    ELSE [u EXCEPT !.streamFor = Wanted(r), !.stream = "connecting", !.position = u.cursor]

(* The statuses that a run's event sets; partial_failed and cleanup_failed  *)
(* come with the aggregated result only.                                    *)
RunEventStatus(event, current) ==
    IF event.scenario = None /\
       (event.aggregated # None \/ event.status \in {"running", "cancelling", "cancelled", "completed", "failed"})
    THEN event.status ELSE current

LogApplied(u, r, id) ==
    LET e == journal[id]
        listed == IF e.activity = None THEN u.activities ELSE Queued(u.activities, id)
        v == [UpdateReplayCursor(u, id) EXCEPT !.processed = @ \cup {id}, !.activities = listed]
        w == IF e.scenario = None THEN v
             ELSE UpdateScenarioRun(v, e.scenario,
                                    ResolveScenarioLogStatus(r.scenario[e.scenario], e.status))
        x == IF e.aggregated = None THEN w
             ELSE FoldSet(LAMBDA s, y : UpdateScenarioRun(y, s, e.aggregated[s]), w, Scenarios)
    IN  UpdateExecutionStatus(x, RunEventStatus(e, x.status))

(* Whether the event makes the hook fetch a snapshot.                       *)
FetchesSnapshot(id) ==
    LET e == journal[id]
    IN  e.scenario = None /\ (e.aggregated # None \/ e.status \in {"cancelled", "completed", "failed"})

LogEffect(u, r) ==
    IF r.logQueue = <<>> THEN u
    ELSE LET v == [u EXCEPT !.logQueue = Tail(@)]
         IN  IF Head(r.logQueue) \in u.processed THEN v ELSE LogApplied(v, r, Head(r.logQueue))

ResultApplied(u, r, id) ==
    LET e == journal[id]
        v == [UpdateReplayCursor(u, id) EXCEPT !.processed = @ \cup {id}]
        w == UpdateScenarioRun(v, e.scenario, ResolveScenarioTestStatus(r.scenario[e.scenario], e.status))
    IN  FoldSet(LAMBDA status, x : UpdateTestResult(x, e.scenario, status), w, e.status)

ResultEffect(u, r) ==
    IF r.resultQueue = <<>> THEN u
    ELSE LET v == [u EXCEPT !.resultQueue = Tail(@)]
         IN  IF Head(r.resultQueue) \in u.processed THEN v ELSE ResultApplied(v, r, Head(r.resultQueue))

(* Once per mount, when the status is final.                                *)
TerminalDue(r) == r.hydrated /\ IsTerminal(r.status) /\ ~r.terminalReconciled

TerminalEffect(u, r) ==
    IF TerminalDue(r) THEN [u EXCEPT !.terminalReconciled = TRUE, !.again = Reconciling] ELSE u

Commit ==
    /\ ui.open
    /\ ui.logQueue # <<>> \/ ui.resultQueue # <<>> \/ Wanted(ui) # ui.streamFor \/ TerminalDue(ui)
    /\ ui' = TerminalEffect(ResultEffect(LogEffect(StreamEffect(ui, ui), ui), ui), ui)
    /\ reqs' = reqs
         \cup (IF ui.logQueue # <<>> /\ Head(ui.logQueue) \notin ui.processed
                  /\ FetchesSnapshot(Head(ui.logQueue))
               THEN {SnapshotRequest("event", ui.visit)} ELSE {})
         \cup (IF TerminalDue(ui) /\ ~Reconciling
               THEN {PageRequest("replay", ui.visit, EventsSince(ui'.cursor))} ELSE {})
    /\ UNCHANGED <<runner, journal, budget>>

----------------------------------------------------------------------------
Init ==
    /\ runner = [run |-> None, job |-> None, step |-> "queued",
                 scenario |-> [s \in Scenarios |-> None], test |-> [s \in Scenarios |-> None],
                 phase |-> [s \in Scenarios |-> "waiting"], activities |-> [s \in Scenarios |-> 0]]
    /\ journal = <<>>
    /\ ui = [status |-> None, cursor |-> 0, scenario |-> [s \in Scenarios |-> None],
             test |-> [s \in Scenarios |-> [status |-> None, version |-> 0]],
             visit |-> 0, open |-> FALSE, hydrated |-> FALSE, error |-> FALSE,
             logQueue |-> <<>>, resultQueue |-> <<>>, processed |-> {}, activities |-> <<>>,
             persisted |-> {}, oldest |-> 0, stream |-> "closed", position |-> 0,
             streamFor |-> None, connected |-> FALSE, terminalReconciled |-> FALSE,
             again |-> FALSE]
    /\ reqs = {}
    /\ budget = [drops |-> MaxDrops, failures |-> MaxFailures, retries |-> MaxRetries,
                 cancels |-> MaxCancels, clicks |-> MaxClicks,
                 visits |-> MaxVisits]

Runner ==
    \/ ClaimJob
    \/ \E s \in Scenarios :
         \/ RunScenario(s) \/ TestStarted(s) \/ \E o \in Outcomes : TestRan(s, o)
         \/ \E status \in ScenarioStatuses : ScenarioRowWritten(s, status)
         \/ ScenarioReported(s)
    \/ RunRowWritten \/ RunEndEmitted \/ JobCompleted \/ JobFailed \/ FailureEmitted \/ CancelJob

Stream == StreamOpened \/ StreamDelivers \/ StreamEnds

User ==
    \/ \E answer \in {"accepted", "refused", "lost"} : Execute(answer)
    \/ OpenPage \/ Retry \/ HandleRefresh \/ LoadEarlierEvents \/ HandleCancel

Fault == RequestFailed \/ StreamDropped

Next == Runner \/ Stream \/ Commit \/ Poll \/ Answered \/ User \/ Fault

Spec == Init /\ [][Next]_vars

(* The worker goes on, the page commits, requests are answered, and a       *)
(* stream that neither fails nor is closed connects, delivers and ends.     *)
(* The polling effect reconciles at once whenever the connection is lost,   *)
(* so it does so again and again while the stream comes and goes.  Nothing  *)
(* is assumed of the user.                                                  *)
Fairness ==
    /\ WF_vars(Runner) /\ WF_vars(Commit) /\ SF_vars(Poll)
    /\ WF_vars(Answered) /\ WF_vars(Stream)

FairSpec == Spec /\ Fairness

----------------------------------------------------------------------------
(* Properties.                                                              *)

(* The state the browser keeps of the run has its type.                     *)
RunViewTypeOK ==
    /\ ui.status \in RunStatuses \cup {None}
    /\ ui.cursor \in 0..Len(journal)
    /\ \A s \in Scenarios :
         /\ ui.scenario[s] \in ScenarioStatuses \cup {None}
         /\ ui.test[s].status \in TestStatuses \cup {None}
    /\ ui.persisted \cup ToSet(ui.logQueue) \cup ToSet(ui.resultQueue) \subseteq 1..Len(journal)
    /\ ui.stream \in {"closed", "connecting", "open"}
    /\ Len(ui.logQueue) <= QueueCap /\ Len(ui.resultQueue) <= QueueCap

(* The replay cursor never passes a structured event that the page neither  *)
(* shows, nor has queued, nor can load with the button for earlier events:  *)
(* whatever is behind the cursor is never asked for again.                  *)
CursorCovers ==
    ui.open /\ ui.hydrated /\ ~ui.error =>
        \A i \in Structured : i <= ui.cursor =>
            \/ i \in ui.persisted \cup ToSet(ui.activities) \cup ToSet(ui.logQueue)
            \/ i < ui.oldest

(* An event of the journal is applied at most once per mount, however often *)
(* streams that are closed and opened again deliver it.                     *)
AppliedOnce == \A s \in Scenarios : ui.test[s].version <= 1 + ui.visit

DisplayedTest(s) ==
    LET shown == {i \in ui.persisted \cup ToSet(ui.activities) :
                     journal[i].scenario = s /\ journal[i].activity # None}
    IN  ReconcileTestExecutionStatus(IF shown = {} THEN None ELSE journal[Max(shown)].activity,
                                     ui.test[s].status, ui.scenario[s], ui.status)

(* The page of a finished run shows no scenario, test or service as still   *)
(* going on, whatever it missed of the run's events.                        *)
NothingLeftRunning ==
    ui.open /\ IsTerminal(ui.status) =>
        \A s \in Scenarios :
            /\ IsTerminal(ResolveScenarioPresentationStatus(ui.scenario[s], ui.status))
            /\ DisplayedTest(s) \notin {"pending", "running"}
            /\ ReconcileServiceExecutionState("testing", ui.scenario[s], ui.status) = "complete"

(* Nothing is in flight and the effects of the page have nothing left to do. *)
Settled ==
    /\ ui.open /\ ui.hydrated /\ ~ui.error
    /\ Ended /\ reqs = {} /\ ui.logQueue = <<>> /\ ui.resultQueue = <<>>
    /\ IsTerminal(ui.status) /\ ui.streamFor = None /\ ui.terminalReconciled

(* A settled page shows the status and the test results of the finished     *)
(* run's rows, whichever of stream, replay and snapshots was late, stale or *)
(* missing.                                                                 *)
SettledAgrees ==
    Settled => /\ ui.status = runner.run
               /\ \A s \in Scenarios : runner.test[s] # None => ui.test[s].status = runner.test[s]

(* A settled page never shows a run as completed whose row says that it     *)
(* failed: the stored state wins over whatever the browser was told last.   *)
FailureNotHidden ==
    Settled /\ runner.run \in {"failed", "partial_failed", "cleanup_failed"} => ui.status # "completed"

(* A settled page shows the status of every scenario's row, even if the     *)
(* final result batch arrived late (system-overview).                       *)
SettledScenarios == Settled => ui.scenario = runner.scenario

(* A settled page shows every structured event of the run or can load it:   *)
(* no terminal snapshot hides events (fetchWorkflowRunEventsSince).         *)
SettledEvents ==
    Settled => \A i \in Structured : i \in ui.persisted \cup ToSet(ui.activities) \/ i < ui.oldest

(* The page of a run settles once the run has ended: the status that it     *)
(* shows may flicker while stale answers arrive, and becomes final.         *)
Settles == <>[](ui.open => ui.error \/ Settled)
=============================================================================
