----------------------------- MODULE SyncClient -----------------------------
(* Browsers that edit workflows and scenarios locally and synchronise them  *)
(* with the runner's database.                                              *)
(*   - the stores and their middleware: workflow.store.sync.ts,             *)
(*     scenario.store.sync.ts, sync-middleware.ts;                          *)
(*   - the queue of changes and its transport: sync-service.ts, with the    *)
(*     proxy route app/api/v1/sync/[...path]/route.ts;                      *)
(*   - hydration, the conflict dialog and leaving a project:                *)
(*     sync-hydration.tsx, SyncProvider.tsx, client-state.ts;               *)
(*   - the server's transaction: runner-v2/pkg/sync/service.go.             *)
(* What an entity holds is abstracted to the set of edits that went into    *)
(* it.  Handlers run to their next await without interruption, so a handler *)
(* is one action up to its first await, and its continuation is another.    *)
EXTENDS Integers, Sequences, FiniteSets, SequencesExt

CONSTANTS
    Browsers,        \* one per browser: local stores, queue, requests
    Workflows,       \* identifiers of workflows
    Scenarios,       \* identifiers of scenarios
    Projects,
    None,            \* absent
    WorkflowOf,      \* [Scenarios -> Workflows], the parent of a scenario
    BatchSize,       \* maxBatchSize
    MaxEdits,        \* bound: store operations by users
    OpsPerTick,      \* bound: operations on one entity in one event handler
    Outstanding,     \* bound: changes a browser has queued or sent when its
                     \*   user edits (1: nobody edits faster than sync)
    MaxRequests,     \* bound: requests of one browser in the network
    MaxFaults,       \* bound: failed, timed out or lost requests
    MaxReloads,      \* bound: page reloads, page hides and project switches
    Deletes          \* whether users delete entities

Entities == Workflows \cup Scenarios
ChangeTypes == {"insert", "update", "delete"}

ASSUME SyncAssumption ==
    /\ Workflows \cap Scenarios = {}
    /\ WorkflowOf \in [Scenarios -> Workflows]
    /\ BatchSize \in Nat \ {0}

VARIABLES
    store,      \* [Browsers -> [Entities -> local copy or None]]
    queue,      \* [Browsers -> Seq(change)]; localStorage holds the same
    requests,   \* batches sent and not settled
    pulled,     \* [Browsers -> snapshot of a pull not applied yet, or None]
    dialog,     \* [Browsers -> conflict shown to the user, or None]
    phase,      \* [Browsers -> progress of initializeSyncWithHydration]
    project,    \* [Browsers -> active project]
    leaving,    \* [Browsers -> progress of clearProjectScopedClientState]
    rows,       \* [Entities -> row of the database, or None]
    edits,      \* number of store operations so far, numbers the next one
    faults, reloads,
    history     \* what became of the changes; read by properties only

vars == <<store, queue, requests, pulled, dialog, phase, project, leaving,
          rows, edits, faults, reloads, history>>
clientVars == <<pulled, phase, project, leaving>>

Copy(v, content, del) == [version |-> v, content |-> content, deleted |-> del]
Live(row) == row # None /\ ~row.deleted
Present(c, e) == store[c][e] # None /\ ~store[c][e].deleted
EditsIn(changes) == UNION {changes[i].content : i \in DOMAIN changes}
Waiting(c) == {r \in requests : r.from = c /\ r.waiting}
Max0(n) == IF n < 0 THEN 0 ELSE n

-----------------------------------------------------------------------------
(* Store operations and the queue.                                          *)

Change(e, type, copy, id) ==
    [entity |-> e, type |-> type, content |-> copy.content,
     base |-> IF type = "insert" THEN 0 ELSE Max0(copy.version - 1),
     id |-> id]

(* queueChange: an update of an entity whose insert is still queued is      *)
(* folded into that insert, which keeps base version 0; any other change is *)
(* appended.                                                                *)
QueueChange(q, new) ==
    LET same == {i \in DOMAIN q : q[i].entity = new.entity}
        first == CHOOSE i \in same : \A j \in same : i <= j
    IN  IF same # {} /\ q[first].type = "insert" /\ new.type = "update"
        THEN [q EXCEPT ![first] = [new EXCEPT !.type = "insert", !.base = 0]]
        ELSE Append(q, new)

(* coalesceChangeType: what one microtask makes of several operations.      *)
CoalescedType(first, last) ==
    IF first = "insert" /\ last = "update" THEN "insert"
    ELSE IF first = "delete" THEN "delete" ELSE last

MayEdit(c) ==
    /\ edits < MaxEdits
    /\ dialog[c] = None          \* the conflict dialog is modal
    /\ leaving[c] = "no"
    /\ Len(queue[c]) + Cardinality(Waiting(c)) < Outstanding

(* addSyncMetadata, markAsDeleted: what the store writes next.              *)
AddSyncMetadata(v, content) == Copy(v, content, FALSE)
MarkAsDeleted(copy, content) == Copy(copy.version + 1, content, TRUE)

(* syncSet: the store is set at once, the change is queued by a microtask   *)
(* that runs when the handler is done.                                      *)
SyncSet(c, e, type, copy) ==
    /\ store' = [store EXCEPT ![c][e] = copy]
    /\ queue' = [queue EXCEPT ![c] = QueueChange(@, Change(e, type, copy, edits + 1))]
    /\ edits' = edits + 1
    /\ history' = [history EXCEPT !.author[edits + 1] = c,
                                  !.entity[edits + 1] = e,
                                  !.home[e] = IF @ = None THEN project[c] ELSE @]
    /\ UNCHANGED <<requests, dialog, clientVars, rows, faults, reloads>>

Edited(c, e) == store[c][e].content \cup {edits + 1}
Editable(c, e) == MayEdit(c) /\ Present(c, e) /\ history.home[e] = project[c]
Created(k) == IF k = 0 THEN "insert" ELSE CoalescedType("insert", "update")

(* createWorkflow, createScenario, followed by k updates in the same        *)
(* handler (as keepLocalCopy and the imports do).                           *)
CreateWorkflow(c, w, k) ==
    /\ MayEdit(c)
    /\ history.home[w] = None    \* generateId never repeats an identifier
    /\ SyncSet(c, w, Created(k), AddSyncMetadata(1 + k, {edits + 1}))

CreateScenario(c, s, k) ==
    /\ Editable(c, WorkflowOf[s])
    /\ history.home[s] = None
    /\ SyncSet(c, s, Created(k), AddSyncMetadata(1 + k, {edits + 1}))

(* k calls of updateWorkflowName, updateWorkflowGraph or updateScenario in  *)
(* one handler: each raises the version, one change is queued.              *)
UpdateWorkflow(c, w, k) ==
    /\ Editable(c, w)
    /\ SyncSet(c, w, "update", AddSyncMetadata(store[c][w].version + k, Edited(c, w)))

UpdateScenario(c, s, k) ==
    /\ Editable(c, s)
    /\ SyncSet(c, s, "update", AddSyncMetadata(store[c][s].version + k, Edited(c, s)))

DeleteWorkflow(c, w) ==
    /\ Deletes
    /\ Editable(c, w)
    /\ SyncSet(c, w, "delete", MarkAsDeleted(store[c][w], Edited(c, w)))

DeleteScenario(c, s) ==
    /\ Deletes
    /\ Editable(c, s)
    /\ SyncSet(c, s, "delete", MarkAsDeleted(store[c][s], Edited(c, s)))

-----------------------------------------------------------------------------
(* Sending.                                                                 *)

Rank(change) == IF change.entity \in Workflows THEN 0 ELSE 1

\* Mutant: changes are sent in queue order.
OrderSyncChangesNot(changes) == changes

(* orderSyncChanges: parents first, otherwise in queue order.               *)
OrderSyncChanges(changes) ==
    SelectSeq(changes, LAMBDA x : Rank(x) = 0)
      \o SelectSeq(changes, LAMBDA x : Rank(x) = 1)

RequestIds == 1..(MaxRequests * Cardinality(Browsers))
FreeId == CHOOSE n \in RequestIds : \A r \in requests : r.n # n

Request(n, c, batch, sent, retry, waiting, loop) ==
    [n |-> n, from |-> c, batch |-> batch, again |-> sent,
     sent |-> OrderSyncChanges(sent), retry |-> retry, waiting |-> waiting,
     loop |-> loop, project |-> project[c], answer |-> None]

CanSend(c) == Cardinality({r \in requests : r.from = c}) < MaxRequests

Taken(q) ==
    LET n == IF BatchSize < Len(q) THEN BatchSize ELSE Len(q)
    IN  [batch |-> SubSeq(q, 1, n), left |-> SubSeq(q, n + 1, Len(q))]

Send(c, loop) ==
    /\ queue[c] # <<>>
    /\ CanSend(c)
    /\ LET t == Taken(queue[c])
       IN  /\ queue' = [queue EXCEPT ![c] = t.left]
           /\ requests' = requests \cup {Request(FreeId, c, t.batch, t.batch, FALSE, TRUE, loop)}
    /\ UNCHANGED <<store, dialog, rows, edits, faults, reloads, history>>

(* flush, by the interval, by hiding the tab or by "Sync Now": nothing      *)
(* keeps a second flush from starting while the first still waits.          *)
Flush(c) ==
    /\ phase[c] = "running"
    /\ Send(c, FALSE)
    /\ UNCHANGED clientVars

(* flushOnPageHide: the beacon's outcome is never learnt.                   *)
FlushOnPageHide(c) ==
    /\ phase[c] = "running"
    /\ queue[c] # <<>>
    /\ CanSend(c)
    /\ reloads < MaxReloads
    /\ reloads' = reloads + 1
    /\ LET t == Taken(queue[c])
       IN  /\ queue' = [queue EXCEPT ![c] = t.left]
           /\ requests' = requests \cup
                 {[Request(FreeId, c, t.batch, t.batch, FALSE, FALSE, FALSE)
                     EXCEPT !.sent = t.batch]}
           /\ history' = [history EXCEPT !.orphaned = @ \cup EditsIn(t.batch)]
    /\ UNCHANGED <<store, dialog, clientVars, rows, edits, faults>>

-----------------------------------------------------------------------------
(* The server.                                                              *)

\* Mutant: an update is stored whatever version it was based on.
ApplyUnconditionally(p, acc, ch) ==
    [acc EXCEPT !.rows[ch.entity] =
                  [version |-> ch.base + 1, content |-> ch.content,
                   deleted |-> ch.type = "delete", project |-> p],
                !.accepted = Append(@, ch)]

(* One change inside the transaction: an insert of a live row and an update *)
(* or a delete of another version than the row's are conflicts; an update   *)
(* of a row that is gone and an insert without the parent's row are errors; *)
(* an insert over a deleted row brings it back with version 1.              *)
ApplyChange(p, acc, ch) ==
    LET row  == acc.rows[ch.entity]
        Put(v) ==
          [acc EXCEPT !.rows[ch.entity] =
                        [version |-> v, content |-> ch.content,
                         deleted |-> FALSE, project |-> p],
                      !.accepted = Append(@, ch)]
        Conflict == [acc EXCEPT !.conflicts = Append(@, [change |-> ch, row |-> row])]
        Error(kind) == [acc EXCEPT !.errors = @ \cup {<<kind, ch.entity>>}]
    IN  CASE ch.type = "insert" /\ Live(row) -> Conflict
          [] ch.type = "insert" /\ ~Live(row) /\
             ch.entity \in Scenarios /\ acc.rows[WorkflowOf[ch.entity]] = None
               -> Error("no parent")
          [] ch.type = "insert" /\ ~Live(row) /\
             ~(ch.entity \in Scenarios /\ acc.rows[WorkflowOf[ch.entity]] = None)
               -> Put(1)
          [] ch.type = "update" /\ Live(row) /\ row.version = ch.base
               -> Put(ch.base + 1)
          [] ch.type = "update" /\ Live(row) /\ row.version # ch.base -> Conflict
          [] ch.type = "update" /\ ~Live(row) -> Error("no longer exists")
          [] ch.type = "delete" /\ Live(row) /\ row.version = ch.base
               -> [acc EXCEPT !.rows[ch.entity].deleted = TRUE,
                              !.rows[ch.entity].version = ch.base + 1,
                              !.accepted = Append(@, ch)]
          [] ch.type = "delete" /\ Live(row) /\ row.version # ch.base -> Conflict
          [] OTHER -> acc      \* a delete of a row that is gone

Transaction(p, changes) ==
    FoldLeft(LAMBDA acc, ch : ApplyChange(p, acc, ch),
             [rows |-> rows, errors |-> {}, conflicts |-> <<>>, accepted |-> <<>>],
             changes)

(* Accepted updates after which the row lacks an edit that it had.          *)
Erasing(t) ==
    {t.accepted[i].id : i \in {j \in DOMAIN t.accepted :
        LET e == t.accepted[j].entity
        IN  /\ t.accepted[j].type = "update"
            /\ Live(rows[e])
            /\ ~(rows[e].content \subseteq t.rows[e].content)}}

(* bindSyncBatchToIdentity: the proxy puts every change of the batch into   *)
(* the project of the request, whichever project it was made in.            *)
BindSyncBatchToIdentity(r) == r.project

(* ProcessBatch: any error rolls the whole batch back.  The answer goes to  *)
(* the browser if it still waits.                                           *)
ProcessBatch(r) ==
    /\ r.answer = None
    /\ LET t  == Transaction(BindSyncBatchToIdentity(r), r.sent)
           ok == t.errors = {}
       IN  /\ rows' = IF ok THEN t.rows ELSE rows
           /\ requests' = (requests \ {r}) \cup
                IF r.waiting
                THEN {[r EXCEPT !.answer = [errors |-> t.errors,
                                            conflicts |-> t.conflicts]]}
                ELSE {}
           /\ history' =
                IF ~ok THEN history
                ELSE [history EXCEPT
                        !.accepts = [x \in DOMAIN @ |->
                           @[x] + Cardinality({i \in DOMAIN t.accepted :
                                                 t.accepted[i].id = x})],
                        !.refused = @ \cup {t.conflicts[i].change.id :
                                              i \in DOMAIN t.conflicts},
                        !.buried = @ \cup {e \in Entities :
                                             ~Live(t.rows[e]) /\ t.rows[e] # None},
                        !.erasing = @ \cup Erasing(t),
                        !.erasedAgain = @ \cup {x \in Erasing(t) :
                                                  history.accepts[x] > 0}]
    /\ UNCHANGED <<store, queue, dialog, clientVars, edits, faults, reloads>>

-----------------------------------------------------------------------------
(* Answers.                                                                 *)

Settled(r) == requests \ {r}

(* unshiftMany: back to the front, in front of what was queued since.       *)
Requeued(c, changes) == [queue EXCEPT ![c] = changes \o @]

LeaveFailed(r) ==
    [leaving EXCEPT ![r.from] = IF r.loop /\ @ = "flushing" THEN "failed" ELSE @]

(* The listener of "tokyo:sync-conflict" shows a conflict only when the     *)
(* server's version is ahead of the version the edit was based on.          *)
Actionable(x) == x.row.version > x.change.base

(* The batch was committed: its first actionable conflict opens the dialog, *)
(* unless that is open already.                                             *)
BatchCommitted(r) ==
    /\ r.waiting /\ r.answer # None
    /\ r.answer.errors = {}
    /\ requests' = Settled(r)
    /\ LET c == r.from
           shown == SelectSeq(r.answer.conflicts, Actionable)
           show == shown # <<>> /\ dialog[c] = None
       IN  /\ dialog' = IF show THEN [dialog EXCEPT ![c] = Head(shown)] ELSE dialog
           /\ history' = [history EXCEPT
                 !.committed = @ \cup EditsIn(r.batch),
                 !.told = IF show THEN @ \cup {Head(shown).change.id} ELSE @]
    /\ UNCHANGED <<store, queue, clientVars, rows, edits, faults, reloads>>

(* repairMissingEntityUpdates: updates of entities the server no longer has *)
(* are sent once more as inserts.                                           *)
Repaired(r) ==
    [i \in DOMAIN r.batch |->
       IF /\ r.batch[i].type = "update"
          /\ <<"no longer exists", r.batch[i].entity>> \in r.answer.errors
       THEN [r.batch[i] EXCEPT !.type = "insert", !.base = 0]
       ELSE r.batch[i]]

BatchRepaired(r) ==
    /\ r.waiting /\ r.answer # None
    /\ r.answer.errors # {}
    /\ ~r.retry
    /\ Repaired(r) # r.batch
    /\ requests' = Settled(r) \cup
          {Request(r.n, r.from, r.batch, Repaired(r), TRUE, TRUE, r.loop)}
    /\ UNCHANGED <<store, queue, dialog, clientVars, rows, edits, faults,
                   reloads, history>>

(* The server rolled the batch back: it is queued again, repaired if this   *)
(* was the repaired attempt.                                                *)
BatchRolledBack(r) ==
    /\ r.waiting /\ r.answer # None
    /\ r.answer.errors # {}
    /\ r.retry \/ Repaired(r) = r.batch
    /\ requests' = Settled(r)
    /\ queue' = Requeued(r.from, r.again)
    /\ leaving' = LeaveFailed(r)
    /\ UNCHANGED <<store, dialog, pulled, phase, project, rows, edits, faults,
                   reloads, history>>

(* What a failed request leaves behind: the batch is queued again, as it    *)
(* was before any repair.                                                   *)
Failed(r) ==
    /\ r.waiting
    /\ faults < MaxFaults
    /\ faults' = faults + 1
    /\ queue' = Requeued(r.from, r.batch)
    /\ leaving' = LeaveFailed(r)
    /\ UNCHANGED <<store, dialog, pulled, phase, project, rows, edits,
                   reloads, history>>

(* The proxy refuses the batch (session gone, permission withdrawn) or      *)
(* cannot reach the runner.                                                 *)
RequestRefused(r) == Failed(r) /\ r.answer = None /\ requests' = Settled(r)

(* The browser gives up after its timeout; the request may still arrive.    *)
RequestTimedOut(r) ==
    /\ Failed(r)
    /\ r.answer = None
    /\ requests' = Settled(r) \cup {[r EXCEPT !.waiting = FALSE]}

(* The batch was processed but its answer does not reach the browser.       *)
AnswerLost(r) == Failed(r) /\ r.answer # None /\ requests' = Settled(r)

(* A request nobody waits for any more is lost in the network.              *)
RequestLost(r) ==
    /\ ~r.waiting
    /\ requests' = Settled(r)
    /\ UNCHANGED <<store, queue, dialog, clientVars, rows, edits, faults,
                   reloads, history>>

-----------------------------------------------------------------------------
(* Hydration.                                                               *)

(* deserializeWorkflow, deserializeScenario                                 *)
Deserialized(row) == Copy(row.version, row.content, FALSE)

(* PullChanges: the live rows of the active project.                        *)
Snapshot(c) ==
    [e \in Entities |->
       IF Live(rows[e]) /\ rows[e].project = project[c]
       THEN Deserialized(rows[e]) ELSE None]

AfterPull(ph) == IF ph = "pull1" THEN "flush" ELSE "running"

(* pull: the server reads its rows; the answer is applied later.            *)
Pull(c) ==
    /\ pulled[c] = None
    /\ phase[c] \in {"pull1", "pull2"} \/ (phase[c] = "running" /\ reloads < MaxReloads)
    /\ pulled' = [pulled EXCEPT ![c] = Snapshot(c)]
    /\ UNCHANGED <<store, queue, requests, dialog, phase, project, leaving, rows,
                   edits, faults, reloads, history>>

\* Mutant: the pulled copy always replaces the local one.
KeepsLocalNever(local, incoming, later) == FALSE

(* upsertWorkflowFromSync, upsertScenarioFromSync: the local copy stays     *)
(* when its version is higher, or equal and, by the clocks of browser and   *)
(* server, later.                                                           *)
KeepsLocal(local, incoming, later) ==
    /\ local # None
    /\ \/ local.version > incoming.version
       \/ local.version = incoming.version /\ later

(* Edits the local copies lose when those become the given ones.            *)
Replaced(c, copies) ==
    UNION {store[c][e].content \ copies[e].content :
             e \in {x \in Entities : store[c][x] # None}}

(* hydrateWorkflows, hydrateScenarios: force is the dialog that restores    *)
(* old versions; later are the entities whose local copy has the later time.*)
Hydrated(c, force, later) ==
    [e \in Entities |->
       IF \/ pulled[c][e] = None
          \/ ~force /\ KeepsLocal(store[c][e], pulled[c][e], e \in later)
       THEN store[c][e] ELSE pulled[c][e]]

(* hydrateFromServer, after its pull.                                       *)
HydrateFromServer(c) ==
    /\ pulled[c] # None
    /\ \E later \in SUBSET {e \in Entities : pulled[c][e] # None}, force \in BOOLEAN :
         /\ force => phase[c] = "running"
         /\ store' = [store EXCEPT ![c] = Hydrated(c, force, later)]
         /\ history' = [history EXCEPT !.forced = force,
                                       !.replaced = @ \cup Replaced(c, store'[c])]
    /\ pulled' = [pulled EXCEPT ![c] = None]
    /\ phase' = [phase EXCEPT ![c] = AfterPull(@)]
    /\ UNCHANGED <<queue, requests, dialog, project, leaving, rows, edits,
                   faults, reloads>>

(* A pull that fails is ignored.                                            *)
PullFailed(c) ==
    /\ phase[c] \in {"pull1", "pull2"}
    /\ faults < MaxFaults
    /\ faults' = faults + 1
    /\ pulled' = [pulled EXCEPT ![c] = None]
    /\ phase' = [phase EXCEPT ![c] = AfterPull(@)]
    /\ UNCHANGED <<store, queue, requests, dialog, project, leaving, rows, edits,
                   reloads, history>>

(* initializeSyncWithHydration: pull, flush once, pull again, then start    *)
(* the interval.                                                            *)
StartupFlush(c) ==
    /\ phase[c] = "flush"
    /\ \/ queue[c] = <<>> /\ phase' = [phase EXCEPT ![c] = "pull2"]
          /\ UNCHANGED <<store, queue, requests, dialog, rows, edits, faults,
                         reloads, history>>
       \/ Send(c, FALSE) /\ phase' = [phase EXCEPT ![c] = "flushing"]
    /\ UNCHANGED <<pulled, project, leaving>>

StartupFlushed(c) ==
    /\ phase[c] = "flushing"
    /\ Waiting(c) = {}
    /\ phase' = [phase EXCEPT ![c] = "pull2"]
    /\ UNCHANGED <<store, queue, requests, pulled, dialog, project, leaving,
                   rows, edits, faults, reloads, history>>

-----------------------------------------------------------------------------
(* The user and the page.                                                   *)

Loaded(c) ==
    [store EXCEPT ![c][dialog[c].change.entity] =
        Deserialized(dialog[c].row)]

(* "Load current": the row as it was when the conflict was answered.        *)
AcceptServerVersion(c) ==
    /\ dialog[c] # None
    /\ store' = Loaded(c)
    /\ dialog' = [dialog EXCEPT ![c] = None]
    /\ history' = [history EXCEPT !.replaced = @ \cup Replaced(c, Loaded(c)[c])]
    /\ UNCHANGED <<queue, requests, clientVars, rows, edits, faults, reloads>>

(* "Keep as copy": a new entity is created and filled in one handler, then  *)
(* the server's version is loaded.                                          *)
KeepLocalCopy(c, e) ==
    /\ dialog[c] # None
    /\ edits < MaxEdits
    /\ history.home[e] = None
    /\ e \in Workflows <=> dialog[c].change.entity \in Workflows
    /\ LET copy == Copy(2, dialog[c].change.content \cup {edits + 1}, FALSE)
       IN  /\ store' = [Loaded(c) EXCEPT ![c][e] = copy]
           /\ queue' = [queue EXCEPT ![c] =
                 QueueChange(@, Change(e, CoalescedType("insert", "update"), copy, edits + 1))]
    /\ edits' = edits + 1
    /\ history' = [history EXCEPT !.author[edits + 1] = c,
                                  !.entity[edits + 1] = e,
                                  !.home[e] = project[c],
                                  !.replaced = @ \cup Replaced(c, Loaded(c)[c])]
    /\ dialog' = [dialog EXCEPT ![c] = None]
    /\ UNCHANGED <<requests, clientVars, rows, faults, reloads>>

DismissConflict(c) ==
    /\ dialog[c] # None
    /\ dialog' = [dialog EXCEPT ![c] = None]
    /\ UNCHANGED <<store, queue, requests, clientVars, rows, edits, faults,
                   reloads, history>>

(* The page is loaded anew: the queue is restored from localStorage, the    *)
(* batches taken out of it and still in flight are in nobody's memory.      *)
Reload(c) ==
    /\ reloads < MaxReloads
    /\ reloads' = reloads + 1
    /\ requests' = {r \in requests : r.from # c}
          \cup {[r EXCEPT !.waiting = FALSE] :
                   r \in {x \in requests : x.from = c /\ x.answer = None}}
    /\ dialog' = [dialog EXCEPT ![c] = None]
    /\ pulled' = [pulled EXCEPT ![c] = None]
    /\ phase' = [phase EXCEPT ![c] = "pull1"]
    /\ leaving' = [leaving EXCEPT ![c] = "no"]
    /\ history' = [history EXCEPT
          !.orphaned = @ \cup UNION {EditsIn(r.batch) : r \in Waiting(c)}]
    /\ UNCHANGED <<store, queue, project, rows, edits, faults>>

(* clearProjectScopedClientState, before another project becomes active:    *)
(* flushPending until the queue is empty or a flush fails, then the queue   *)
(* is cleared; a batch that still waits keeps waiting.                      *)
LeaveProject(c) ==
    /\ leaving[c] = "no"
    /\ phase[c] = "running"
    /\ reloads < MaxReloads
    /\ reloads' = reloads + 1
    /\ leaving' = [leaving EXCEPT ![c] = "flushing"]
    /\ UNCHANGED <<store, queue, requests, pulled, dialog, phase, project, rows,
                   edits, faults, history>>

LeaveFlush(c) ==
    /\ leaving[c] = "flushing"
    /\ \A r \in Waiting(c) : ~r.loop
    /\ Send(c, TRUE)
    /\ UNCHANGED clientVars

EnterProject(c, p) ==
    /\ \/ leaving[c] = "failed"
       \/ /\ leaving[c] = "flushing"
          /\ queue[c] = <<>>
          /\ \A r \in Waiting(c) : ~r.loop
    /\ queue' = [queue EXCEPT ![c] = <<>>]
    /\ project' = [project EXCEPT ![c] = p]
    /\ phase' = [phase EXCEPT ![c] = "pull1"]
    /\ pulled' = [pulled EXCEPT ![c] = None]
    /\ leaving' = [leaving EXCEPT ![c] = "no"]
    /\ history' = [history EXCEPT !.orphaned = @ \cup EditsIn(queue[c])]
    /\ UNCHANGED <<store, requests, dialog, rows, edits, faults, reloads>>

-----------------------------------------------------------------------------
NoHistory ==
    [author    |-> [x \in 1..MaxEdits |-> None],
     entity    |-> [x \in 1..MaxEdits |-> None],
     home      |-> [e \in Entities |-> None],
     accepts   |-> [x \in 1..MaxEdits |-> 0],
     refused   |-> {},      \* changes answered with a conflict
     told      |-> {},      \* changes whose conflict was shown
     committed |-> {},      \* edits of batches the server answered for
     orphaned  |-> {},      \* edits in batches or queues the page let go
     replaced  |-> {},      \* edits of local copies the server's replaced
     buried    |-> {},      \* entities deleted on the server at some time
     erasing   |-> {},      \* changes that removed edits of a live row
     erasedAgain |-> {},    \* the same, when they were applied again
     forced    |-> FALSE]   \* the last hydration was forced

Init ==
    /\ store = [c \in Browsers |-> [e \in Entities |-> None]]
    /\ queue = [c \in Browsers |-> <<>>]
    /\ requests = {}
    /\ pulled = [c \in Browsers |-> None]
    /\ dialog = [c \in Browsers |-> None]
    /\ phase = [c \in Browsers |-> "pull1"]
    /\ project \in [Browsers -> Projects]
    /\ leaving = [c \in Browsers |-> "no"]
    /\ rows = [e \in Entities |-> None]
    /\ edits = 0 /\ faults = 0 /\ reloads = 0
    /\ history = NoHistory

User(c) ==
    \/ \E w \in Workflows, k \in 1..OpsPerTick :
          CreateWorkflow(c, w, k - 1) \/ UpdateWorkflow(c, w, k)
    \/ \E s \in Scenarios, k \in 1..OpsPerTick :
          CreateScenario(c, s, k - 1) \/ UpdateScenario(c, s, k)
    \/ \E w \in Workflows : DeleteWorkflow(c, w)
    \/ \E s \in Scenarios : DeleteScenario(c, s)
    \/ \E e \in Entities : KeepLocalCopy(c, e)
    \/ AcceptServerVersion(c) \/ DismissConflict(c)
    \/ FlushOnPageHide(c) \/ Reload(c) \/ LeaveProject(c)

Client(c) ==
    \/ Flush(c) \/ LeaveFlush(c)
    \/ Pull(c) \/ HydrateFromServer(c) \/ PullFailed(c)
    \/ StartupFlush(c) \/ StartupFlushed(c)
    \/ \E p \in Projects : EnterProject(c, p)

Answered(r) == BatchCommitted(r) \/ BatchRepaired(r) \/ BatchRolledBack(r)

Next ==
    \/ \E c \in Browsers : User(c) \/ Client(c)
    \/ \E r \in requests :
          \/ ProcessBatch(r) \/ Answered(r)
          \/ RequestRefused(r) \/ RequestTimedOut(r) \/ AnswerLost(r)
          \/ RequestLost(r)

Spec == Init /\ [][Next]_vars

(* The interval fires again and again, the server answers what reaches it,  *)
(* and the browser's promises run.                                          *)
Fairness ==
    /\ \A c \in Browsers :
         /\ WF_vars(Flush(c))
         /\ WF_vars(Pull(c) /\ phase[c] # "running")
         /\ WF_vars(HydrateFromServer(c))
         /\ WF_vars(StartupFlush(c)) /\ WF_vars(StartupFlushed(c))
    /\ \A n \in RequestIds :
         WF_vars(\E r \in requests : r.n = n /\ (ProcessBatch(r) \/ Answered(r)))

FairSpec == Spec /\ Fairness

-----------------------------------------------------------------------------
(* Shapes of the stores, the queues and the database.                       *)
SyncTypeOK ==
    /\ \A c \in DOMAIN queue :
         /\ \A i \in DOMAIN queue[c] :
              /\ queue[c][i].entity \in Entities
              /\ queue[c][i].type \in ChangeTypes
              /\ queue[c][i].base \in Nat
              /\ queue[c][i].type = "insert" => queue[c][i].base = 0
         /\ phase[c] \in {"pull1", "flush", "flushing", "pull2", "running"}
         /\ leaving[c] \in {"no", "flushing", "failed"}
         /\ project[c] \in Projects
    /\ \A e \in DOMAIN rows : rows[e] # None =>
         rows[e].version \in Nat \ {0} /\ rows[e].project \in Projects
    /\ \A r, q \in requests : r.n = q.n => r = q

(* No edit vanishes on its way: unless the page is reloaded, hidden or      *)
(* switched to another project, or the server's copy replaces the local     *)
(* one, every edit of a browser is in its queue, in a batch it waits for,   *)
(* or in a batch the server committed, through coalescing, repairs,         *)
(* roll-backs, timeouts and lost answers.                                   *)
EditsAccountedFor ==
    \A x \in 1..edits :
       LET c == history.author[x]
       IN  \/ x \in history.committed \cup history.orphaned \cup history.replaced
           \/ x \in EditsIn(queue[c])
           \/ \E r \in Waiting(c) : x \in EditsIn(r.batch)

(* A change that reaches the server twice, because its answer was lost, it  *)
(* arrived after its sender gave up, or it was repaired and then sent again *)
(* unrepaired, never erases an edit that was stored in between, unless the  *)
(* entity was deleted meanwhile and its versions started again.             *)
ResendsEraseNothing ==
    \A x \in history.erasedAgain : history.entity[x] \in history.buried

PendingIds(c) ==
    {queue[c][i].id : i \in DOMAIN queue[c]}
      \cup UNION {{r.batch[i].id : i \in DOMAIN r.batch} : r \in Waiting(c)}

(* A change the server refused is shown to its author.                      *)
RefusalsShown ==
    \A x \in history.refused :
       \/ history.accepts[x] > 0
       \/ x \in history.told
       \/ x \in PendingIds(history.author[x])

(* An accepted update contains every edit that the row had: a newer state   *)
(* is reported as a conflict, never overwritten blindly.                    *)
NothingOverwritten == history.erasing = {}

(* What was taken out of the persisted queue is on the server or still held *)
(* by the browser: no edit is lost to a reload.                             *)
NothingLostOnReload ==
    \A x \in history.orphaned :
       \/ x \in history.committed
       \/ x \in EditsIn(queue[history.author[x]])
       \/ \E r \in requests : x \in EditsIn(r.batch)
       \/ \E e \in DOMAIN rows : rows[e] # None /\ x \in rows[e].content

(* The changes restored at startup are flushed before the first hydration.  *)
FlushedBeforeHydration ==
    \A c \in Browsers : pulled[c] # None /\ phase[c] = "pull1" => queue[c] = <<>>

(* Hydration never replaces a local copy by an older version: only the user *)
(* who loads the server's version or restores an old one goes back.         *)
LocalCopiesNeverOlder ==
    [][\A c \in DOMAIN store : \A e \in DOMAIN store[c] :
          /\ store[c][e] # None
          /\ store'[c][e].version < store[c][e].version
          => dialog'[c] # dialog[c] \/ history'.forced]_vars

(* Every queue drains once the faults and the edits end.                    *)
QueuesDrain == <>[](\A c \in DOMAIN queue : queue[c] = <<>> /\ Waiting(c) = {})

(* A single browser whose user never edits faster than it synchronises ends *)
(* with the database holding what the browser shows.                        *)
Converges ==
    <>[](\A c \in DOMAIN store : \A e \in DOMAIN rows : Present(c, e) =>
            Live(rows[e]) /\ rows[e].content = store[c][e].content)
=============================================================================
