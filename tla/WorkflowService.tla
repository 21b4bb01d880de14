--------------------------- MODULE WorkflowService --------------------------
(***************************************************************************)
(* The runner's embedded workers (runner-v2/pkg/api/workflow_service.go)   *)
(* on top of the queue of WorkflowJobs.                                    *)
(*                                                                         *)
(* A worker claims a job, executes its scenarios concurrently and writes   *)
(* the run and session rows as it goes, while a heartbeat goroutine renews *)
(* the job's lease and cancels the execution context when it cannot.  The  *)
(* job row is protected by its lease; the run and session rows are plain   *)
(* read-modify-write upserts that nothing fences.                          *)
(*                                                                         *)
(* A worker of a crashed or restarted process comes back under the same    *)
(* owner name (hostname and pid repeat in a restarted container).          *)
(*                                                                         *)
(* A scenario is seen from the outside here: which containers exist and    *)
(* what its session row says when it starts, ends or is interrupted.       *)
(***************************************************************************)
EXTENDS WorkflowJobs

CONSTANTS
    ScenarioConcurrency,    \* WorkflowWorkerConfig.ScenarioConcurrency
    MaxFaults               \* bound on crashes, restarts and failing calls

ASSUME ServiceLimits ==
    /\ ScenarioConcurrency \in Nat \ {0}
    /\ MaxFaults \in Nat

\* What the workers store with the plain upserts: a run under way or at its end, and any
\* session row.
ASSUME WorkerWrites ==
    /\ {"running"} \cup FinishedRun \subseteq RunWrites
    /\ {row \in SessionRow : row.status # "absent"} \subseteq SessionWrites

VARIABLES
    worker,         \* [Owner -> WorkerState]
    containers,     \* <<o, r, s>>: o's containers for scenario s of run r exist
    faults,         \* faults so far
    stalls          \* may a live worker pause for longer than its lease?

serviceVars == <<storeVars, worker, containers, faults, stalls>>

Worker == Owner

-----------------------------------------------------------------------------
(* Worker state *)

\* Where executeJob stands.  The context is live until the heartbeat or a
\* shutdown cancels it, with the cause the code tells apart.
Control  == {"idle", "reconcile", "finalizeCancel", "begin", "scenarios",
             "finish", "complete", "failJob", "failRun"}
Context  == {"live", "cancelled", "lost"}
\* How far a scenario goroutine is: before and after the checkpoint check, its
\* row marked running, its session persisted, its containers starting and up, its
\* tests over, cleaned up, or failed and not yet cleaned up; or its result.
InFlight == {"checked", "active", "persisted", "provisioning", "up", "cleaning",
             "cleaned", "failing"}
Result   == {"passed", "failed", "cleanup_failed"}
Progress == {"todo"} \cup InFlight \cup Result

WorkerState == [pc: Control, run: Run \cup {None}, ctx: Context,
                stopping: BOOLEAN, scen: [Scenario -> Progress]]

Idle == [pc |-> "idle", run |-> None, ctx |-> "live", stopping |-> FALSE,
         scen |-> [s \in Scenario |-> "todo"]]

Executing(w)   == worker[w].pc \in Control \ {"idle", "reconcile", "finalizeCancel"}
Heartbeats(w)  == Executing(w) /\ worker[w].ctx = "live"
JobOf(w)       == worker[w].run

Goto(w, pc)    == worker' = [worker EXCEPT ![w].pc = pc]
BackToIdle(w)  == worker' = [worker EXCEPT ![w] =
                                [Idle EXCEPT !.stopping = worker[w].stopping]]
SetScen(w, s, v) == worker' = [worker EXCEPT ![w].scen[s] = v]

ServiceTypeOK ==
    /\ StoreTypeOK
    /\ worker \in [Worker -> WorkerState]
    /\ containers \subseteq Worker \X Run \X Scenario
    /\ faults \in 0..MaxFaults
    /\ stalls \in BOOLEAN

ServiceInit ==
    /\ StoreInit
    /\ worker = [w \in Worker |-> Idle]
    /\ containers = {}
    /\ faults = 0
    /\ stalls \in BOOLEAN

\* Every call of a worker may fail; the fault is counted.  A call made with a
\* context that is already cancelled fails anyway.
Fault == faults < MaxFaults /\ faults' = faults + 1
FaultUnless(certain) == IF certain THEN UNCHANGED faults ELSE Fault

-----------------------------------------------------------------------------
(* Clients *)

Submit(r) ==
    /\ jobs[r].status = "absent"
    /\ \E h \in Hash : AdmitNewWorkflowJob(r, h)
    /\ UNCHANGED <<worker, containers, faults>>

Cancel(r) ==
    /\ RequestWorkflowJobCancellation(r)
    /\ UNCHANGED <<worker, containers, faults>>

-----------------------------------------------------------------------------
(* The claim loop *)

\* A claim passes over rows that other workers' calls hold locked.
ClaimJob(w) ==
    /\ worker[w].pc = "idle" /\ ~worker[w].stopping
    /\ \E locked \in SUBSET {JobOf(v) : v \in Worker \ {w}}, r \in Run :
        /\ ClaimWorkflowJobFair(w, r, locked)
        /\ worker' = [worker EXCEPT ![w].run = r, ![w].pc =
               IF Exhausted(r) THEN "reconcile"
               ELSE IF jobs[r].cancelRequested THEN "finalizeCancel"
               ELSE "begin"]
    /\ UNCHANGED <<containers, faults>>

\* reconcileExhaustedJob: the run row follows in a second transaction.
ReconcileExhaustedJob(w) ==
    /\ worker[w].pc = "reconcile" /\ ~worker[w].stopping
    /\ UpsertWorkflowRun(JobOf(w), "failed")
    /\ BackToIdle(w)
    /\ UNCHANGED <<containers, faults>>

\* A recovered job with a cancel request is finalized without executing it.
FinalizeRecoveredCancel(w) ==
    /\ worker[w].pc = "finalizeCancel" /\ ~worker[w].stopping
    /\ \/ CancelWorkflowJob(w, JobOf(w))
       \/ ~HoldsLease(w, JobOf(w)) /\ UNCHANGED storeVars
    /\ BackToIdle(w)
    /\ UNCHANGED <<containers, faults>>

\* Either call fails: the error is logged (or dropped) and the loop goes on.
ClaimFollowUpFails(w) ==
    /\ worker[w].pc \in {"reconcile", "finalizeCancel"}
    /\ FaultUnless(worker[w].stopping)
    /\ BackToIdle(w)
    /\ UNCHANGED <<storeVars, containers>>

-----------------------------------------------------------------------------
(* The heartbeat goroutine *)

HeartbeatRenews(w) ==
    /\ Heartbeats(w)
    /\ jobs[JobOf(w)].lease = "expired"
    /\ HeartbeatWorkflowJob(w, JobOf(w))
    /\ UNCHANGED <<worker, containers, faults>>

HeartbeatRefused(w) ==
    /\ Heartbeats(w)
    /\ ~CanRenew(w, JobOf(w))
    /\ worker' = [worker EXCEPT ![w].ctx =
           IF SeesCancellation(w, JobOf(w)) THEN "cancelled" ELSE "lost"]
    /\ UNCHANGED <<storeVars, containers, faults>>

HeartbeatFails(w) ==
    /\ Heartbeats(w)
    /\ Fault
    /\ worker' = [worker EXCEPT ![w].ctx = "lost"]
    /\ UNCHANGED <<storeVars, containers>>

-----------------------------------------------------------------------------
(* executeJob *)

\* Decrypting, decoding and bundling the payload, then updateRun("running").
BeginRun(w) ==
    /\ worker[w].pc = "begin" /\ worker[w].ctx = "live"
    /\ UpsertWorkflowRun(JobOf(w), "running")
    /\ Goto(w, "scenarios")
    /\ UNCHANGED <<containers, faults>>

\* A payload that cannot be used, a cancelled context or a failing call.
BeginFails(w) ==
    /\ worker[w].pc = "begin"
    /\ Goto(w, "failJob")
    /\ UNCHANGED <<storeVars, containers, faults>>

\* completedScenario: a terminal checkpoint is restored, anything else is run.
TerminalCheckpoint(row) ==
    \/ row.status = "completed" /\ row.phase = "completed"
    \/ row.status = "failed" /\ row.phase = "failed"

CheckScenario(w, s) ==
    LET row == sessions[JobOf(w)][s] IN
    /\ worker[w].pc = "scenarios" /\ worker[w].ctx = "live"
    /\ worker[w].scen[s] = "todo"
    /\ Cardinality({t \in Scenario : worker[w].scen[t] \in InFlight})
           < ScenarioConcurrency
    /\ SetScen(w, s, IF ~TerminalCheckpoint(row) THEN "checked"
                     ELSE IF row.status = "completed" THEN "passed" ELSE "failed")
    /\ UNCHANGED <<storeVars, containers, faults>>

\* The checkpoint or its test results cannot be read: the scenario is run again.
CheckpointUnread(w, s) ==
    /\ worker[w].pc = "scenarios" /\ worker[w].ctx = "live"
    /\ worker[w].scen[s] = "todo"
    /\ TerminalCheckpoint(sessions[JobOf(w)][s])
    /\ Cardinality({t \in Scenario : worker[w].scen[t] \in InFlight})
           < ScenarioConcurrency
    /\ Fault
    /\ SetScen(w, s, "checked")
    /\ UNCHANGED <<storeVars, containers>>

\* updateScenario("running"): the phase of the last checkpoint stays.
MarkScenarioRunning(w, s) ==
    /\ worker[w].scen[s] = "checked" /\ worker[w].ctx = "live"
    /\ UpsertSession(JobOf(w), s,
           [sessions[JobOf(w)][s] EXCEPT !.status = "running"])
    /\ SetScen(w, s, "active")
    /\ UNCHANGED <<containers, faults>>

MarkScenarioFails(w, s) ==
    /\ worker[w].scen[s] = "checked" /\ worker[w].ctx = "live"
    /\ Fault
    /\ SetScen(w, s, "failed")
    /\ UNCHANGED <<storeVars, containers>>

\* A session that got past "created" belongs to an interrupted attempt, whose
\* containers are removed by label before anything is provisioned.
ContainersOf(r, s) == {c \in containers : c[2] = r /\ c[3] = s}

Interrupted(row) == row.phase # "created"

\* Mutant: the phase is left for a later checkpoint.
BuildPersistedSessionUnmarked(w, s) ==
    /\ worker[w].scen[s] = "active" /\ worker[w].ctx = "live"
    /\ UpsertSession(JobOf(w), s,
           [sessions[JobOf(w)][s] EXCEPT !.status = "running"])
    /\ SetScen(w, s, "persisted")
    /\ UNCHANGED <<containers, faults>>

\* A session row that exists is taken over and announces the containers to come.
\* When the row cannot be read at first, what an earlier attempt left stays.
BuildPersistedSession(w, s) ==
    /\ worker[w].scen[s] = "active" /\ worker[w].ctx = "live"
    /\ \/ /\ containers' = IF Interrupted(sessions[JobOf(w)][s])
                            THEN containers \ ContainersOf(JobOf(w), s)
                            ELSE containers
          /\ UNCHANGED faults
       \/ /\ Interrupted(sessions[JobOf(w)][s])
          /\ Fault
          /\ UNCHANGED containers
    /\ UpsertSession(JobOf(w), s, [status |-> "running", phase |-> "active"])
    /\ SetScen(w, s, "persisted")

\* updateScenario with the scenario's verdict, and its result.
Conclude(w, s, v) ==
    /\ UpsertSession(JobOf(w), s, [status |-> v, phase |-> v])
    /\ SetScen(w, s, IF v = "completed" THEN "passed" ELSE v)

\* The interrupted attempt had finished its tests (its checkpoint index says
\* so): only its cleanup is redone and the stored results decide.
RestoreAfterCleanup(w, s) ==
    /\ worker[w].scen[s] = "active" /\ worker[w].ctx = "live"
    /\ sessions[JobOf(w)][s].phase \in {"cleaning_up", "cleanup_failed"}
    /\ containers' = containers \ ContainersOf(JobOf(w), s)
    /\ \E v \in {"completed", "failed"} : Conclude(w, s, v)
    /\ UNCHANGED faults

\* The containers of the interrupted attempt cannot be removed.
RecoveryCleanupFails(w, s) ==
    /\ worker[w].scen[s] = "active" /\ worker[w].ctx = "live"
    /\ Interrupted(sessions[JobOf(w)][s])
    /\ Fault
    /\ Conclude(w, s, "cleanup_failed")
    /\ UNCHANGED containers

\* Translating the scenario fails, or, once an earlier attempt is cleaned up,
\* restoring its results or persisting the session.
PrepareFails(w, s) ==
    /\ worker[w].scen[s] = "active" /\ worker[w].ctx = "live"
    /\ Fault
    /\ Conclude(w, s, "failed")
    /\ containers' \in {containers, IF Interrupted(sessions[JobOf(w)][s])
                                      THEN containers \ ContainersOf(JobOf(w), s)
                                      ELSE containers}

\* Containers appear while ProvisionServices runs.  A request the Docker daemon
\* has received takes effect though its context is cancelled meanwhile.
StartServices(w, s) ==
    /\ worker[w].scen[s] = "persisted"
    /\ containers' = containers \cup {<<w, JobOf(w), s>>}
    /\ SetScen(w, s, "provisioning")
    /\ UNCHANGED <<storeVars, faults>>

ServicesReady(w, s) ==
    /\ worker[w].scen[s] = "provisioning" /\ worker[w].ctx = "live"
    /\ UpsertSession(JobOf(w), s, [status |-> "running", phase |-> "active"])
    /\ SetScen(w, s, "up")
    /\ UNCHANGED <<containers, faults>>

\* A service did not come up: the failure is recorded before the deferred
\* cleanup runs.
ProvisioningFails(w, s) ==
    /\ worker[w].scen[s] = "provisioning" /\ worker[w].ctx = "live"
    /\ UpsertSession(JobOf(w), s, [status |-> "failed", phase |-> "failed"])
    /\ SetScen(w, s, "failing")
    /\ UNCHANGED <<containers, faults>>

\* The test plan or the stored results are not available.
TestPlanFails(w, s) ==
    /\ worker[w].scen[s] = "up" /\ worker[w].ctx = "live"
    /\ Fault
    /\ SetScen(w, s, "failing")
    /\ UNCHANGED <<storeVars, containers>>

\* The tests are over: checkpoint, cleanup, verdict.  A checkpoint that cannot
\* be written is passed over.
TestsDone(w, s) ==
    /\ worker[w].scen[s] = "up" /\ worker[w].ctx = "live"
    /\ \/ /\ UpsertSession(JobOf(w), s,
                 [sessions[JobOf(w)][s] EXCEPT !.phase = "cleaning_up"])
          /\ UNCHANGED faults
       \/ Fault /\ UNCHANGED storeVars
    /\ SetScen(w, s, "cleaning")
    /\ UNCHANGED containers

\* The cleanup itself cannot be cancelled.
CleanupScenario(w, s) ==
    /\ worker[w].scen[s] = "cleaning"
    /\ containers' = containers \ {<<w, JobOf(w), s>>}
    /\ SetScen(w, s, "cleaned")
    /\ UNCHANGED <<storeVars, faults>>

CleanupFailsAfterTests(w, s) ==
    /\ worker[w].scen[s] = "cleaning"
    /\ Fault
    /\ IF worker[w].ctx = "live" THEN Conclude(w, s, "cleanup_failed")
       ELSE SetScen(w, s, "cleanup_failed") /\ UNCHANGED storeVars
    /\ UNCHANGED containers

RecordScenario(w, s) ==
    /\ worker[w].scen[s] = "cleaned" /\ worker[w].ctx = "live"
    /\ \E v \in {"completed", "failed"} : Conclude(w, s, v)
    /\ UNCHANGED <<containers, faults>>

\* persistCheckpoint may have stored the verdict that updateScenario cannot.
RecordFails(w, s) ==
    /\ worker[w].scen[s] = "cleaned" /\ worker[w].ctx = "live"
    /\ Fault
    /\ \/ \E v \in {"completed", "failed"} :
            UpsertSession(JobOf(w), s, [status |-> v, phase |-> v])
       \/ UNCHANGED storeVars
    /\ SetScen(w, s, "failed")
    /\ UNCHANGED containers

\* The deferred cleanup of a scenario that failed before its tests were done.
CleanupFailedScenario(w, s) ==
    /\ worker[w].scen[s] = "failing" /\ worker[w].ctx = "live"
    /\ \/ /\ containers' = containers \ {<<w, JobOf(w), s>>}
          /\ Conclude(w, s, "failed")
          /\ UNCHANGED faults
       \/ /\ Fault
          /\ Conclude(w, s, "cleanup_failed")
          /\ UNCHANGED containers

\* The deferred cleanup when the context is gone: it uses a context of its own
\* and records a cancellation, or that the scenario is to be resumed.  The write
\* does not depend on the job's lease, which may be somebody else's by now.
InterruptedRow(row, ctx) ==
    IF ctx = "cancelled" THEN [status |-> "cancelled", phase |-> "cancelled"]
    ELSE [row EXCEPT !.status = "pending"]

InterruptScenario(w, s) ==
    /\ worker[w].scen[s] \in {"persisted", "provisioning", "up", "failing"}
    /\ worker[w].ctx # "live"
    /\ \/ /\ containers' = containers \ {<<w, JobOf(w), s>>}
          /\ UpsertSession(JobOf(w), s,
                 InterruptedRow(sessions[JobOf(w)][s], worker[w].ctx))
          /\ UNCHANGED faults
       \/ /\ Fault
          /\ UpsertSession(JobOf(w), s,
                 [status |-> "cleanup_failed", phase |-> "cleanup_failed"])
          /\ UNCHANGED containers
    /\ SetScen(w, s, "failed")

\* A scenario whose session is not persisted yet, or whose cleanup was done
\* when the context went, leaves its session row as it is.
AbandonScenario(w, s) ==
    /\ worker[w].scen[s] \in {"checked", "active", "cleaned"}
    /\ worker[w].ctx # "live"
    /\ SetScen(w, s, "failed")
    /\ UNCHANGED <<storeVars, containers, faults>>

-----------------------------------------------------------------------------
(* After the scenarios *)

Quiet(w)   == \A s \in Scenario : worker[w].scen[s] \notin InFlight
AllDone(w) == \A s \in Scenario : worker[w].scen[s] \in Result

\* Mutant: an interrupted job is released without checking who holds it.
SettleInterruptedUnfenced(w) ==
    /\ worker[w].pc = "scenarios" /\ worker[w].ctx # "live" /\ Quiet(w)
    /\ jobs' = [jobs EXCEPT ![JobOf(w)].status = "pending",
                            ![JobOf(w)].owner = None, ![JobOf(w)].lease = "none"]
    /\ BackToIdle(w)
    /\ UNCHANGED <<runs, sessions, rateVars, containers, faults>>

\* ctx.Err() != nil after wg.Wait: cancel or release with a context that
\* cannot be cancelled; a refusal is only logged.
SettleInterrupted(w) ==
    /\ worker[w].pc = "scenarios" /\ worker[w].ctx # "live" /\ Quiet(w)
    /\ LET r == JobOf(w) IN
        \/ worker[w].ctx = "cancelled" /\ CancelWorkflowJob(w, r)
        \/ worker[w].ctx = "lost" /\ ReleaseWorkflowJob(w, r)
        \/ /\ UNCHANGED storeVars
           /\ IF worker[w].ctx = "cancelled" THEN ~HoldsLease(w, r)
              ELSE ~HoldsRunning(w, r)
    /\ BackToIdle(w)
    /\ UNCHANGED <<containers, faults>>

SettleFails(w) ==
    /\ worker[w].pc = "scenarios" /\ worker[w].ctx # "live" /\ Quiet(w)
    /\ Fault
    /\ BackToIdle(w)
    /\ UNCHANGED <<storeVars, containers>>

ScenariosDone(w) ==
    /\ worker[w].pc = "scenarios" /\ worker[w].ctx = "live" /\ AllDone(w)
    /\ Goto(w, "finish")
    /\ UNCHANGED <<storeVars, containers, faults>>

\* Mutants: one passed scenario is enough; a status nobody knows.
RunVerdictOptimistic(scen) ==
    IF \E s \in Scenario : scen[s] = "passed" THEN "completed" ELSE "failed"

RunVerdict(scen) ==
    LET got(v) == \E s \in Scenario : scen[s] = v IN
    IF got("cleanup_failed") THEN "cleanup_failed"
    ELSE IF got("failed") /\ got("passed") THEN "partial_failed"
    ELSE IF got("failed") THEN "failed"
    ELSE "completed"

FinishRun(w) ==
    /\ worker[w].pc = "finish" /\ worker[w].ctx = "live"
    /\ UpsertWorkflowRun(JobOf(w), RunVerdict(worker[w].scen))
    /\ Goto(w, "complete")
    /\ UNCHANGED <<containers, faults>>

FinishFails(w) ==
    /\ worker[w].pc = "finish"
    /\ FaultUnless(worker[w].ctx # "live")
    /\ Goto(w, "failJob")
    /\ UNCHANGED <<storeVars, containers>>

CompleteJob(w) ==
    /\ worker[w].pc = "complete" /\ worker[w].ctx = "live"
    /\ \/ CompleteWorkflowJob(w, JobOf(w))
       \/ ~HoldsRunning(w, JobOf(w)) /\ UNCHANGED storeVars
    /\ BackToIdle(w)
    /\ UNCHANGED <<containers, faults>>

CompleteFails(w) ==
    /\ worker[w].pc = "complete"
    /\ FaultUnless(worker[w].ctx # "live")
    /\ BackToIdle(w)
    /\ UNCHANGED <<storeVars, containers>>

\* failJob: the job row, if it is still ours, and then the run row anyway.
FailJob(w) ==
    /\ worker[w].pc = "failJob"
    /\ \/ worker[w].ctx = "live" /\ FailWorkflowJob(w, JobOf(w)) /\ UNCHANGED faults
       \/ /\ worker[w].ctx # "live" \/ ~HoldsRunning(w, JobOf(w))
          /\ UNCHANGED <<storeVars, faults>>
       \/ worker[w].ctx = "live" /\ Fault /\ UNCHANGED storeVars
    /\ Goto(w, "failRun")
    /\ UNCHANGED containers

FailRun(w) ==
    /\ worker[w].pc = "failRun"
    /\ \/ worker[w].ctx = "live" /\ UpsertWorkflowRun(JobOf(w), "failed") /\ UNCHANGED faults
       \/ worker[w].ctx # "live" /\ UNCHANGED <<storeVars, faults>>
       \/ worker[w].ctx = "live" /\ Fault /\ UNCHANGED storeVars
    /\ BackToIdle(w)
    /\ UNCHANGED containers

-----------------------------------------------------------------------------
(* Processes and time *)

\* SIGTERM: the execution context is cancelled, the loop stops when it can.
Shutdown(w) ==
    /\ worker[w].pc # "idle" /\ ~worker[w].stopping
    /\ Fault
    /\ worker' = [worker EXCEPT ![w].stopping = TRUE,
                                ![w].ctx = IF @ = "live" THEN "lost" ELSE @]
    /\ UNCHANGED <<storeVars, containers>>

Restart(w) ==
    /\ worker[w].pc = "idle" /\ worker[w].stopping
    /\ worker' = [worker EXCEPT ![w] = Idle]
    /\ UNCHANGED <<storeVars, containers, faults>>

\* The process dies with all it knows; its containers and rows stay.
Crash(w) ==
    /\ worker[w].pc # "idle"
    /\ Fault
    /\ worker' = [worker EXCEPT ![w] = Idle]
    /\ UNCHANGED <<storeVars, containers>>

\* A lease runs out when its holder neither renews it nor is in the middle of
\* the one call that gives it up.  Where it stalls, also under a worker that is
\* alive but paused for longer than the lease.
Attended(r) ==
    \E w \in Worker : /\ JobOf(w) = r /\ HoldsLease(w, r)
                      /\ Heartbeats(w) \/ worker[w].pc = "finalizeCancel"

LeaseRunsOut(r) ==
    /\ LeaseExpires(r)
    /\ \/ ~Attended(r) /\ UNCHANGED faults
       \/ Attended(r) /\ stalls /\ Fault
    /\ UNCHANGED <<worker, containers>>

-----------------------------------------------------------------------------

ScenarioStep(w, s) ==
    \/ CheckScenario(w, s) \/ MarkScenarioRunning(w, s)
    \/ BuildPersistedSession(w, s) \/ RestoreAfterCleanup(w, s)
    \/ StartServices(w, s) \/ ServicesReady(w, s) \/ ProvisioningFails(w, s)
    \/ TestsDone(w, s) \/ CleanupScenario(w, s) \/ RecordScenario(w, s)
    \/ CleanupFailedScenario(w, s)
    \/ InterruptScenario(w, s) \/ AbandonScenario(w, s)

ScenarioFault(w, s) ==
    \/ CheckpointUnread(w, s)
    \/ MarkScenarioFails(w, s) \/ RecoveryCleanupFails(w, s) \/ PrepareFails(w, s)
    \/ TestPlanFails(w, s) \/ CleanupFailsAfterTests(w, s) \/ RecordFails(w, s)

JobStep(w) ==
    \/ ClaimJob(w) \/ ReconcileExhaustedJob(w) \/ FinalizeRecoveredCancel(w)
    \/ ClaimFollowUpFails(w)
    \/ BeginRun(w) \/ BeginFails(w) \/ ScenariosDone(w) \/ SettleInterrupted(w)
    \/ FinishRun(w) \/ FinishFails(w) \/ CompleteJob(w) \/ CompleteFails(w)
    \/ FailJob(w) \/ FailRun(w) \/ Restart(w)

HeartbeatStep(w) == HeartbeatRenews(w) \/ HeartbeatRefused(w)

WorkerFault(w) == HeartbeatFails(w) \/ SettleFails(w) \/ Shutdown(w) \/ Crash(w)

ServiceNext ==
    /\ \/ \E r \in Run : Submit(r) \/ Cancel(r) \/ LeaseRunsOut(r)
       \/ \E w \in Worker : JobStep(w) \/ HeartbeatStep(w) \/ WorkerFault(w)
       \/ \E w \in Worker, s \in Scenario : ScenarioStep(w, s) \/ ScenarioFault(w, s)
    /\ UNCHANGED stalls

ServiceSpec == ServiceInit /\ [][ServiceNext]_serviceVars

\* Goroutines that can run do run, tickers fire, and a lease nobody renews
\* runs out.  Clients need not act and nothing has to fail.
AbandonedLeaseRunsOut(r) == ~Attended(r) /\ LeaseRunsOut(r)

ServiceFairness ==
    /\ \A w \in Worker : /\ WF_serviceVars(JobStep(w) /\ UNCHANGED stalls)
                         /\ WF_serviceVars(HeartbeatStep(w) /\ UNCHANGED stalls)
    /\ \A w \in Worker, s \in Scenario : WF_serviceVars(ScenarioStep(w, s) /\ UNCHANGED stalls)
    /\ \A r \in Run : WF_serviceVars(AbandonedLeaseRunsOut(r) /\ UNCHANGED stalls)

FairServiceSpec == ServiceSpec /\ ServiceFairness

-----------------------------------------------------------------------------
(* Properties *)

\* Every step of the workers, stalled and crashed ones included, is a step that
\* the queue's own specification allows: all that WorkflowJobs guarantees for
\* arbitrary callers holds of the composed service.
ImplementsStore == StoreSpec

\* A recorded cancel request decides the job's fate: the job ends cancelled and
\* in no other way, though its worker may be finishing, failing or releasing it
\* at that moment, crash, or be replaced by one that recovers the job; and no
\* job is cancelled that nobody asked to cancel.
CancelRequestWins ==
    \A r \in Run :
        /\ jobs[r].cancelRequested => jobs[r].status \notin {"completed", "failed"}
        /\ jobs[r].status = "cancelled" => jobs[r].cancelRequested

\* When the queue says completed or cancelled, the run row the UI reads says so
\* too, though the two rows are written by different transactions.
RunRowAgrees ==
    \A r \in Run :
        /\ jobs[r].status = "completed" => runs[r] \in FinishedRun
        /\ jobs[r].status = "cancelled" => runs[r] = "cancelled"

\* A run that is shown as completed hides no failed scenario, though results come
\* from several goroutines, from checkpoints of earlier attempts, and session
\* rows are also written by workers that lost the job.
NoFailureHidden ==
    \A r \in Run :
        jobs[r].status = "completed" /\ runs[r] = "completed" =>
            \A s \in DOMAIN sessions[r] : sessions[r][s].status # "failed"

\* The run row tells what happened: it agrees with the job and with the sessions.
\* Needs that no live worker loses its lease without noticing.
RunRowHonest == ~stalls => RunRowAgrees /\ NoFailureHidden

\* Two workers never execute the same run with a live context at the same time:
\* the one that lost its lease has noticed before another one can take over.
\* Needs heartbeats that are never later than the lease.
ExecutorAlone ==
    ~stalls =>
        \A v, w \in Worker : v # w /\ Heartbeats(v) /\ Heartbeats(w) => JobOf(v) # JobOf(w)

\* Whatever containers exist for a scenario, its session row is past "created":
\* whoever resumes the scenario, after any crash, knows to remove them first.
ContainersAnnounced ==
    \A c \in containers : Interrupted(sessions[c[2]][c[3]])

\* Every admitted job leaves the queue: it is executed, cancelled or given up,
\* whatever crashes, restarts and failing calls (finitely many) get in the way.
JobSettles ==
    \A r \in Run : (jobs[r].status # "absent") ~> (jobs[r].status \in Terminal)

\* A job the queue has given up is shown as failed in the run row.
FailedRunReported ==
    \A r \in Run : (jobs[r].status = "failed") ~> (runs[r] = "failed")

\* "running jobs transition through cleanup before becoming cancelled"
CancelledAfterCleanup ==
    \A r \in Run : jobs[r].status = "cancelled" =>
        \A c \in containers : c[2] # r

\* "resources left by an interrupted runner never overlap with the resumed
\* scenario": what runs beside a scenario's own containers belongs to a worker
\* that is still on the job, not to one that is gone.
ResumedAlone ==
    \A w \in Worker, s \in Scenario :
        worker[w].scen[s] \in {"provisioning", "up"} /\ worker[w].ctx = "live" =>
            \A c \in ContainersOf(JobOf(w), s) : JobOf(c[1]) = JobOf(w)

\* A completed job's scenario rows hold final results.
CompletedScenariosFinal ==
    \A r \in Run : jobs[r].status = "completed" =>
        \A s \in Scenario :
            sessions[r][s].status \in {"completed", "failed", "cleanup_failed"}
=============================================================================
