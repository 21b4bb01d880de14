------------------------ MODULE WorkflowServiceProofs ------------------------
(***************************************************************************)
(* Theorems about the embedded workers of WorkflowService, for any number  *)
(* of workers, runs and scenarios, any crashes, restarts and failing calls *)
(* in any order, and any limits.                                           *)
(***************************************************************************)
EXTENDS WorkflowService, WorkflowJobsProofs

USE DEF Leased, Terminal, Worker, JobOf

-----------------------------------------------------------------------------
(* The inductive invariant, first the part that needs no timing *)

\* A worker that is not idle works on a job that is in the queue; scenarios are under way
\* in one phase of the work only and have all ended in the phases after it; and a session
\* row announces containers before they are started.
WorkerInv(w) ==
    /\ worker[w].pc # "idle" => JobOf(w) \in Run /\ jobs[JobOf(w)].status # "absent"
    /\ \A s \in Scenario : worker[w].scen[s] \in InFlight => worker[w].pc = "scenarios"
    /\ \A s \in Scenario : worker[w].scen[s] = "persisted" => Interrupted(sessions[JobOf(w)][s])
    /\ worker[w].pc \in {"finish", "complete"} => AllDone(w)

\* A job comes with its run row and its session rows.
RecordsExist ==
    \A r \in Run : jobs[r].status # "absent" =>
        runs[r] # "absent" /\ \A s \in Scenario : sessions[r][s].status # "absent"

\* Containers belong to a job, and its session row tells of them.
ContainersKnown ==
    \A c \in containers : jobs[c[2]].status # "absent" /\ Interrupted(sessions[c[2]][c[3]])

ServiceInv ==
    /\ ServiceTypeOK
    /\ RecordsExist
    /\ ContainersKnown
    /\ \A w \in Worker : WorkerInv(w)

\* A recorded cancel request and what the workers do about it.
CancelRow(row) ==
    /\ row.cancelRequested => row.status \in {"running", "cancelling", "cancelled"}
    /\ row.status \in {"cancelling", "cancelled"} => row.cancelRequested

CancelWorker(w) ==
    /\ worker[w].pc = "finalizeCancel" => jobs[JobOf(w)].cancelRequested
    /\ worker[w].ctx = "cancelled" => worker[w].pc # "idle" /\ jobs[JobOf(w)].cancelRequested
    /\ Executing(w) /\ HoldsRunning(w, JobOf(w)) => ~jobs[JobOf(w)].cancelRequested

CancelInv == (\A r \in Run : CancelRow(jobs[r])) /\ (\A w \in Worker : CancelWorker(w))

\* With workers that notice in time that their lease is gone: whoever executes a job with a
\* live context holds its lease, or has just failed it.
LeaseHeld(w) ==
    Heartbeats(w) =>
        \/ HoldsLease(w, JobOf(w)) /\ jobs[JobOf(w)].lease = "live"
        \/ worker[w].pc = "failRun" /\ jobs[JobOf(w)].status = "failed"

\* What a worker that is about to complete its job, or has given it up, knows of the rows.
RowsAsKnown(w) ==
    /\ worker[w].pc = "idle" => \A s \in Scenario : worker[w].scen[s] = "todo"
    /\ worker[w].pc = "reconcile" => jobs[JobOf(w)].status = "failed"
    /\ Heartbeats(w) => \A s \in Scenario :
           worker[w].scen[s] = "passed" => sessions[JobOf(w)][s].status # "failed"
    /\ worker[w].pc = "complete" /\ Heartbeats(w) /\ jobs[JobOf(w)].status = "running" =>
           /\ runs[JobOf(w)] \in FinishedRun
           /\ runs[JobOf(w)] = "completed" => \A s \in Scenario : worker[w].scen[s] = "passed"

\* RunRowAgrees and NoFailureHidden, of one run.
RunHonest(r) ==
    /\ jobs[r].status = "completed" => runs[r] \in FinishedRun
    /\ jobs[r].status = "cancelled" => runs[r] = "cancelled"
    /\ jobs[r].status = "completed" /\ runs[r] = "completed" =>
           \A s \in Scenario : sessions[r][s].status # "failed"

PromptFacts ==
    /\ \A w \in Worker : LeaseHeld(w) /\ RowsAsKnown(w)
    /\ \A r \in Run : RunHonest(r)
    /\ ExecutorAlone

PromptInv == ~stalls => PromptFacts

-----------------------------------------------------------------------------
(* What the steps of a scenario have in common *)

\* A worker writes at most the row of the scenario it is working on: never without its
\* announcement of containers, and as failed only with a live context.
ScenarioRowWritten(w, s) ==
    \/ UNCHANGED storeVars
    \/ \E row \in SessionRow :
          /\ UpsertSession(JobOf(w), s, row)
          /\ row.status # "absent"
          /\ Interrupted(sessions[JobOf(w)][s]) => Interrupted(row)
          /\ row.status = "failed" => worker[w].ctx = "live"

ScenarioEffect(w, s, v) ==
    /\ worker[w].pc = "scenarios" /\ worker[w].scen[s] \notin Result
    /\ SetScen(w, s, v)
    /\ ScenarioRowWritten(w, s)
    /\ v = "passed" => sessions'[JobOf(w)][s].status # "failed"
    /\ v = "persisted" => Interrupted(sessions'[JobOf(w)][s])
    /\ \/ containers' \subseteq containers
       \/ /\ worker[w].scen[s] = "persisted"
          /\ containers' = containers \cup {<<w, JobOf(w), s>>}
    /\ faults' \in 0..MaxFaults

\* A fault is counted within its bound.
LEMMA FaultCounted ==
    ASSUME faults \in 0..MaxFaults, Fault \/ UNCHANGED faults
    PROVE  faults' \in 0..MaxFaults
  BY ServiceLimits DEF Fault

\* The row a scenario's step stores is found in the table afterwards.
LEMMA RowStored ==
    ASSUME StoreTypeOK, NEW r \in Run, NEW s \in Scenario, NEW row, UpsertSession(r, s, row)
    PROVE  sessions'[r][s] = row
  BY DEF UpsertSession, StoreTypeOK

LEMMA ScenarioSummary ==
    ASSUME ServiceInv, NEW w \in Worker, NEW s \in Scenario,
           ScenarioStep(w, s) \/ ScenarioFault(w, s)
    PROVE  \E v \in Progress : ScenarioEffect(w, s, v)
  <1> DEFINE row == sessions[JobOf(w)][s]
  <1>1. /\ worker[w] \in WorkerState /\ worker[w].scen[s] \in Progress
        /\ faults \in 0..MaxFaults /\ StoreTypeOK
    BY DEF ServiceInv, ServiceTypeOK, WorkerState
  <1>2. worker[w].scen[s] \in InFlight => worker[w].pc = "scenarios"
    BY DEF ServiceInv, WorkerInv
  <1>3. worker[w].pc = "scenarios"
    BY <1>2 DEF ScenarioStep, ScenarioFault, CheckScenario, MarkScenarioRunning,
         BuildPersistedSession, RestoreAfterCleanup, StartServices, ServicesReady,
         ProvisioningFails, TestsDone, CleanupScenario, RecordScenario, CleanupFailedScenario,
         InterruptScenario, AbandonScenario, CheckpointUnread, MarkScenarioFails,
         RecoveryCleanupFails, PrepareFails, TestPlanFails, CleanupFailsAfterTests, RecordFails,
         InFlight
  <1>4. worker[w].scen[s] \notin Result
    BY DEF ScenarioStep, ScenarioFault, CheckScenario, MarkScenarioRunning,
         BuildPersistedSession, RestoreAfterCleanup, StartServices, ServicesReady,
         ProvisioningFails, TestsDone, CleanupScenario, RecordScenario, CleanupFailedScenario,
         InterruptScenario, AbandonScenario, CheckpointUnread, MarkScenarioFails,
         RecoveryCleanupFails, PrepareFails, TestPlanFails, CleanupFailsAfterTests, RecordFails,
         Result
  <1>5. JobOf(w) \in Run /\ row \in SessionRow /\ row.status # "absent"
    BY <1>1, <1>3 DEF ServiceInv, WorkerInv, StoreTypeOK, RecordsExist
  \* The rows a scenario can write, with the conclusion they stand for.
  <1>6. ASSUME NEW new \in SessionRow, UpsertSession(JobOf(w), s, new),
               new.status # "absent", new.phase # "created" \/ new.phase = row.phase,
               new.status = "failed" => worker[w].ctx = "live"
        PROVE  ScenarioRowWritten(w, s) /\ sessions'[JobOf(w)][s] = new
    BY <1>1, <1>5, <1>6, RowStored DEF ScenarioRowWritten, Interrupted
  <1>7. ASSUME NEW v \in {"completed", "failed", "cleanup_failed"}, Conclude(w, s, v),
               worker[w].ctx = "live", containers' \subseteq containers,
               Fault \/ UNCHANGED faults
        PROVE  \E u \in Progress : ScenarioEffect(w, s, u)
    <2> DEFINE u == IF v = "completed" THEN "passed" ELSE v
               new == [status |-> v, phase |-> v]
    <2>1. u \in Progress /\ u # "persisted" /\ (u = "passed" => v = "completed")
      BY DEF Progress, Result
    <2>2. new \in SessionRow
      BY DEF SessionRow, SessionStatus, SessionPhase
    <2>3. UpsertSession(JobOf(w), s, new) /\ SetScen(w, s, u)
      BY <1>7 DEF Conclude
    <2>4. ScenarioRowWritten(w, s) /\ sessions'[JobOf(w)][s] = new
      BY <1>6, <1>7, <2>2, <2>3
    <2>5. faults' \in 0..MaxFaults
      BY <1>1, <1>7, FaultCounted
    <2> HIDE DEF u
    <2>6. ScenarioEffect(w, s, u)
      BY <1>3, <1>4, <1>7, <2>1, <2>3, <2>4, <2>5 DEF ScenarioEffect
    <2> QED BY <2>1, <2>6
  <1>8. ASSUME NEW v \in Progress \ {"passed", "persisted"}, SetScen(w, s, v),
               ScenarioRowWritten(w, s), containers' \subseteq containers,
               Fault \/ UNCHANGED faults
        PROVE  \E u \in Progress : ScenarioEffect(w, s, u)
    <2>1. faults' \in 0..MaxFaults
      BY <1>1, <1>8, FaultCounted
    <2> QED BY <1>3, <1>4, <1>8, <2>1 DEF ScenarioEffect
  <1>9. UNCHANGED storeVars => ScenarioRowWritten(w, s)
    BY DEF ScenarioRowWritten
  <1>10. {"todo", "checked", "active", "persisted", "provisioning", "up", "cleaning", "cleaned",
          "failing", "passed", "failed", "cleanup_failed"} \subseteq Progress
    BY DEF Progress, InFlight, Result
  <1>11. CASE CheckScenario(w, s)
    <2>1. CASE TerminalCheckpoint(row) /\ row.status = "completed"
      <3>1. SetScen(w, s, "passed") /\ UNCHANGED <<storeVars, containers, faults>>
        BY <1>11, <2>1 DEF CheckScenario
      <3>2. sessions'[JobOf(w)][s].status # "failed"
        BY <2>1, <3>1 DEF storeVars
      <3> QED BY <1>1, <1>3, <1>4, <1>9, <1>10, <3>1, <3>2 DEF ScenarioEffect
    <2>2. CASE ~(TerminalCheckpoint(row) /\ row.status = "completed")
      <3>1. \E v \in {"checked", "failed"} : SetScen(w, s, v)
        BY <1>11, <2>2 DEF CheckScenario
      <3> QED BY <1>8, <1>9, <1>10, <1>11, <3>1 DEF CheckScenario
    <2> QED BY <2>1, <2>2
  <1>12. CASE CheckpointUnread(w, s)
    BY <1>8, <1>9, <1>10, <1>12 DEF CheckpointUnread
  <1>13. CASE MarkScenarioRunning(w, s)
    <2>1. [row EXCEPT !.status = "running"] \in SessionRow
      BY <1>5 DEF SessionRow, SessionStatus
    <2>2. [row EXCEPT !.status = "running"].status = "running"
          /\ [row EXCEPT !.status = "running"].phase = row.phase
      BY <1>5 DEF SessionRow
    <2>3. ScenarioRowWritten(w, s)
      BY <1>6, <1>13, <2>1, <2>2 DEF MarkScenarioRunning
    <2> QED BY <1>8, <1>10, <1>13, <2>3 DEF MarkScenarioRunning
  <1>14. CASE MarkScenarioFails(w, s)
    BY <1>8, <1>9, <1>10, <1>14 DEF MarkScenarioFails
  <1>15. CASE BuildPersistedSession(w, s)
    <2> DEFINE new == [status |-> "running", phase |-> "active"]
    <2>1. new \in SessionRow
      BY DEF SessionRow, SessionStatus, SessionPhase
    <2>2. ScenarioRowWritten(w, s) /\ sessions'[JobOf(w)][s] = new
      BY <1>6, <1>15, <2>1 DEF BuildPersistedSession
    <2>3. containers' \subseteq containers /\ (Fault \/ UNCHANGED faults)
      BY <1>15 DEF BuildPersistedSession
    <2>4. faults' \in 0..MaxFaults
      BY <1>1, <2>3, FaultCounted
    <2>5. ScenarioEffect(w, s, "persisted")
      BY <1>3, <1>4, <1>15, <2>2, <2>3, <2>4
         DEF BuildPersistedSession, ScenarioEffect, Interrupted
    <2> QED BY <1>10, <2>5
  <1>16. CASE RestoreAfterCleanup(w, s)
    BY <1>7, <1>16 DEF RestoreAfterCleanup
  <1>17. CASE RecoveryCleanupFails(w, s)
    BY <1>7, <1>17 DEF RecoveryCleanupFails
  <1>18. CASE PrepareFails(w, s)
    <2>1. containers' \subseteq containers
      BY <1>18 DEF PrepareFails
    <2> QED BY <1>7, <1>18, <2>1 DEF PrepareFails
  <1>19. CASE StartServices(w, s)
    <2>1. UNCHANGED <<storeVars, faults>> /\ SetScen(w, s, "provisioning")
      BY <1>19 DEF StartServices
    <2>2. ScenarioEffect(w, s, "provisioning")
      BY <1>1, <1>3, <1>4, <1>9, <1>19, <2>1 DEF StartServices, ScenarioEffect
    <2> QED BY <1>10, <2>2
  <1>20. CASE ServicesReady(w, s)
    <2>1. [status |-> "running", phase |-> "active"] \in SessionRow
      BY DEF SessionRow, SessionStatus, SessionPhase
    <2>2. ScenarioRowWritten(w, s)
      BY <1>6, <1>20, <2>1 DEF ServicesReady
    <2> QED BY <1>8, <1>10, <1>20, <2>2 DEF ServicesReady
  <1>21. CASE ProvisioningFails(w, s)
    <2>1. [status |-> "failed", phase |-> "failed"] \in SessionRow
      BY DEF SessionRow, SessionStatus, SessionPhase
    <2>2. ScenarioRowWritten(w, s)
      BY <1>6, <1>21, <2>1 DEF ProvisioningFails
    <2> QED BY <1>8, <1>10, <1>21, <2>2 DEF ProvisioningFails
  <1>22. CASE TestPlanFails(w, s)
    BY <1>8, <1>9, <1>10, <1>22 DEF TestPlanFails
  <1>23. CASE TestsDone(w, s)
    <2> DEFINE new == [row EXCEPT !.phase = "cleaning_up"]
    <2>1. new \in SessionRow /\ new.status = row.status /\ new.phase = "cleaning_up"
      BY <1>5 DEF SessionRow, SessionPhase
    <2>2. UNCHANGED storeVars \/ UpsertSession(JobOf(w), s, new)
      BY <1>23 DEF TestsDone
    <2>3. worker[w].ctx = "live" /\ SetScen(w, s, "cleaning") /\ UNCHANGED containers
          /\ (Fault \/ UNCHANGED faults)
      BY <1>23 DEF TestsDone
    <2> HIDE DEF new, row
    <2>4. ScenarioRowWritten(w, s)
      BY <1>5, <1>6, <1>9, <2>1, <2>2, <2>3
    <2> QED BY <1>8, <1>10, <2>3, <2>4
  <1>24. CASE CleanupScenario(w, s)
    BY <1>8, <1>9, <1>10, <1>24 DEF CleanupScenario
  <1>25. CASE CleanupFailsAfterTests(w, s)
    <2>1. CASE worker[w].ctx = "live"
      BY <1>7, <1>25, <2>1 DEF CleanupFailsAfterTests
    <2>2. CASE worker[w].ctx # "live"
      BY <1>8, <1>9, <1>10, <1>25, <2>2 DEF CleanupFailsAfterTests
    <2> QED BY <2>1, <2>2
  <1>26. CASE RecordScenario(w, s)
    BY <1>7, <1>26 DEF RecordScenario
  <1>27. CASE RecordFails(w, s)
    <2>1. \A v \in {"completed", "failed"} : [status |-> v, phase |-> v] \in SessionRow
      BY DEF SessionRow, SessionStatus, SessionPhase
    <2>2. ScenarioRowWritten(w, s)
      BY <1>6, <1>9, <1>27, <2>1 DEF RecordFails
    <2> QED BY <1>8, <1>10, <1>27, <2>2 DEF RecordFails
  <1>28. CASE CleanupFailedScenario(w, s)
    <2>1. \E v \in {"failed", "cleanup_failed"} : Conclude(w, s, v)
      BY <1>28 DEF CleanupFailedScenario
    <2>2. containers' \subseteq containers /\ (Fault \/ UNCHANGED faults)
      BY <1>28 DEF CleanupFailedScenario
    <2> QED BY <1>7, <1>28, <2>1, <2>2 DEF CleanupFailedScenario
  <1>29. CASE InterruptScenario(w, s)
    <2>1. [row EXCEPT !.status = "pending"] \in SessionRow
          /\ [row EXCEPT !.status = "pending"].status = "pending"
          /\ [row EXCEPT !.status = "pending"].phase = row.phase
      BY <1>5 DEF SessionRow, SessionStatus
    <2>2. \A v \in {"cancelled", "cleanup_failed"} : [status |-> v, phase |-> v] \in SessionRow
      BY DEF SessionRow, SessionStatus, SessionPhase
    <2>3. \E new \in {[row EXCEPT !.status = "pending"],
                      [status |-> "cancelled", phase |-> "cancelled"],
                      [status |-> "cleanup_failed", phase |-> "cleanup_failed"]} :
              UpsertSession(JobOf(w), s, new)
      BY <1>29 DEF InterruptScenario, InterruptedRow
    <2>4. ScenarioRowWritten(w, s)
      BY <1>6, <2>1, <2>2, <2>3
    <2>5. containers' \subseteq containers /\ (Fault \/ UNCHANGED faults)
      BY <1>29 DEF InterruptScenario
    <2> QED BY <1>8, <1>10, <1>29, <2>4, <2>5 DEF InterruptScenario
  <1>30. CASE AbandonScenario(w, s)
    BY <1>8, <1>9, <1>10, <1>30 DEF AbandonScenario
  <1> QED
    BY <1>11, <1>12, <1>13, <1>14, <1>15, <1>16, <1>17, <1>18, <1>19, <1>20, <1>21, <1>22, <1>23,
       <1>24, <1>25, <1>26, <1>27, <1>28, <1>29, <1>30 DEF ScenarioStep, ScenarioFault

-----------------------------------------------------------------------------
(* Workers use the queue only through its transactions *)

\* Every step of a client or a worker, late and dying ones included, is a step of the queue's
\* own specification.
LEMMA ServiceStepIsStoreStep ==
    ASSUME ServiceInv, [ServiceNext]_serviceVars
    PROVE  [StoreNext]_storeVars
  <1>1. ASSUME NEW w \in Worker, worker[w].pc # "idle"
        PROVE  JobOf(w) \in Run
    BY <1>1 DEF ServiceInv, WorkerInv
  <1>2. ASSUME NEW w \in Worker, NEW r \in Run, OwnerCall(w, r)
        PROVE  StoreNext
    BY <1>2 DEF StoreNext
  <1>3. ASSUME NEW r \in Run, NEW st \in {"running"} \cup FinishedRun, UpsertWorkflowRun(r, st)
        PROVE  StoreNext
    BY <1>3, WorkerWrites DEF StoreNext, RowWrite
  <1>4. ASSUME NEW r \in Run, Submit(r) \/ Cancel(r) \/ LeaseRunsOut(r)
        PROVE  StoreNext
    BY <1>4 DEF Submit, Cancel, LeaseRunsOut, StoreNext, AdmitWorkflowJob
  <1>5. ASSUME NEW w \in Worker, ClaimJob(w)
        PROVE  StoreNext
    <2>1. PICK locked \in SUBSET {JobOf(v) : v \in Worker \ {w}}, r \in Run :
              ClaimWorkflowJobFair(w, r, locked)
      BY <1>5 DEF ClaimJob
    <2>2. ClaimWorkflowJobFair(w, r, locked \cap Run)
      BY <2>1 DEF ClaimWorkflowJobFair, FirstClaimable, Claimable
    <2>3. OwnerCall(w, r)
      BY <2>2 DEF OwnerCall
    <2> QED BY <1>2, <2>3
  <1>6. ASSUME NEW w \in Worker,
               ReconcileExhaustedJob(w) \/ BeginRun(w) \/ FinishRun(w) \/ FailRun(w)
        PROVE  StoreNext \/ UNCHANGED storeVars
    <2>1. JobOf(w) \in Run
      BY <1>1, <1>6 DEF ReconcileExhaustedJob, BeginRun, FinishRun, FailRun
    <2>2. RunVerdict(worker[w].scen) \in FinishedRun
      BY DEF RunVerdict, FinishedRun
    <2>3. \/ UNCHANGED storeVars
          \/ \E st \in {"running"} \cup FinishedRun : UpsertWorkflowRun(JobOf(w), st)
      BY <1>6, <2>2 DEF ReconcileExhaustedJob, BeginRun, FinishRun, FailRun, FinishedRun
    <2> QED BY <1>3, <2>1, <2>3
  <1>7. ASSUME NEW w \in Worker,
               \/ FinalizeRecoveredCancel(w) \/ SettleInterrupted(w) \/ CompleteJob(w)
               \/ FailJob(w) \/ HeartbeatRenews(w)
        PROVE  StoreNext \/ UNCHANGED storeVars
    <2>1. JobOf(w) \in Run
      BY <1>1, <1>7 DEF FinalizeRecoveredCancel, SettleInterrupted, CompleteJob, FailJob,
                        HeartbeatRenews, Heartbeats, Executing
    <2>2. \/ CancelWorkflowJob(w, JobOf(w)) \/ ReleaseWorkflowJob(w, JobOf(w))
          \/ CompleteWorkflowJob(w, JobOf(w)) \/ FailWorkflowJob(w, JobOf(w))
          \/ HeartbeatWorkflowJob(w, JobOf(w)) \/ UNCHANGED storeVars
      BY <1>7 DEF FinalizeRecoveredCancel, SettleInterrupted, CompleteJob, FailJob,
                  HeartbeatRenews
    <2>3. OwnerCall(w, JobOf(w)) \/ UNCHANGED storeVars
      BY <2>2 DEF OwnerCall
    <2> QED BY <1>2, <2>1, <2>3
  <1>8. ASSUME NEW w \in Worker,
               \/ ClaimFollowUpFails(w) \/ BeginFails(w) \/ ScenariosDone(w) \/ FinishFails(w)
               \/ CompleteFails(w) \/ Restart(w) \/ HeartbeatRefused(w) \/ WorkerFault(w)
        PROVE  UNCHANGED storeVars
    BY <1>8 DEF ClaimFollowUpFails, BeginFails, ScenariosDone, FinishFails, CompleteFails,
                Restart, HeartbeatRefused, WorkerFault, HeartbeatFails, SettleFails, Shutdown, Crash
  <1>9. ASSUME NEW w \in Worker, NEW s \in Scenario, ScenarioStep(w, s) \/ ScenarioFault(w, s)
        PROVE  StoreNext \/ UNCHANGED storeVars
    <2>1. worker[w].pc = "scenarios" /\ ScenarioRowWritten(w, s)
      BY <1>9, ScenarioSummary DEF ScenarioEffect
    <2>2. JobOf(w) \in Run
      BY <1>1, <2>1
    <2>3. ASSUME NEW row \in SessionRow, UpsertSession(JobOf(w), s, row), row.status # "absent"
          PROVE  StoreNext
      <3>1. RowWrite(JobOf(w))
        BY <2>3, WorkerWrites DEF RowWrite
      <3> QED BY <2>2, <3>1 DEF StoreNext
    <2> QED BY <2>1, <2>3 DEF ScenarioRowWritten
  <1>10. UNCHANGED serviceVars => UNCHANGED storeVars
    BY DEF serviceVars
  <1>11. StoreNext \/ UNCHANGED storeVars
    BY <1>4, <1>5, <1>6, <1>7, <1>8, <1>9, <1>10
       DEF ServiceNext, JobStep, HeartbeatStep
  <1> QED BY <1>11

\* Records that exist go on existing, and an announcement of containers is never withdrawn.
Grows(r) ==
    /\ jobs[r].status # "absent" => jobs'[r].status # "absent"
    /\ runs[r] # "absent" => runs'[r] # "absent"
    /\ \A s \in Scenario : sessions[r][s].status # "absent" =>
          /\ sessions'[r][s].status # "absent"
          /\ Interrupted(sessions[r][s]) => Interrupted(sessions'[r][s])

AllGrow == \A r \in Run : Grows(r)

LEMMA RecordsGrow ==
    ASSUME ServiceInv, [ServiceNext]_serviceVars
    PROVE  AllGrow
  <1>1. StoreTypeOK /\ \A r \in Run : jobs[r].status # "absent" => jobs'[r].status # "absent"
    BY ServiceStepIsStoreStep, JobsStay DEF ServiceInv, ServiceTypeOK
  <1>2. ASSUME UNCHANGED <<runs, sessions>>
        PROVE  AllGrow
    BY <1>1, <1>2 DEF AllGrow, Grows
  <1>3. ASSUME NEW r \in Run, InsertMissingRecords(r)
        PROVE  AllGrow
    <2>1. \A q \in Run : runs[q] # "absent" => runs'[q] # "absent"
      BY <1>1, <1>3 DEF InsertMissingRecords, StoreTypeOK
    <2>2. \A q \in Run, s \in Scenario :
              sessions[q][s].status # "absent" => sessions'[q][s] = sessions[q][s]
      BY <1>1, <1>3 DEF InsertMissingRecords, StoreTypeOK
    <2> QED BY <1>1, <2>1, <2>2 DEF AllGrow, Grows
  <1>4. ASSUME NEW r \in Run, NEW st \in {"cancelling", "cancelled"},
               UpdateCancelledWorkflowRecords(r, st)
        PROVE  AllGrow
    <2>1. \A q \in Run : runs[q] # "absent" => runs'[q] # "absent"
      BY <1>1, <1>4 DEF UpdateCancelledWorkflowRecords, StoreTypeOK
    <2>2. \A q \in Run, s \in Scenario :
              \/ sessions'[q][s] = sessions[q][s]
              \/ sessions'[q][s] = [sessions[q][s] EXCEPT !.status = st]
      BY <1>1, <1>4 DEF UpdateCancelledWorkflowRecords, StoreTypeOK
    <2>3. \A q \in Run, s \in Scenario : sessions[q][s] \in SessionRow
      BY <1>1 DEF StoreTypeOK
    <2>4. \A q \in Run, s \in Scenario : sessions[q][s].status # "absent" =>
              sessions'[q][s].status # "absent" /\ sessions'[q][s].phase = sessions[q][s].phase
      <3> TAKE q \in Run, s \in Scenario
      <3>1. CASE sessions'[q][s] = sessions[q][s]
        BY <3>1
      <3>2. CASE sessions'[q][s] = [sessions[q][s] EXCEPT !.status = st]
        <4>1. sessions'[q][s].status = st /\ sessions'[q][s].phase = sessions[q][s].phase
          BY <2>3, <3>2 DEF SessionRow
        <4> QED BY <4>1
      <3> QED BY <2>2, <3>1, <3>2
    <2> QED BY <1>1, <2>1, <2>4 DEF AllGrow, Grows, Interrupted
  <1>5. ASSUME NEW r \in Run, NEW st \in {"running"} \cup FinishedRun, UpsertWorkflowRun(r, st)
        PROVE  AllGrow
    <2>1. \A q \in Run : runs[q] # "absent" => runs'[q] # "absent"
      <3>1. st # "absent"
        BY DEF FinishedRun
      <3>2. \A q \in Run : runs'[q] = runs[q] \/ runs'[q] = st
        BY <1>1, <1>5 DEF UpsertWorkflowRun, StoreTypeOK
      <3> QED BY <3>1, <3>2
    <2>2. UNCHANGED sessions
      BY <1>5 DEF UpsertWorkflowRun
    <2> QED BY <1>1, <2>1, <2>2 DEF AllGrow, Grows
  <1>6. ASSUME NEW r \in Run, Submit(r) \/ Cancel(r) \/ LeaseRunsOut(r)
        PROVE  AllGrow
    <2>1. CASE Submit(r)
      BY <1>3, <2>1 DEF Submit, AdmitNewWorkflowJob
    <2>2. CASE Cancel(r)
      <3>1. CancelledStatus(jobs[r]) \in {"cancelling", "cancelled"}
        BY DEF CancelledStatus
      <3> QED BY <1>4, <2>2, <3>1 DEF Cancel, RequestWorkflowJobCancellation
    <2>3. CASE LeaseRunsOut(r)
      BY <1>2, <2>3 DEF LeaseRunsOut, LeaseExpires
    <2> QED BY <1>6, <2>1, <2>2, <2>3
  <1>7. ASSUME NEW w \in Worker, worker[w].pc # "idle"
        PROVE  JobOf(w) \in Run
    BY <1>7 DEF ServiceInv, WorkerInv
  <1>8. ASSUME NEW w \in Worker,
               ReconcileExhaustedJob(w) \/ BeginRun(w) \/ FinishRun(w) \/ FailRun(w)
        PROVE  AllGrow
    <2>1. JobOf(w) \in Run
      BY <1>7, <1>8 DEF ReconcileExhaustedJob, BeginRun, FinishRun, FailRun
    <2>2. RunVerdict(worker[w].scen) \in FinishedRun
      BY DEF RunVerdict, FinishedRun
    <2>3. \/ UNCHANGED <<runs, sessions>>
          \/ \E st \in {"running"} \cup FinishedRun : UpsertWorkflowRun(JobOf(w), st)
      BY <1>8, <2>2 DEF ReconcileExhaustedJob, BeginRun, FinishRun, FailRun, FinishedRun, storeVars
    <2> QED BY <1>2, <1>5, <2>1, <2>3
  <1>9. ASSUME NEW w \in Worker, FinalizeRecoveredCancel(w) \/ SettleInterrupted(w)
        PROVE  AllGrow
    <2>1. JobOf(w) \in Run
      BY <1>7, <1>9 DEF FinalizeRecoveredCancel, SettleInterrupted
    <2>2. CASE CancelWorkflowJob(w, JobOf(w))
      BY <1>4, <2>1, <2>2 DEF CancelWorkflowJob
    <2>3. CASE ~CancelWorkflowJob(w, JobOf(w))
      <3>1. UNCHANGED <<runs, sessions>>
        BY <1>9, <2>3 DEF FinalizeRecoveredCancel, SettleInterrupted, ReleaseWorkflowJob, storeVars
      <3> QED BY <1>2, <3>1
    <2> QED BY <2>2, <2>3
  <1>10. ASSUME NEW w \in Worker,
               \/ ClaimJob(w) \/ CompleteJob(w) \/ FailJob(w) \/ HeartbeatRenews(w)
               \/ ClaimFollowUpFails(w) \/ BeginFails(w) \/ ScenariosDone(w) \/ FinishFails(w)
               \/ CompleteFails(w) \/ Restart(w) \/ HeartbeatRefused(w) \/ WorkerFault(w)
        PROVE  UNCHANGED <<runs, sessions>>
    BY <1>10 DEF ClaimJob, CompleteJob, FailJob, HeartbeatRenews, ClaimWorkflowJobFair,
                CompleteWorkflowJob, FailWorkflowJob, HeartbeatWorkflowJob, storeVars,
                ClaimFollowUpFails, BeginFails, ScenariosDone, FinishFails, CompleteFails,
                Restart, HeartbeatRefused, WorkerFault, HeartbeatFails, SettleFails, Shutdown, Crash
  <1>11. ASSUME NEW w \in Worker, NEW s \in Scenario, ScenarioStep(w, s) \/ ScenarioFault(w, s)
        PROVE  AllGrow
    <2>1. worker[w].pc = "scenarios" /\ ScenarioRowWritten(w, s)
      BY <1>11, ScenarioSummary DEF ScenarioEffect
    <2>2. JobOf(w) \in Run
      BY <1>7, <2>1
    <2>3. CASE UNCHANGED storeVars
      BY <1>2, <2>3 DEF storeVars
    <2>4. ASSUME NEW row \in SessionRow, UpsertSession(JobOf(w), s, row), row.status # "absent",
                 Interrupted(sessions[JobOf(w)][s]) => Interrupted(row)
          PROVE  AllGrow
      <3>1. UNCHANGED runs
        BY <2>4 DEF UpsertSession
      <3>2. \A q \in Run, t \in Scenario :
                \/ sessions'[q][t] = sessions[q][t]
                \/ q = JobOf(w) /\ t = s /\ sessions'[q][t] = row
        BY <1>1, <2>2, <2>4 DEF UpsertSession, StoreTypeOK
      <3> QED BY <1>1, <2>4, <3>1, <3>2 DEF AllGrow, Grows
    <2> QED BY <2>1, <2>3, <2>4 DEF ScenarioRowWritten
  <1>12. CASE UNCHANGED serviceVars
    BY <1>2, <1>12 DEF serviceVars, storeVars
  <1>13. CASE ServiceNext
    BY <1>2, <1>6, <1>8, <1>9, <1>10, <1>11, <1>13 DEF ServiceNext, JobStep, HeartbeatStep
  <1> QED BY <1>12, <1>13

\* Only a submission puts a job into the queue.
LEMMA OnlySubmitAdds ==
    ASSUME ServiceInv, [ServiceNext]_serviceVars
    PROVE  \/ \E r \in Run : Submit(r)
           \/ \A r \in Run : jobs[r].status = "absent" => jobs'[r].status = "absent"
  <1> DEFINE NoneAdded == \A r \in Run : jobs[r].status = "absent" => jobs'[r].status = "absent"
  <1>1. StoreTypeOK
    BY DEF ServiceInv, ServiceTypeOK
  <1>2. ASSUME NEW r \in Run, NEW new, jobs' = [jobs EXCEPT ![r] = new],
               jobs[r].status # "absent" \/ new.status = jobs[r].status
        PROVE  NoneAdded
    BY <1>1, <1>2 DEF StoreTypeOK
  <1>3. ASSUME NEW r \in Run, Cancel(r)
        PROVE  NoneAdded
    BY <1>2, <1>3 DEF Cancel, RequestWorkflowJobCancellation
  <1>4. ASSUME NEW r \in Run, LeaseRunsOut(r)
        PROVE  NoneAdded
    <2>1. WithLease(jobs[r], "expired").status = jobs[r].status
      BY <1>1 DEF WithLease, StoreTypeOK, JobRow
    <2> QED BY <1>2, <1>4, <2>1 DEF LeaseRunsOut, LeaseExpires
  <1>5. ASSUME NEW w \in Worker, ClaimJob(w)
        PROVE  NoneAdded
    BY <1>2, <1>5 DEF ClaimJob, ClaimWorkflowJobFair, FirstClaimable, Claimable, Recoverable,
                      Startable
  <1>6. ASSUME NEW w \in Worker, worker[w].pc # "idle"
        PROVE  JobOf(w) \in Run
    BY <1>6 DEF ServiceInv, WorkerInv
  <1>7. ASSUME NEW w \in Worker,
               \/ FinalizeRecoveredCancel(w) \/ SettleInterrupted(w) \/ CompleteJob(w)
               \/ FailJob(w) \/ HeartbeatRenews(w)
        PROVE  NoneAdded
    <2>1. JobOf(w) \in Run
      BY <1>6, <1>7 DEF FinalizeRecoveredCancel, SettleInterrupted, CompleteJob, FailJob,
                        HeartbeatRenews, Heartbeats, Executing
    <2>2. \/ UNCHANGED jobs
          \/ /\ jobs[JobOf(w)].status \in Leased
             /\ \E new : jobs' = [jobs EXCEPT ![JobOf(w)] = new]
      BY <1>7 DEF FinalizeRecoveredCancel, SettleInterrupted, CompleteJob, FailJob,
                  HeartbeatRenews, CancelWorkflowJob, ReleaseWorkflowJob, CompleteWorkflowJob,
                  FailWorkflowJob, HeartbeatWorkflowJob, CanRenew, HoldsLease, HoldsRunning, storeVars
    <2> QED BY <1>2, <2>1, <2>2
  <1>8. ASSUME NEW w \in Worker,
               \/ ReconcileExhaustedJob(w) \/ BeginRun(w) \/ FinishRun(w) \/ FailRun(w)
               \/ ClaimFollowUpFails(w) \/ BeginFails(w) \/ ScenariosDone(w) \/ FinishFails(w)
               \/ CompleteFails(w) \/ Restart(w) \/ HeartbeatRefused(w) \/ WorkerFault(w)
        PROVE  UNCHANGED jobs
    BY <1>8 DEF ReconcileExhaustedJob, BeginRun, FinishRun, FailRun, UpsertWorkflowRun, storeVars,
                ClaimFollowUpFails, BeginFails, ScenariosDone, FinishFails, CompleteFails,
                Restart, HeartbeatRefused, WorkerFault, HeartbeatFails, SettleFails, Shutdown, Crash
  <1>9. ASSUME NEW w \in Worker, NEW s \in Scenario, ScenarioStep(w, s) \/ ScenarioFault(w, s)
        PROVE  UNCHANGED jobs
    BY <1>9, ScenarioSummary DEF ScenarioEffect, ScenarioRowWritten, UpsertSession, storeVars
  <1>10. UNCHANGED serviceVars => UNCHANGED jobs
    BY DEF serviceVars, storeVars
  <1> QED
    BY <1>3, <1>4, <1>5, <1>7, <1>8, <1>9, <1>10 DEF ServiceNext, JobStep, HeartbeatStep

\* A job and its records appear together and stay.
LEMMA RecordsStep ==
    ASSUME ServiceInv, [ServiceNext]_serviceVars
    PROVE  RecordsExist'
  <1>1. StoreTypeOK /\ RecordsExist /\ AllGrow
    BY RecordsGrow DEF ServiceInv, ServiceTypeOK
  <1>2. CASE \A r \in Run : jobs[r].status = "absent" => jobs'[r].status = "absent"
    BY <1>1, <1>2 DEF RecordsExist, AllGrow, Grows
  <1>3. ASSUME NEW r \in Run, Submit(r)
        PROVE  RecordsExist'
    <2>1. \A q \in Run : q # r => jobs'[q] = jobs[q]
      BY <1>1, <1>3 DEF Submit, AdmitNewWorkflowJob, StoreTypeOK
    <2>2. InsertMissingRecords(r)
      BY <1>3 DEF Submit, AdmitNewWorkflowJob
    <2>3. runs'[r] # "absent"
      BY <1>1, <2>2 DEF InsertMissingRecords, StoreTypeOK
    <2>4. \A s \in Scenario : sessions'[r][s].status # "absent"
      BY <1>1, <2>2 DEF InsertMissingRecords, StoreTypeOK, NoSession
    <2> QED BY <1>1, <2>1, <2>3, <2>4 DEF RecordsExist, AllGrow, Grows
  <1> QED BY <1>2, <1>3, OnlySubmitAdds

-----------------------------------------------------------------------------
(* The first part of the invariant is inductive *)

\* What a worker does outside its scenarios: it goes back to waiting, learns something about
\* its context, moves on when no scenario is under way, or takes a job.
JobMove(w, st) ==
    \/ st.pc = "idle" /\ st.ctx = "live" /\ \A s \in Scenario : st.scen[s] = "todo"
    \/ /\ worker[w].pc # "idle" /\ st.pc = worker[w].pc
       /\ st.run = worker[w].run /\ st.scen = worker[w].scen
       /\ \/ st.ctx \in {worker[w].ctx, "lost"}
          \/ st.ctx = "cancelled" /\ SeesCancellation(w, JobOf(w))
    \/ /\ Executing(w) /\ st.pc \notin {"idle", "reconcile", "finalizeCancel"}
       /\ st.ctx = worker[w].ctx
       /\ st.run = worker[w].run /\ st.scen = worker[w].scen
       /\ Quiet(w) /\ (st.pc \in {"finish", "complete"} => AllDone(w))
    \/ /\ ClaimJob(w) /\ worker[w].pc = "idle"
       /\ st.pc \in {"reconcile", "finalizeCancel", "begin"}
       /\ st.run \in Run /\ jobs[st.run].status # "absent"
       /\ st.ctx = worker[w].ctx /\ st.scen = worker[w].scen

JobEffect(w, st) ==
    /\ worker' = [worker EXCEPT ![w] = st]
    /\ JobMove(w, st)
    /\ UNCHANGED containers
    /\ faults' \in 0..MaxFaults

LEMMA JobSummary ==
    ASSUME ServiceInv, NEW w \in Worker, JobStep(w) \/ HeartbeatStep(w) \/ WorkerFault(w)
    PROVE  \E st \in WorkerState : JobEffect(w, st)
  <1> DEFINE me == worker[w]
  <1>1. /\ worker \in [Worker -> WorkerState] /\ me \in WorkerState
        /\ faults \in 0..MaxFaults /\ StoreTypeOK
    BY DEF ServiceInv, ServiceTypeOK
  <1>2. me.pc # "scenarios" => Quiet(w)
    BY DEF ServiceInv, WorkerInv, Quiet
  <1>3. ASSUME NEW x \in BOOLEAN, worker' = [worker EXCEPT ![w] = [Idle EXCEPT !.stopping = x]],
               UNCHANGED containers, Fault \/ UNCHANGED faults
        PROVE  \E st \in WorkerState : JobEffect(w, st)
    <2> DEFINE st == [Idle EXCEPT !.stopping = x]
    <2>1. /\ st \in WorkerState /\ st.pc = "idle" /\ st.ctx = "live"
          /\ \A s \in Scenario : st.scen[s] = "todo"
      BY DEF Idle, WorkerState, Control, Context, Progress
    <2>2. faults' \in 0..MaxFaults
      BY <1>1, <1>3, FaultCounted
    <2> HIDE DEF st
    <2> QED BY <1>3, <2>1, <2>2 DEF JobEffect, JobMove, st
  <1>4. ASSUME BackToIdle(w) \/ worker' = [worker EXCEPT ![w] = Idle],
               UNCHANGED containers, Fault \/ UNCHANGED faults
        PROVE  \E st \in WorkerState : JobEffect(w, st)
    <2>1. me.stopping \in BOOLEAN
      BY <1>1 DEF WorkerState
    <2>2. Idle = [Idle EXCEPT !.stopping = FALSE]
      <3>1. Idle \in WorkerState /\ Idle.stopping = FALSE
        BY DEF Idle, WorkerState, Control, Context, Progress
      <3>2. \A st \in WorkerState : st.stopping = FALSE => st = [st EXCEPT !.stopping = FALSE]
        BY DEF WorkerState
      <3> QED BY <3>1, <3>2
    <2>3. \E x \in BOOLEAN : worker' = [worker EXCEPT ![w] = [Idle EXCEPT !.stopping = x]]
      BY <1>4, <2>1, <2>2 DEF BackToIdle
    <2> QED BY <1>3, <1>4, <2>3
  <1>5. ASSUME NEW p \in Control \ {"idle", "reconcile", "finalizeCancel"},
               Goto(w, p), Executing(w), Quiet(w),
               p \in {"finish", "complete"} => AllDone(w),
               UNCHANGED containers, Fault \/ UNCHANGED faults
        PROVE  \E st \in WorkerState : JobEffect(w, st)
    <2> DEFINE st == [me EXCEPT !.pc = p]
    <2>1. /\ st \in WorkerState /\ st.pc = p /\ st.run = me.run /\ st.scen = me.scen
          /\ st.ctx = me.ctx
      BY <1>1 DEF WorkerState
    <2>2. worker' = [worker EXCEPT ![w] = st]
      BY <1>1, <1>5 DEF Goto
    <2>3. faults' \in 0..MaxFaults
      BY <1>1, <1>5, FaultCounted
    <2>4. JobMove(w, st)
      BY <1>5, <2>1 DEF JobMove
    <2> HIDE DEF st
    <2> QED BY <1>5, <2>1, <2>2, <2>3, <2>4 DEF JobEffect
  <1>6. ASSUME NEW c \in Context, NEW x \in BOOLEAN,
               worker' = [worker EXCEPT ![w] = [me EXCEPT !.ctx = c, !.stopping = x]],
               c \in {me.ctx, "lost"} \/ (c = "cancelled" /\ SeesCancellation(w, JobOf(w))),
               me.pc # "idle", UNCHANGED containers, Fault \/ UNCHANGED faults
        PROVE  \E st \in WorkerState : JobEffect(w, st)
    <2> DEFINE st == [me EXCEPT !.ctx = c, !.stopping = x]
    <2>1. /\ st \in WorkerState /\ st.pc = me.pc /\ st.run = me.run /\ st.scen = me.scen
          /\ st.ctx = c
      BY <1>1 DEF WorkerState
    <2>2. faults' \in 0..MaxFaults
      BY <1>1, <1>6, FaultCounted
    <2> HIDE DEF st
    <2>3. JobMove(w, st)
      BY <1>6, <2>1 DEF JobMove
    <2> QED BY <1>6, <2>1, <2>2, <2>3 DEF JobEffect, st
  <1>7. CASE \/ ReconcileExhaustedJob(w) \/ FinalizeRecoveredCancel(w) \/ ClaimFollowUpFails(w)
             \/ SettleInterrupted(w) \/ SettleFails(w) \/ CompleteJob(w) \/ CompleteFails(w)
             \/ FailRun(w) \/ Restart(w) \/ Crash(w)
    <2>1. /\ BackToIdle(w) \/ worker' = [worker EXCEPT ![w] = Idle]
          /\ UNCHANGED containers /\ (Fault \/ UNCHANGED faults)
      BY <1>7 DEF ReconcileExhaustedJob, FinalizeRecoveredCancel, ClaimFollowUpFails, FaultUnless,
                  SettleInterrupted, SettleFails, CompleteJob, CompleteFails, FailRun, Restart, Crash
    <2> QED BY <1>4, <2>1
  <1>8. CASE BeginRun(w) \/ BeginFails(w) \/ ScenariosDone(w) \/ FinishRun(w) \/ FinishFails(w)
             \/ FailJob(w)
    <2>1. Executing(w) /\ UNCHANGED containers /\ (Fault \/ UNCHANGED faults)
      BY <1>8 DEF BeginRun, BeginFails, ScenariosDone, FinishRun, FinishFails, FailJob, FaultUnless,
                  Executing, Control
    <2>2. Quiet(w)
      BY <1>2, <1>8 DEF BeginRun, BeginFails, ScenariosDone, FinishRun, FinishFails, FailJob,
                        AllDone, Quiet, InFlight, Result
    <2>3. me.pc = "finish" => AllDone(w)
      BY DEF ServiceInv, WorkerInv
    <2>4. PICK p \in {"scenarios", "failJob", "finish", "complete", "failRun"} :
              Goto(w, p) /\ (p \in {"finish", "complete"} => AllDone(w))
      BY <1>8, <2>3 DEF BeginRun, BeginFails, ScenariosDone, FinishRun, FinishFails, FailJob
    <2>5. p \in Control \ {"idle", "reconcile", "finalizeCancel"}
      BY <2>4 DEF Control
    <2> QED BY <1>5, <2>1, <2>2, <2>4, <2>5
  <1>9. CASE HeartbeatRefused(w) \/ HeartbeatFails(w) \/ Shutdown(w)
    <2>1. me.pc # "idle" /\ UNCHANGED containers /\ (Fault \/ UNCHANGED faults)
      BY <1>9 DEF HeartbeatRefused, HeartbeatFails, Shutdown, Heartbeats, Executing
    <2>2. me.stopping \in BOOLEAN /\ me.ctx \in Context
      BY <1>1 DEF WorkerState
    <2>3. \E c \in Context, x \in BOOLEAN :
              /\ worker' = [worker EXCEPT ![w] = [me EXCEPT !.ctx = c, !.stopping = x]]
              /\ c \in {me.ctx, "lost"} \/ (c = "cancelled" /\ SeesCancellation(w, JobOf(w)))
      <3>1. CASE HeartbeatRefused(w) \/ HeartbeatFails(w)
        <4>1. PICK c \in {"cancelled", "lost"} :
                  /\ worker' = [worker EXCEPT ![w].ctx = c]
                  /\ c = "cancelled" => SeesCancellation(w, JobOf(w))
          BY <3>1 DEF HeartbeatRefused, HeartbeatFails
        <4>2. [me EXCEPT !.ctx = c, !.stopping = me.stopping] = [me EXCEPT !.ctx = c]
          BY <1>1 DEF WorkerState
        <4>3. worker' = [worker EXCEPT ![w] = [me EXCEPT !.ctx = c]] /\ c \in Context
          BY <1>1, <4>1 DEF Context
        <4> QED BY <2>2, <4>1, <4>2, <4>3
      <3>2. CASE Shutdown(w)
        <4> DEFINE c == IF me.ctx = "live" THEN "lost" ELSE me.ctx
        <4>1. c \in Context /\ c \in {me.ctx, "lost"}
          BY <2>2 DEF Context
        <4>2. worker' = [worker EXCEPT ![w] = [me EXCEPT !.stopping = TRUE, !.ctx = c]]
          BY <1>1, <3>2 DEF Shutdown
        <4>3. [me EXCEPT !.stopping = TRUE, !.ctx = c] = [me EXCEPT !.ctx = c, !.stopping = TRUE]
          BY <1>1 DEF WorkerState
        <4> HIDE DEF c
        <4> QED BY <4>1, <4>2, <4>3
      <3> QED BY <1>9, <3>1, <3>2
    <2> QED BY <1>6, <2>1, <2>3
  <1>10. CASE HeartbeatRenews(w)
    <2>1. worker' = [worker EXCEPT ![w] = me] /\ me.pc # "idle"
      BY <1>1, <1>10 DEF HeartbeatRenews, Heartbeats, Executing
    <2> QED BY <1>1, <1>10, <2>1 DEF HeartbeatRenews, JobEffect, JobMove
  <1>11. CASE ClaimJob(w)
    <2>1. PICK r \in Run, p \in {"reconcile", "finalizeCancel", "begin"} :
              /\ jobs[r].status # "absent"
              /\ worker' = [worker EXCEPT ![w].run = r, ![w].pc = p]
      BY <1>11 DEF ClaimJob, ClaimWorkflowJobFair, FirstClaimable, Claimable, Recoverable, Startable
    <2> DEFINE st == [me EXCEPT !.run = r, !.pc = p]
    <2>2. worker' = [worker EXCEPT ![w] = st]
      BY <1>1, <2>1
    <2>3. /\ st \in WorkerState /\ st.pc = p /\ st.run = r /\ st.scen = me.scen
          /\ st.ctx = me.ctx
      BY <1>1, <2>1 DEF WorkerState, Control
    <2> HIDE DEF st
    <2> QED BY <1>1, <1>11, <2>1, <2>2, <2>3 DEF ClaimJob, JobEffect, JobMove
  <1> QED
    BY <1>7, <1>8, <1>9, <1>10, <1>11 DEF JobStep, HeartbeatStep, WorkerFault

\* A worker that does not move keeps its part of the invariant, whatever the others do.
LEMMA BystanderKeepsInv ==
    ASSUME ServiceInv, AllGrow, NEW v \in Worker, worker'[v] = worker[v]
    PROVE  WorkerInv(v)'
  <1>1. WorkerInv(v) /\ RecordsExist
    BY DEF ServiceInv
  <1>2. worker[v].pc # "idle" => JobOf(v) \in Run /\ jobs'[JobOf(v)].status # "absent"
    BY <1>1 DEF WorkerInv, AllGrow, Grows
  <1>3. ASSUME NEW s \in Scenario, worker[v].scen[s] = "persisted"
        PROVE  Interrupted(sessions'[JobOf(v)][s])
    <2>1. worker[v].pc = "scenarios"
      BY <1>1, <1>3 DEF WorkerInv, InFlight
    <2>2. JobOf(v) \in Run /\ sessions[JobOf(v)][s].status # "absent"
      BY <1>1, <2>1 DEF WorkerInv, RecordsExist
    <2> QED BY <1>1, <1>3, <2>2 DEF WorkerInv, AllGrow, Grows
  <1> QED BY <1>1, <1>2, <1>3 DEF WorkerInv, AllDone, Interrupted

\* The containers that are left, or that a scenario has just announced, are known.
LEMMA ContainersStep ==
    ASSUME ServiceInv, AllGrow,
           \/ containers' \subseteq containers
           \/ \E w \in Worker, s \in Scenario :
                  /\ worker[w].scen[s] = "persisted"
                  /\ containers' = containers \cup {<<w, JobOf(w), s>>}
    PROVE  ContainersKnown' /\ containers' \subseteq Worker \X Run \X Scenario
  <1>1. /\ RecordsExist /\ ContainersKnown /\ containers \subseteq Worker \X Run \X Scenario
        /\ \A w \in Worker : WorkerInv(w)
    BY DEF ServiceInv, ServiceTypeOK
  <1>2. ASSUME NEW r \in Run, NEW s \in Scenario, jobs[r].status # "absent",
               Interrupted(sessions[r][s])
        PROVE  jobs'[r].status # "absent" /\ Interrupted(sessions'[r][s])
    BY <1>1, <1>2 DEF RecordsExist, AllGrow, Grows
  <1>3. \A c \in containers : jobs'[c[2]].status # "absent" /\ Interrupted(sessions'[c[2]][c[3]])
    BY <1>1, <1>2 DEF ContainersKnown
  <1>4. CASE containers' \subseteq containers
    BY <1>1, <1>3, <1>4 DEF ContainersKnown, Interrupted
  <1>5. ASSUME NEW w \in Worker, NEW s \in Scenario, worker[w].scen[s] = "persisted",
               containers' = containers \cup {<<w, JobOf(w), s>>}
        PROVE  ContainersKnown' /\ containers' \subseteq Worker \X Run \X Scenario
    <2>1. worker[w].pc = "scenarios" /\ Interrupted(sessions[JobOf(w)][s])
      BY <1>1, <1>5 DEF WorkerInv, InFlight
    <2>2. JobOf(w) \in Run /\ jobs[JobOf(w)].status # "absent"
      BY <1>1, <2>1 DEF WorkerInv
    <2>3. jobs'[JobOf(w)].status # "absent" /\ Interrupted(sessions'[JobOf(w)][s])
      BY <1>2, <2>1, <2>2
    <2> QED BY <1>1, <1>3, <1>5, <2>2, <2>3 DEF ContainersKnown, Interrupted
  <1> QED BY <1>4, <1>5

LEMMA ServiceInvStep ==
    ASSUME ServiceInv, [ServiceNext]_serviceVars
    PROVE  ServiceInv'
  <1>1. ServiceTypeOK /\ RecordsExist /\ \A w \in Worker : WorkerInv(w)
    BY DEF ServiceInv
  <1>2. StoreTypeOK'
    BY <1>1, ServiceStepIsStoreStep, StoreTypeStep DEF ServiceTypeOK
  <1>3. AllGrow /\ RecordsExist'
    BY RecordsGrow, RecordsStep
  <1>4. stalls' \in BOOLEAN
    BY <1>1 DEF ServiceTypeOK, ServiceNext, serviceVars
  \* A step of one worker: the others are bystanders.
  <1>5. ASSUME NEW w \in Worker, NEW st \in WorkerState, worker' = [worker EXCEPT ![w] = st],
               WorkerInv(w)', faults' \in 0..MaxFaults,
               ContainersKnown', containers' \subseteq Worker \X Run \X Scenario
        PROVE  ServiceInv'
    <2>1. worker' \in [Worker -> WorkerState] /\ \A v \in Worker \ {w} : worker'[v] = worker[v]
      BY <1>1, <1>5 DEF ServiceTypeOK
    <2>2. \A v \in Worker : WorkerInv(v)'
      BY <1>3, <1>5, <2>1, BystanderKeepsInv
    <2> QED BY <1>2, <1>3, <1>4, <1>5, <2>1, <2>2 DEF ServiceInv, ServiceTypeOK
  <1>6. ASSUME NEW w \in Worker, JobStep(w) \/ HeartbeatStep(w) \/ WorkerFault(w)
        PROVE  ServiceInv'
    <2>1. PICK st \in WorkerState : JobEffect(w, st)
      BY <1>6, JobSummary
    <2>2. worker'[w] = st
      BY <1>1, <2>1 DEF JobEffect, ServiceTypeOK
    <2>3. JobMove(w, st)
      BY <2>1 DEF JobEffect
    <2>4. WorkerInv(w)'
      <3>1. CASE st.pc = "idle" /\ \A s \in Scenario : st.scen[s] = "todo"
        BY <2>2, <3>1 DEF WorkerInv, InFlight
      <3>2. CASE /\ worker[w].pc # "idle" /\ st.pc = worker[w].pc
                 /\ st.run = worker[w].run /\ st.scen = worker[w].scen
        <4>1. WorkerInv(w) /\ JobOf(w) \in Run /\ jobs'[JobOf(w)].status # "absent"
          BY <1>1, <1>3, <3>2 DEF WorkerInv, AllGrow, Grows
        <4>2. ASSUME NEW s \in Scenario, worker[w].scen[s] = "persisted"
              PROVE  Interrupted(sessions'[JobOf(w)][s])
          BY <1>1, <1>3, <3>2, <4>1, <4>2 DEF WorkerInv, RecordsExist, AllGrow, Grows
        <4> QED BY <2>2, <3>2, <4>1, <4>2 DEF WorkerInv, AllDone, Interrupted
      <3>3. CASE /\ Executing(w) /\ st.pc \notin {"idle", "reconcile", "finalizeCancel"}
                 /\ st.run = worker[w].run /\ st.scen = worker[w].scen
                 /\ Quiet(w) /\ (st.pc \in {"finish", "complete"} => AllDone(w))
        <4>1. WorkerInv(w) /\ JobOf(w) \in Run /\ jobs'[JobOf(w)].status # "absent"
          BY <1>1, <1>3, <3>3 DEF WorkerInv, AllGrow, Grows, Executing
        <4> QED BY <2>2, <3>3, <4>1 DEF WorkerInv, AllDone, Quiet, InFlight
      <3>4. CASE /\ worker[w].pc = "idle" /\ st.pc \in {"reconcile", "finalizeCancel", "begin"}
                 /\ st.run \in Run /\ jobs[st.run].status # "absent" /\ st.scen = worker[w].scen
        <4>1. \A s \in Scenario : worker[w].scen[s] \notin InFlight
          BY <1>1, <3>4 DEF WorkerInv
        <4>2. jobs'[st.run].status # "absent"
          BY <1>3, <3>4 DEF AllGrow, Grows
        <4> QED BY <2>2, <3>4, <4>1, <4>2 DEF WorkerInv, InFlight
      <3> QED BY <2>3, <3>1, <3>2, <3>3, <3>4 DEF JobMove
    <2>5. ContainersKnown' /\ containers' \subseteq Worker \X Run \X Scenario
      <3>1. containers' \subseteq containers
        BY <2>1 DEF JobEffect
      <3> QED BY <1>3, <3>1, ContainersStep
    <2> QED BY <1>5, <2>1, <2>4, <2>5 DEF JobEffect
  <1>7. ASSUME NEW w \in Worker, NEW s \in Scenario, ScenarioStep(w, s) \/ ScenarioFault(w, s)
        PROVE  ServiceInv'
    <2>1. PICK v \in Progress : ScenarioEffect(w, s, v)
      BY <1>7, ScenarioSummary
    <2> DEFINE st == [worker[w] EXCEPT !.scen = [@ EXCEPT ![s] = v]]
    <2>2. worker[w] \in WorkerState /\ worker \in [Worker -> WorkerState]
      BY <1>1 DEF ServiceTypeOK
    <2>3. worker' = [worker EXCEPT ![w] = st]
      BY <2>1, <2>2 DEF ScenarioEffect, SetScen
    <2>4. /\ st \in WorkerState /\ st.pc = worker[w].pc /\ st.run = worker[w].run
          /\ st.scen = [worker[w].scen EXCEPT ![s] = v]
      BY <2>2 DEF WorkerState
    <2>5. \A t \in Scenario : st.scen[t] = IF t = s THEN v ELSE worker[w].scen[t]
      BY <2>2, <2>4 DEF WorkerState
    <2> HIDE DEF st
    <2>6. worker'[w] = st
      BY <2>2, <2>3
    <2>7. worker[w].pc = "scenarios"
      BY <2>1 DEF ScenarioEffect
    <2>8. JobOf(w) \in Run /\ jobs'[JobOf(w)].status # "absent"
      BY <1>1, <1>3, <2>7 DEF WorkerInv, AllGrow, Grows
    <2>9. ASSUME NEW t \in Scenario, st.scen[t] = "persisted"
          PROVE  Interrupted(sessions'[JobOf(w)][t])
      <3>1. CASE t = s
        BY <2>1, <2>5, <2>9, <3>1 DEF ScenarioEffect
      <3>2. CASE t # s
        <4>1. worker[w].scen[t] = "persisted"
          BY <2>5, <2>9, <3>2
        <4>2. Interrupted(sessions[JobOf(w)][t]) /\ sessions[JobOf(w)][t].status # "absent"
          BY <1>1, <2>7, <4>1 DEF WorkerInv, RecordsExist
        <4> QED BY <1>3, <2>8, <4>2 DEF AllGrow, Grows
      <3> QED BY <3>1, <3>2
    <2>10. WorkerInv(w)'
      BY <2>4, <2>6, <2>7, <2>8, <2>9 DEF WorkerInv, Interrupted
    <2>11. ContainersKnown' /\ containers' \subseteq Worker \X Run \X Scenario
      BY <1>3, <2>1, ContainersStep DEF ScenarioEffect
    <2> QED BY <1>5, <2>1, <2>3, <2>4, <2>10, <2>11 DEF ScenarioEffect
  <1>8. ASSUME UNCHANGED <<worker, containers>>, faults' \in 0..MaxFaults
        PROVE  ServiceInv'
    <2>1. ContainersKnown'
      BY <1>3, <1>8, ContainersStep
    <2>2. \A v \in Worker : WorkerInv(v)'
      BY <1>3, <1>8, BystanderKeepsInv
    <2> QED BY <1>1, <1>2, <1>3, <1>4, <1>8, <2>1, <2>2 DEF ServiceInv, ServiceTypeOK
  <1>9. ASSUME NEW r \in Run, Submit(r) \/ Cancel(r) \/ LeaseRunsOut(r)
        PROVE  ServiceInv'
    <2>1. UNCHANGED <<worker, containers>> /\ (Fault \/ UNCHANGED faults)
      BY <1>9 DEF Submit, Cancel, LeaseRunsOut
    <2>2. faults' \in 0..MaxFaults
      BY <1>1, <2>1, FaultCounted DEF ServiceTypeOK
    <2> QED BY <1>8, <2>1, <2>2
  <1>10. CASE UNCHANGED serviceVars
    BY <1>1, <1>8, <1>10 DEF serviceVars, ServiceTypeOK
  <1>11. CASE ServiceNext
    BY <1>6, <1>7, <1>9, <1>11 DEF ServiceNext
  <1> QED BY <1>10, <1>11

LEMMA ServiceInvariant == ServiceSpec => []ServiceInv
  <1>1. ServiceInit => ServiceInv
    <2> SUFFICES ASSUME ServiceInit PROVE ServiceInv
      OBVIOUS
    <2>1. StoreTypeOK
      BY DEF ServiceInit, StoreInit, StoreTypeOK, NoJob, JobRow, RunStatus, NoSession,
             SessionRow, SessionStatus, SessionPhase, NoRate, RateRow
    <2>2. Idle \in WorkerState /\ Idle.pc = "idle" /\ \A s \in Scenario : Idle.scen[s] = "todo"
      BY DEF Idle, WorkerState, Control, Context, Progress
    <2>3. ServiceTypeOK
      BY <2>1, <2>2, ServiceLimits DEF ServiceInit, ServiceTypeOK
    <2>4. \A w \in Worker : worker[w] = Idle
      BY DEF ServiceInit
    <2>5. \A w \in Worker : WorkerInv(w)
      BY <2>2, <2>4 DEF WorkerInv, InFlight
    <2>6. RecordsExist /\ ContainersKnown
      BY DEF ServiceInit, StoreInit, NoJob, RecordsExist, ContainersKnown
    <2> QED BY <2>3, <2>5, <2>6 DEF ServiceInv
  <1> QED BY <1>1, ServiceInvStep, PTL DEF ServiceSpec

\* The state of the workers keeps its type.
THEOREM ServiceTypeCorrect == ServiceSpec => []ServiceTypeOK
  <1>1. ServiceInv => ServiceTypeOK
    BY DEF ServiceInv
  <1> QED BY <1>1, ServiceInvariant, PTL

\* The workers implement the specification of the queue: whatever they do, and whenever
\* they stall, crash or come back, every step is one that workflow_jobs.go guards.
THEOREM ServiceImplementsStore == ServiceSpec => ImplementsStore
  <1>1. ServiceInit => StoreInit
    BY DEF ServiceInit
  <1> QED BY <1>1, ServiceStepIsStoreStep, ServiceInvariant, PTL
          DEF ServiceSpec, ImplementsStore, StoreSpec

\* So the guarantees of the queue hold of the service.
THEOREM ServiceKeepsTheQueue ==
    ServiceSpec => [](RowMatchesStatus /\ WithinLimits) /\ LiveLeaseNotStolen /\ ProgressKept
  BY ServiceImplementsStore, RowsMatchTheirStatus, LimitsAreRespected, LiveLeasesAreNotStolen,
     ProgressIsKept, PTL DEF ImplementsStore

\* No container of a scenario is ever forgotten: its session row says that an earlier attempt
\* got past its creation, so whoever resumes the scenario removes it first.
THEOREM ContainersAreAnnounced == ServiceSpec => []ContainersAnnounced
  <1>1. ServiceInv => ContainersAnnounced
    BY DEF ServiceInv, ContainersKnown, ContainersAnnounced
  <1> QED BY <1>1, ServiceInvariant, PTL

-----------------------------------------------------------------------------
(* Cancel requests *)

\* No transaction forgets a cancel request.
LEMMA CancelRemembered ==
    ASSUME StoreTypeOK, [StoreNext]_storeVars, NEW r \in Run,
           jobs[r].status # "absent", jobs[r].cancelRequested
    PROVE  jobs'[r].cancelRequested
  <1>1. ASSUME NEW q \in Run, NEW new \in JobRow,
               RowChange(jobs[q], new), jobs' = [jobs EXCEPT ![q] = new]
        PROVE  jobs'[r].cancelRequested
    <2>1. CASE q # r
      BY <1>1, <2>1 DEF StoreTypeOK
    <2>2. CASE q = r
      <3>1. jobs[r] \in JobRow
        BY DEF StoreTypeOK
      <3>0. jobs'[r] = new
        BY <1>1, <2>2 DEF StoreTypeOK
      <3>2. CASE new = CancelAsked(jobs[r])
        BY <3>0, <3>1, <3>2 DEF JobRow, CancelAsked
      <3>3. CASE \E l \in {"live", "expired"} : new = WithLease(jobs[r], l)
        BY <3>0, <3>1, <3>3 DEF JobRow, WithLease
      <3>4. CASE \E o \in Owner : new = Taken(jobs[r], o)
        BY <3>0, <3>1, <3>4 DEF JobRow, Taken
      <3>5. CASE new = Released(jobs[r]) \/ \E st \in Terminal : new = Finished(jobs[r], st)
        BY <3>0, <3>1, <3>5 DEF JobRow, Released, Finished
      <3> QED BY <1>1, <2>2, <3>2, <3>3, <3>4, <3>5 DEF RowChange
    <2> QED BY <2>1, <2>2
  <1> QED BY <1>1, StepChangesOneRow DEF Permitted

\* Nothing about the row changes that concerns its owner and a cancel request.
CancelledAsBefore(old, new) ==
    /\ new.owner = old.owner /\ new.status = old.status
    /\ new.cancelRequested = old.cancelRequested

\* Every step leaves cancel requests to be honoured by the worker that finds them.
LEMMA CancelInvStep ==
    ASSUME ServiceInv, CancelInv, [ServiceNext]_serviceVars
    PROVE  CancelInv'
  <1> USE RowSets
  <1>1. /\ StoreTypeOK /\ worker \in [Worker -> WorkerState]
        /\ \A w \in Worker : WorkerInv(w) /\ CancelWorker(w)
        /\ \A r \in Run : jobs[r] \in JobRow /\ CancelRow(jobs[r])
    BY DEF ServiceInv, ServiceTypeOK, StoreTypeOK, CancelInv
  <1>2. \A r \in Run : jobs[r].cancelRequested => jobs'[r].cancelRequested
    BY <1>1, ServiceStepIsStoreStep, CancelRemembered DEF CancelRow
  <1>3. \A w \in Worker : worker[w].pc # "idle" => JobOf(w) \in Run
    BY <1>1 DEF WorkerInv
  <1>4. ASSUME NEW r \in Run, NEW new, jobs' = [jobs EXCEPT ![r] = new], CancelRow(new)
        PROVE  \A q \in Run : CancelRow(jobs'[q])
    BY <1>1, <1>4 DEF StoreTypeOK
  \* A worker that does not move has only its own running row to lose.
  <1>5. ASSUME NEW v \in Worker, worker'[v] = worker[v],
               Executing(v) /\ jobs'[JobOf(v)].owner = v /\ jobs'[JobOf(v)].status = "running" =>
                   ~jobs'[JobOf(v)].cancelRequested
        PROVE  CancelWorker(v)'
    BY <1>1, <1>2, <1>3, <1>5 DEF CancelWorker, Executing, HoldsRunning
  <1>6. ASSUME NEW v \in Worker, worker'[v] = worker[v],
               \/ jobs'[JobOf(v)] = jobs[JobOf(v)]
               \/ jobs'[JobOf(v)].owner # v
               \/ jobs'[JobOf(v)].status # "running"
        PROVE  CancelWorker(v)'
    BY <1>1, <1>5, <1>6 DEF CancelWorker, HoldsRunning
  <1>7. ASSUME NEW w \in Worker, UNCHANGED jobs,
               JobStep(w) \/ HeartbeatStep(w) \/ WorkerFault(w), ~ClaimJob(w)
        PROVE  CancelInv'
    <2>1. PICK st \in WorkerState : JobEffect(w, st)
      BY <1>7, JobSummary
    <2>2. worker'[w] = st /\ \A v \in Worker \ {w} : worker'[v] = worker[v]
      BY <1>1, <2>1 DEF JobEffect
    <2>3. JobMove(w, st)
      BY <2>1 DEF JobEffect
    <2>4. CancelWorker(w)'
      <3>1. CASE st.pc = "idle" /\ st.ctx = "live"
        BY <2>2, <3>1 DEF CancelWorker, Executing
      <3>2. CASE /\ worker[w].pc # "idle" /\ st.pc = worker[w].pc /\ st.run = worker[w].run
                 /\ \/ st.ctx \in {worker[w].ctx, "lost"}
                    \/ st.ctx = "cancelled" /\ SeesCancellation(w, JobOf(w))
        <4>1. SeesCancellation(w, JobOf(w)) => jobs[JobOf(w)].cancelRequested
          BY <1>1, <1>3, <3>2 DEF SeesCancellation, CancelRow
        <4> QED BY <1>1, <1>7, <2>2, <3>2, <4>1 DEF CancelWorker, Executing, HoldsRunning
      <3>3. CASE /\ Executing(w) /\ st.pc \notin {"idle", "reconcile", "finalizeCancel"}
                 /\ st.ctx = worker[w].ctx /\ st.run = worker[w].run
        BY <1>1, <1>7, <2>2, <3>3 DEF CancelWorker, Executing, HoldsRunning
      <3> QED BY <1>7, <2>3, <3>1, <3>2, <3>3 DEF JobMove
    <2> QED BY <1>1, <1>6, <1>7, <2>2, <2>4 DEF CancelInv
  <1>8. ASSUME NEW w \in Worker, NEW s \in Scenario, ScenarioStep(w, s) \/ ScenarioFault(w, s)
        PROVE  CancelInv'
    <2>1. PICK v \in Progress : ScenarioEffect(w, s, v)
      BY <1>8, ScenarioSummary
    <2>2. UNCHANGED jobs
      BY <2>1 DEF ScenarioEffect, ScenarioRowWritten, UpsertSession, storeVars
    <2>3. /\ \A x \in Worker \ {w} : worker'[x] = worker[x]
          /\ worker'[w].pc = worker[w].pc /\ worker'[w].ctx = worker[w].ctx
          /\ worker'[w].run = worker[w].run
      BY <1>1, <2>1 DEF ScenarioEffect, SetScen, WorkerState
    <2>4. CancelWorker(w)'
      BY <1>1, <2>2, <2>3 DEF CancelWorker, Executing, HoldsRunning
    <2> QED BY <1>1, <1>6, <2>2, <2>3, <2>4 DEF CancelInv
  <1>9. ASSUME NEW r \in Run, Submit(r)
        PROVE  CancelInv'
    <2>1. PICK h \in Hash : jobs' = [jobs EXCEPT ![r] = NewJob(h)]
      BY <1>9 DEF Submit, AdmitNewWorkflowJob
    <2>2. CancelRow(NewJob(h))
      BY DEF NewJob, NoJob, CancelRow
    <2>3. UNCHANGED worker /\ jobs[r].status = "absent"
      BY <1>9 DEF Submit
    <2>4. \A v \in Worker : worker[v].pc # "idle" => JobOf(v) # r
      BY <1>1, <2>3 DEF WorkerInv
    <2>5. ASSUME NEW v \in Worker PROVE CancelWorker(v)'
      <3>1. CASE worker[v].pc = "idle"
        <4>1. worker'[v] = worker[v] /\ ~Executing(v)
          BY <2>3, <3>1 DEF Executing
        <4> QED BY <1>5, <4>1
      <3>2. CASE worker[v].pc # "idle"
        <4>1. JobOf(v) \in Run /\ JobOf(v) # r
          BY <1>3, <2>4, <3>2
        <4>2. jobs'[JobOf(v)] = jobs[JobOf(v)]
          BY <1>1, <2>1, <4>1 DEF StoreTypeOK
        <4> QED BY <1>6, <2>3, <4>2
      <3> QED BY <3>1, <3>2
    <2> QED BY <1>4, <2>1, <2>2, <2>5 DEF CancelInv
  \* Steps that write the row of a job that is not being submitted.
  <1>10. ASSUME NEW r \in Run, NEW new, jobs' = [jobs EXCEPT ![r] = new],
                CancelRow(new),
                NEW v \in Worker, worker'[v] = worker[v],
                new.owner # v \/ new.status # "running" \/ CancelledAsBefore(jobs[r], new)
         PROVE  CancelWorker(v)'
    <2>1. CASE worker[v].pc = "idle"
      BY <1>5, <1>10, <2>1 DEF Executing
    <2>2. CASE worker[v].pc # "idle" /\ JobOf(v) # r
      <3>1. jobs'[JobOf(v)] = jobs[JobOf(v)]
        BY <1>1, <1>3, <1>10, <2>2 DEF StoreTypeOK
      <3> QED BY <1>6, <1>10, <3>1
    <2>3. CASE worker[v].pc # "idle" /\ JobOf(v) = r
      <3>1. jobs'[JobOf(v)] = new
        BY <1>1, <1>10, <2>3 DEF StoreTypeOK
      <3> QED BY <1>1, <1>5, <1>6, <1>10, <2>3, <3>1 DEF CancelledAsBefore, CancelWorker, HoldsRunning
    <2> QED BY <2>1, <2>2, <2>3
  <1>11. ASSUME NEW r \in Run, Cancel(r)
         PROVE  CancelInv'
    <2>1. jobs' = [jobs EXCEPT ![r] = CancelAsked(jobs[r])] /\ UNCHANGED worker
      BY <1>11 DEF Cancel, RequestWorkflowJobCancellation
    <2>2. /\ CancelAsked(jobs[r]).cancelRequested
          /\ CancelAsked(jobs[r]).status \in {"cancelled", "cancelling"}
      BY <1>1 DEF CancelAsked, CancelledStatus, JobRow
    <2>3. CancelRow(CancelAsked(jobs[r]))
      BY <2>2 DEF CancelRow
    <2> HIDE DEF CancelAsked
    <2> QED BY <1>4, <1>10, <2>1, <2>2, <2>3 DEF CancelInv
  <1>12. ASSUME NEW r \in Run, LeaseRunsOut(r)
         PROVE  CancelInv'
    <2>1. jobs' = [jobs EXCEPT ![r] = WithLease(jobs[r], "expired")] /\ UNCHANGED worker
      BY <1>12 DEF LeaseRunsOut, LeaseExpires
    <2>2. CancelledAsBefore(jobs[r], WithLease(jobs[r], "expired"))
      BY <1>1 DEF WithLease, JobRow, CancelledAsBefore
    <2>3. CancelRow(WithLease(jobs[r], "expired"))
      BY <1>1, <2>2 DEF CancelRow, CancelledAsBefore
    <2> QED BY <1>4, <1>10, <2>1, <2>2, <2>3 DEF CancelInv
  <1>13. ASSUME NEW w \in Worker, HeartbeatRenews(w)
         PROVE  CancelInv'
    <2> DEFINE r == JobOf(w)
    <2>1. r \in Run
      BY <1>3, <1>13 DEF HeartbeatRenews, Heartbeats, Executing
    <2>2. jobs' = [jobs EXCEPT ![r] = WithLease(jobs[r], "live")] /\ UNCHANGED worker
      BY <1>13 DEF HeartbeatRenews, HeartbeatWorkflowJob
    <2>3. CancelledAsBefore(jobs[r], WithLease(jobs[r], "live"))
      BY <1>1, <2>1 DEF WithLease, JobRow, CancelledAsBefore
    <2>4. CancelRow(WithLease(jobs[r], "live"))
      BY <1>1, <2>1, <2>3 DEF CancelRow, CancelledAsBefore
    <2> HIDE DEF r
    <2> QED BY <1>4, <1>10, <2>1, <2>2, <2>3, <2>4 DEF CancelInv
  <1>14. ASSUME NEW w \in Worker, ClaimJob(w)
         PROVE  CancelInv'
    <2>1. PICK r \in Run :
              /\ jobs' = [jobs EXCEPT ![r] = IF Exhausted(r) THEN Finished(jobs[r], "failed")
                                             ELSE Taken(jobs[r], w)]
              /\ worker' = [worker EXCEPT ![w].run = r, ![w].pc =
                     IF Exhausted(r) THEN "reconcile"
                     ELSE IF jobs[r].cancelRequested THEN "finalizeCancel" ELSE "begin"]
      BY <1>14 DEF ClaimJob, ClaimWorkflowJobFair
    <2> DEFINE new == IF Exhausted(r) THEN Finished(jobs[r], "failed") ELSE Taken(jobs[r], w)
    <2>2. /\ new.cancelRequested = jobs[r].cancelRequested
          /\ new.owner \in {w, None}
          /\ IF Exhausted(r) THEN new.status = "failed" /\ ~new.cancelRequested
             ELSE new.status = "running"
      BY <1>1 DEF Finished, Taken, JobRow, Exhausted
    <2>3. jobs' = [jobs EXCEPT ![r] = new]
      BY <2>1
    <2> HIDE DEF new
    <2>4. CancelRow(new)
      BY <2>2 DEF CancelRow
    <2>5. jobs'[r] = new
      BY <1>1, <2>3 DEF StoreTypeOK
    <2>6. worker[w].ctx # "cancelled"
      BY <1>1, <1>14 DEF ClaimJob, CancelWorker
    <2>7. /\ \A v \in Worker \ {w} : worker'[v] = worker[v]
          /\ worker'[w].run = r /\ worker'[w].ctx = worker[w].ctx
          /\ worker'[w].pc = IF Exhausted(r) THEN "reconcile"
                             ELSE IF jobs[r].cancelRequested THEN "finalizeCancel" ELSE "begin"
      BY <1>1, <2>1 DEF WorkerState
    <2>8. CancelWorker(w)'
      BY <2>2, <2>5, <2>6, <2>7 DEF CancelWorker, Executing, HoldsRunning
    <2>9. ASSUME NEW v \in Worker \ {w} PROVE CancelWorker(v)'
      BY <1>10, <2>2, <2>3, <2>4, <2>7, <2>9
    <2> QED BY <1>4, <2>3, <2>4, <2>8, <2>9 DEF CancelInv
  \* A worker ends its job, and forgets it or goes on to fail the run.
  <1>15. ASSUME NEW w \in Worker, JobOf(w) \in Run, NEW new, jobs' = [jobs EXCEPT ![JobOf(w)] = new],
                CancelRow(new), new.status # "running",
                \/ BackToIdle(w)
                \/ worker[w].pc = "failJob" /\ Goto(w, "failRun")
         PROVE  CancelInv'
    <2>1. \A v \in Worker \ {w} : worker'[v] = worker[v]
      BY <1>1, <1>15 DEF BackToIdle, Goto
    <2>2. CancelWorker(w)'
      <3>1. CASE BackToIdle(w)
        <4>1. worker'[w].pc = "idle" /\ worker'[w].ctx = "live"
          BY <1>1, <3>1 DEF BackToIdle, Idle
        <4> QED BY <4>1 DEF CancelWorker, Executing
      <3>2. CASE worker[w].pc = "failJob" /\ Goto(w, "failRun")
        <4>1. worker'[w].pc = "failRun" /\ worker'[w].run = JobOf(w)
              /\ worker'[w].ctx = worker[w].ctx
          BY <1>1, <3>2 DEF Goto, WorkerState
        <4>2. jobs'[JobOf(w)] = new
          BY <1>1, <1>15 DEF StoreTypeOK
        <4>3. worker[w].ctx = "cancelled" => jobs'[JobOf(w)].cancelRequested
          BY <1>1, <1>2, <1>15 DEF CancelWorker
        <4> QED BY <1>15, <4>1, <4>2, <4>3 DEF CancelWorker, HoldsRunning
      <3> QED BY <1>15, <3>1, <3>2
    <2> QED BY <1>4, <1>10, <1>15, <2>1, <2>2 DEF CancelInv
  <1>16. ASSUME NEW w \in Worker, JobOf(w) \in Run
         PROVE  /\ jobs[JobOf(w)].cancelRequested =>
                       CancelRow(Finished(jobs[JobOf(w)], "cancelled"))
                /\ ~jobs[JobOf(w)].cancelRequested =>
                       /\ CancelRow(Released(jobs[JobOf(w)]))
                       /\ CancelRow(Finished(jobs[JobOf(w)], "completed"))
                       /\ CancelRow(Finished(jobs[JobOf(w)], "failed"))
                /\ Released(jobs[JobOf(w)]).status # "running"
                /\ \A st \in Terminal : Finished(jobs[JobOf(w)], st).status # "running"
    <2>1. jobs[JobOf(w)] \in JobRow
      BY <1>1, <1>16
    <2> QED BY <2>1 DEF JobRow, CancelRow, Finished, Released
  <1>17. ASSUME NEW w \in Worker,
                \/ FinalizeRecoveredCancel(w) \/ SettleInterrupted(w)
                \/ CompleteJob(w) \/ FailJob(w),
                ~UNCHANGED jobs
         PROVE  CancelInv'
    <2>1. JobOf(w) \in Run
      BY <1>3, <1>17 DEF FinalizeRecoveredCancel, SettleInterrupted, CompleteJob, FailJob
    <2>2. CASE CancelWorkflowJob(w, JobOf(w))
               /\ (FinalizeRecoveredCancel(w) \/ (SettleInterrupted(w) /\ worker[w].ctx = "cancelled"))
      <3>1. jobs[JobOf(w)].cancelRequested
        BY <1>1, <2>2 DEF FinalizeRecoveredCancel, CancelWorker
      <3>2. jobs' = [jobs EXCEPT ![JobOf(w)] = Finished(jobs[JobOf(w)], "cancelled")]
            /\ BackToIdle(w)
        BY <2>2 DEF CancelWorkflowJob, FinalizeRecoveredCancel, SettleInterrupted
      <3> QED BY <1>15, <1>16, <2>1, <3>1, <3>2
    <2>3. CASE /\ HoldsRunning(w, JobOf(w)) /\ Executing(w)
               /\ \E new \in {Released(jobs[JobOf(w)]), Finished(jobs[JobOf(w)], "completed"),
                              Finished(jobs[JobOf(w)], "failed")} :
                      jobs' = [jobs EXCEPT ![JobOf(w)] = new]
               /\ BackToIdle(w) \/ (worker[w].pc = "failJob" /\ Goto(w, "failRun"))
      <3>1. ~jobs[JobOf(w)].cancelRequested
        BY <1>1, <2>3 DEF CancelWorker
      <3> QED BY <1>15, <1>16, <2>1, <2>3, <3>1
    <2>4. CASE SettleInterrupted(w)
      <3>1. CASE worker[w].ctx = "cancelled" /\ CancelWorkflowJob(w, JobOf(w))
        BY <2>2, <2>4, <3>1
      <3>2. CASE ReleaseWorkflowJob(w, JobOf(w))
        BY <2>3, <2>4, <3>2 DEF SettleInterrupted, ReleaseWorkflowJob, Executing, Control
      <3> QED BY <1>17, <2>4, <3>1, <3>2 DEF SettleInterrupted, storeVars
    <2>5. CASE FinalizeRecoveredCancel(w)
      BY <1>17, <2>2, <2>5 DEF FinalizeRecoveredCancel, storeVars
    <2>6. CASE CompleteJob(w)
      BY <1>17, <2>3, <2>6
         DEF CompleteJob, CompleteWorkflowJob, Executing, Control, storeVars
    <2>7. CASE FailJob(w)
      BY <1>17, <2>3, <2>7 DEF FailJob, FailWorkflowJob, Executing, Control, storeVars
    <2> QED BY <1>17, <2>4, <2>5, <2>6, <2>7
  <1>18. ASSUME NEW w \in Worker,
                \/ ReconcileExhaustedJob(w) \/ BeginRun(w) \/ FinishRun(w) \/ FailRun(w)
                \/ ClaimFollowUpFails(w) \/ BeginFails(w) \/ ScenariosDone(w) \/ FinishFails(w)
                \/ CompleteFails(w) \/ Restart(w) \/ HeartbeatRefused(w) \/ WorkerFault(w)
         PROVE  UNCHANGED jobs
    BY <1>18 DEF ReconcileExhaustedJob, BeginRun, FinishRun, FailRun, UpsertWorkflowRun, storeVars,
                ClaimFollowUpFails, BeginFails, ScenariosDone, FinishFails, CompleteFails,
                Restart, HeartbeatRefused, WorkerFault, HeartbeatFails, SettleFails, Shutdown, Crash
  <1>19. ASSUME NEW w \in Worker, JobStep(w) \/ HeartbeatStep(w) \/ WorkerFault(w)
         PROVE  CancelInv'
    BY <1>7, <1>13, <1>14, <1>17, <1>18, <1>19 DEF JobStep, HeartbeatStep
  <1>20. CASE UNCHANGED serviceVars
    BY <1>1, <1>6, <1>20 DEF CancelInv, serviceVars, storeVars
  <1>21. CASE ServiceNext
    BY <1>8, <1>9, <1>11, <1>12, <1>19, <1>21 DEF ServiceNext
  <1> QED BY <1>20, <1>21

\* A cancel request, once recorded, decides how the job ends, and nothing else cancels a job:
\* not a worker that is completing, failing or releasing it at that moment.
THEOREM CancelRequestsWin == ServiceSpec => []CancelRequestWins
  <1>1. ServiceInit => CancelInv
    BY DEF ServiceInit, StoreInit, NoJob, Idle, CancelInv, CancelRow, CancelWorker, Executing
  <1>2. ServiceSpec => []CancelInv
    BY <1>1, CancelInvStep, ServiceInvariant, PTL DEF ServiceSpec
  <1>3. CancelInv => CancelRequestWins
    BY DEF CancelInv, CancelRow, CancelRequestWins
  <1> QED BY <1>2, <1>3, PTL

-----------------------------------------------------------------------------
(* Workers that are never late *)

\* The rows of a run are as they were.
SameRows(r) == jobs'[r] = jobs[r] /\ runs'[r] = runs[r] /\ sessions'[r] = sessions[r]

\* A worker that goes on executing executes the run it was executing before.
StaysOnRun(w) == Heartbeats(w)' => Heartbeats(w) /\ worker'[w].run = worker[w].run

\* A worker that does not move and whose rows nobody writes.
Undisturbed(x) ==
    /\ worker'[x] = worker[x]
    /\ Heartbeats(x) => SameRows(JobOf(x))
    /\ worker[x].pc = "reconcile" => jobs'[JobOf(x)] = jobs[JobOf(x)]

\* It is enough to look at the runs whose rows a step writes and at the workers that move or
\* work on such a run.
LEMMA PromptFrame ==
    ASSUME PromptFacts, ~stalls, UNCHANGED stalls,
           \A x \in Worker : Undisturbed(x) \/ (LeaseHeld(x)' /\ RowsAsKnown(x)'),
           \A q \in Run : SameRows(q) \/ RunHonest(q)',
           \A x \in Worker : StaysOnRun(x)
    PROVE  PromptFacts'
  <1>1. ASSUME NEW x \in Worker PROVE LeaseHeld(x)' /\ RowsAsKnown(x)'
    <2>1. LeaseHeld(x) /\ RowsAsKnown(x)
      BY DEF PromptFacts
    <2>2. CASE Undisturbed(x)
      BY <2>1, <2>2 DEF Undisturbed, SameRows, LeaseHeld, RowsAsKnown, Heartbeats, Executing,
                        HoldsLease
    <2> QED BY <2>2
  <1>2. ASSUME NEW q \in Run PROVE RunHonest(q)'
    <2>1. CASE SameRows(q)
      BY <2>1 DEF SameRows, RunHonest, PromptFacts
    <2> QED BY <2>1
  <1>3. ExecutorAlone'
    <2> SUFFICES ASSUME NEW v \in Worker, NEW w \in Worker, v # w, Heartbeats(v)', Heartbeats(w)'
                 PROVE  worker'[v].run # worker'[w].run
      BY DEF ExecutorAlone
    <2>1. /\ Heartbeats(v) /\ worker'[v].run = worker[v].run
          /\ Heartbeats(w) /\ worker'[w].run = worker[w].run
      BY DEF StaysOnRun
    <2> QED BY <2>1 DEF PromptFacts, ExecutorAlone
  <1> QED BY <1>1, <1>2, <1>3 DEF PromptFacts

\* A live executor of a run that is not failed holds its lease; so while one worker holds the
\* lease, or nobody does, no other worker executes the run or has given it up.
LEMMA OthersElsewhere ==
    ASSUME PromptFacts, NEW w \in Worker, NEW r \in Run,
           HoldsLease(w, r) \/ jobs[r].status = "pending" \/ jobs[r].lease = "expired",
           jobs[r].status # "failed",
           NEW x \in Worker \ {w}, worker[x].pc = "reconcile" \/ Heartbeats(x)
    PROVE  JobOf(x) # r
  BY DEF PromptFacts, LeaseHeld, RowsAsKnown, HoldsLease

LEMMA ScenarioKeepsPrompt ==
    ASSUME ServiceInv, PromptFacts, ~stalls, UNCHANGED stalls,
           NEW w \in Worker, NEW s \in Scenario, ScenarioStep(w, s) \/ ScenarioFault(w, s)
    PROVE  PromptFacts'
  <1>0. PICK r : r = JobOf(w)
    OBVIOUS
  <1>1. /\ StoreTypeOK /\ worker \in [Worker -> WorkerState]
        /\ \A x \in Worker : LeaseHeld(x) /\ RowsAsKnown(x)
    BY DEF ServiceInv, ServiceTypeOK, PromptFacts
  <1>2. PICK v \in Progress : ScenarioEffect(w, s, v)
    BY ScenarioSummary
  <1>3. worker[w].pc = "scenarios" /\ r \in Run
    BY <1>0, <1>2 DEF ScenarioEffect, ServiceInv, WorkerInv
  <1>4. /\ \A x \in Worker \ {w} : worker'[x] = worker[x]
        /\ worker'[w].pc = worker[w].pc /\ worker'[w].ctx = worker[w].ctx
        /\ worker'[w].run = r
        /\ \A t \in Scenario : worker'[w].scen[t] = IF t = s THEN v ELSE worker[w].scen[t]
    BY <1>0, <1>1, <1>2 DEF ScenarioEffect, SetScen, WorkerState
  <1>5. UNCHANGED <<jobs, runs>>
    BY <1>2 DEF ScenarioEffect, ScenarioRowWritten, UpsertSession, storeVars
  <1>6. \/ UNCHANGED sessions
        \/ \E row \in SessionRow :
              /\ sessions' = [sessions EXCEPT ![r][s] = row]
              /\ row.status = "failed" => worker[w].ctx = "live"
    BY <1>0, <1>2 DEF ScenarioEffect, ScenarioRowWritten, UpsertSession, storeVars
  <1>7. \A q \in Run, t \in Scenario :
            \/ sessions'[q][t] = sessions[q][t]
            \/ /\ q = r /\ t = s
               /\ sessions'[q][t].status = "failed" => worker[w].ctx = "live"
    BY <1>1, <1>3, <1>6 DEF StoreTypeOK
  <1>8. Executing(w) /\ (v = "passed" => sessions'[r][s].status # "failed")
    BY <1>0, <1>2, <1>3 DEF ScenarioEffect, Executing, Control
  <1>9. LeaseHeld(w)' /\ RowsAsKnown(w)'
    <2>1. LeaseHeld(w)'
      BY <1>0, <1>1, <1>3, <1>4, <1>5 DEF LeaseHeld, Heartbeats, Executing, HoldsLease
    <2>2. ASSUME NEW t \in Scenario, Heartbeats(w)', worker'[w].scen[t] = "passed"
          PROVE  sessions'[r][t].status # "failed"
      <3>1. Heartbeats(w)
        BY <1>4, <2>2 DEF Heartbeats, Executing
      <3>2. CASE t = s
        BY <1>4, <1>8, <2>2, <3>2
      <3>3. CASE t # s
        BY <1>0, <1>1, <1>3, <1>4, <1>7, <2>2, <3>1, <3>3 DEF RowsAsKnown
      <3> QED BY <3>2, <3>3
    <2> QED BY <1>3, <1>4, <2>1, <2>2 DEF RowsAsKnown
  <1>10. ASSUME NEW x \in Worker \ {w} PROVE LeaseHeld(x)' /\ RowsAsKnown(x)'
    <2>1. worker'[x] = worker[x]
      BY <1>4
    <2>2. LeaseHeld(x)'
      BY <1>1, <1>5, <2>1 DEF LeaseHeld, Heartbeats, Executing, HoldsLease
    <2>3. ASSUME NEW t \in Scenario, Heartbeats(x), worker[x].scen[t] = "passed"
          PROVE  sessions'[JobOf(x)][t].status # "failed"
      <3>1. JobOf(x) \in Run
        BY <2>3 DEF Heartbeats, Executing, ServiceInv, WorkerInv
      <3>2. sessions[JobOf(x)][t].status # "failed"
        BY <1>1, <2>3 DEF RowsAsKnown
      <3>3. Heartbeats(w) => JobOf(x) # r
        BY <1>0, <2>3 DEF PromptFacts, ExecutorAlone
      <3> QED BY <1>8, <1>7, <3>1, <3>2, <3>3 DEF Heartbeats
    <2> QED BY <1>1, <1>5, <2>1, <2>2, <2>3 DEF RowsAsKnown, Heartbeats, Executing
  <1>11. RunHonest(r)'
    <2>1. RunHonest(r)
      BY <1>3 DEF PromptFacts
    <2>2. jobs[r].status = "completed" => ~Heartbeats(w)
      BY <1>0, <1>1, <1>3 DEF LeaseHeld, HoldsLease
    <2>3. ASSUME jobs[r].status = "completed", NEW t \in Scenario,
                 sessions[r][t].status # "failed"
          PROVE  sessions'[r][t].status # "failed"
      BY <1>3, <1>8, <1>7, <2>2, <2>3 DEF Heartbeats
    <2> QED BY <1>5, <2>1, <2>3 DEF RunHonest
  <1>12. \A q \in Run \ {r} : SameRows(q)
    BY <1>1, <1>3, <1>5, <1>6 DEF SameRows, StoreTypeOK
  <1>13. \A x \in Worker : StaysOnRun(x)
    BY <1>0, <1>4 DEF StaysOnRun, Heartbeats, Executing
  <1> QED BY <1>9, <1>10, <1>11, <1>12, <1>13, PromptFrame

\* A worker that waits for a job has nothing to keep.
LEMMA IdleIsKnown ==
    ASSUME worker \in [Worker -> WorkerState], NEW w \in Worker,
           BackToIdle(w) \/ worker' = [worker EXCEPT ![w] = Idle]
    PROVE  /\ LeaseHeld(w)' /\ RowsAsKnown(w)'
           /\ \A x \in Worker : StaysOnRun(x)
           /\ \A x \in Worker \ {w} : worker'[x] = worker[x]
  <1>1. worker'[w].pc = "idle" /\ \A s \in Scenario : worker'[w].scen[s] = "todo"
    BY DEF BackToIdle, Idle
  <1>2. \A x \in Worker \ {w} : worker'[x] = worker[x]
    BY DEF BackToIdle
  <1> QED BY <1>1, <1>2 DEF LeaseHeld, RowsAsKnown, StaysOnRun, Heartbeats, Executing

\* A worker that goes on with the same job and context.
LEMMA GotoSummary ==
    ASSUME worker \in [Worker -> WorkerState], NEW w \in Worker, NEW p, Goto(w, p), Executing(w)
    PROVE  /\ worker'[w].pc = p /\ worker'[w].run = worker[w].run
           /\ worker'[w].ctx = worker[w].ctx /\ worker'[w].scen = worker[w].scen
           /\ \A x \in Worker : StaysOnRun(x)
           /\ \A x \in Worker \ {w} : worker'[x] = worker[x]
  <1>1. /\ worker'[w].pc = p /\ worker'[w].run = worker[w].run
        /\ worker'[w].ctx = worker[w].ctx /\ worker'[w].scen = worker[w].scen
        /\ \A x \in Worker \ {w} : worker'[x] = worker[x]
    BY DEF Goto, WorkerState
  <1> QED BY <1>1 DEF StaysOnRun, Heartbeats, Executing

\* Steps that change no row.
LEMMA QuietKeepsPrompt ==
    ASSUME ServiceInv, PromptFacts, ~stalls, UNCHANGED <<stalls, storeVars>>, NEW w \in Worker,
           \/ ClaimFollowUpFails(w) \/ BeginFails(w) \/ ScenariosDone(w) \/ FinishFails(w)
           \/ CompleteFails(w) \/ Restart(w) \/ HeartbeatRefused(w) \/ WorkerFault(w)
    PROVE  PromptFacts'
  <1>1. worker \in [Worker -> WorkerState] /\ LeaseHeld(w) /\ RowsAsKnown(w)
    BY DEF ServiceInv, ServiceTypeOK, PromptFacts
  <1>2. UNCHANGED <<jobs, runs, sessions>> /\ \A q : SameRows(q)
    BY DEF storeVars, SameRows
  <1>3. ASSUME LeaseHeld(w)', RowsAsKnown(w)', \A x \in Worker : StaysOnRun(x),
               \A x \in Worker \ {w} : worker'[x] = worker[x]
        PROVE  PromptFacts'
    BY <1>2, <1>3, PromptFrame DEF Undisturbed
  <1>4. ASSUME BackToIdle(w) \/ worker' = [worker EXCEPT ![w] = Idle]
        PROVE  PromptFacts'
    BY <1>1, <1>3, <1>4, IdleIsKnown
  <1>5. ASSUME NEW p \in {"finish", "failJob"}, Goto(w, p), Executing(w), worker[w].pc # "failRun"
        PROVE  PromptFacts'
    <2>1. /\ worker'[w].pc = p /\ worker'[w].run = worker[w].run
          /\ worker'[w].ctx = worker[w].ctx /\ worker'[w].scen = worker[w].scen
          /\ \A x \in Worker : StaysOnRun(x)
          /\ \A x \in Worker \ {w} : worker'[x] = worker[x]
      BY <1>1, <1>5, GotoSummary
    <2>2. LeaseHeld(w)'
      BY <1>1, <1>2, <1>5, <2>1 DEF LeaseHeld, Heartbeats, HoldsLease
    <2>3. RowsAsKnown(w)'
      BY <1>1, <1>2, <1>5, <2>1 DEF RowsAsKnown, Heartbeats
    <2> QED BY <1>3, <2>1, <2>2, <2>3
  <1>6. ASSUME NEW c \in Context, c = "live" => worker[w].ctx = "live", worker[w].pc # "idle",
               worker'[w].pc = worker[w].pc, worker'[w].run = worker[w].run,
               worker'[w].ctx = c, worker'[w].scen = worker[w].scen,
               \A x \in Worker \ {w} : worker'[x] = worker[x]
        PROVE  PromptFacts'
    <2>1. \A x \in Worker : StaysOnRun(x)
      BY <1>6 DEF StaysOnRun, Heartbeats, Executing
    <2>2. LeaseHeld(w)'
      BY <1>1, <1>2, <1>6 DEF LeaseHeld, Heartbeats, HoldsLease, Executing
    <2>3. RowsAsKnown(w)'
      BY <1>1, <1>2, <1>6 DEF RowsAsKnown, Heartbeats, Executing
    <2> QED BY <1>3, <1>6, <2>1, <2>2, <2>3
  <1>7. CASE ClaimFollowUpFails(w) \/ CompleteFails(w) \/ Restart(w) \/ SettleFails(w) \/ Crash(w)
    BY <1>4, <1>7 DEF ClaimFollowUpFails, CompleteFails, Restart, SettleFails, Crash
  <1>8. CASE BeginFails(w) \/ ScenariosDone(w) \/ FinishFails(w)
    BY <1>5, <1>8 DEF BeginFails, ScenariosDone, FinishFails, Executing, Control
  <1>9. CASE HeartbeatRefused(w) \/ HeartbeatFails(w)
    <2>1. worker[w].pc # "idle"
      BY <1>9 DEF HeartbeatRefused, HeartbeatFails, Heartbeats, Executing
    <2>2. \E c \in {"cancelled", "lost"} : worker' = [worker EXCEPT ![w].ctx = c]
      BY <1>9 DEF HeartbeatRefused, HeartbeatFails
    <2>3. PICK c \in Context : /\ c # "live" /\ worker'[w].ctx = c
                               /\ worker'[w].pc = worker[w].pc /\ worker'[w].run = worker[w].run
                               /\ worker'[w].scen = worker[w].scen
                               /\ \A x \in Worker \ {w} : worker'[x] = worker[x]
      BY <1>1, <2>2 DEF WorkerState, Context
    <2> QED BY <1>6, <2>1, <2>3
  <1>10. CASE Shutdown(w)
    <2>1. worker[w].pc # "idle" /\ worker[w].ctx \in Context
      BY <1>1, <1>10 DEF Shutdown, WorkerState
    <2>2. PICK c \in Context : /\ c = "live" => worker[w].ctx = "live"
                               /\ worker'[w].ctx = c
                               /\ worker'[w].pc = worker[w].pc /\ worker'[w].run = worker[w].run
                               /\ worker'[w].scen = worker[w].scen
                               /\ \A x \in Worker \ {w} : worker'[x] = worker[x]
      BY <1>1, <1>10, <2>1 DEF WorkerState, Context, Shutdown
    <2> QED BY <1>6, <2>1, <2>2
  <1> QED BY <1>7, <1>8, <1>9, <1>10 DEF WorkerFault

\* Writes of the run row.
LEMMA RunWriteKeepsPrompt ==
    ASSUME ServiceInv, PromptFacts, ~stalls, UNCHANGED stalls, NEW w \in Worker,
           ReconcileExhaustedJob(w) \/ BeginRun(w) \/ FinishRun(w) \/ FailRun(w)
    PROVE  PromptFacts'
  <1>0. PICK r : r = JobOf(w)
    OBVIOUS
  <1>1. /\ StoreTypeOK /\ worker \in [Worker -> WorkerState]
        /\ \A x \in Worker : LeaseHeld(x) /\ RowsAsKnown(x)
    BY DEF ServiceInv, ServiceTypeOK, PromptFacts
  <1>2. worker[w].pc # "idle" /\ r \in Run /\ (worker[w].pc = "reconcile" \/ Executing(w))
    BY <1>0 DEF ReconcileExhaustedJob, BeginRun, FinishRun, FailRun, ServiceInv, WorkerInv,
                Executing, Control
  <1>3. UNCHANGED <<jobs, sessions>>
    BY DEF ReconcileExhaustedJob, BeginRun, FinishRun, FailRun, UpsertWorkflowRun, storeVars
  <1>4. \/ UNCHANGED runs
        \/ /\ \E st : runs' = [runs EXCEPT ![r] = st]
           /\ Heartbeats(w) \/ worker[w].pc = "reconcile"
    BY <1>0, <1>2 DEF ReconcileExhaustedJob, BeginRun, FinishRun, FailRun, UpsertWorkflowRun,
                      storeVars, Heartbeats
  <1>5. \A q \in Run \ {r} : SameRows(q)
    BY <1>1, <1>2, <1>3, <1>4 DEF SameRows, StoreTypeOK
  \* The job is not over, or it is failed and its run row can only become failed.
  <1>6. Heartbeats(w) \/ worker[w].pc = "reconcile" =>
            jobs[r].status \notin {"completed", "cancelled"}
    BY <1>0, <1>1 DEF LeaseHeld, RowsAsKnown, HoldsLease
  <1>7. \A q \in Run : SameRows(q) \/ RunHonest(q)'
    BY <1>3, <1>4, <1>5, <1>6 DEF RunHonest, SameRows
  <1>8. ASSUME NEW x \in Worker \ {w}, worker'[x] = worker[x]
        PROVE  Undisturbed(x) \/ (LeaseHeld(x)' /\ RowsAsKnown(x)')
    <2>1. CASE Heartbeats(x) /\ JobOf(x) = r /\ ~UNCHANGED runs
      <3>1. worker[w].pc = "reconcile"
        BY <1>0, <1>4, <1>8, <2>1 DEF PromptFacts, ExecutorAlone
      <3>2. jobs[r].status = "failed"
        BY <1>0, <1>1, <3>1 DEF RowsAsKnown
      <3>3. LeaseHeld(x)'
        BY <1>1, <1>3, <1>8 DEF LeaseHeld, Heartbeats, Executing, HoldsLease
      <3>4. RowsAsKnown(x)'
        BY <1>1, <1>3, <1>8, <2>1, <3>2 DEF RowsAsKnown, Heartbeats, Executing
      <3> QED BY <3>3, <3>4
    <2>2. CASE ~Heartbeats(x) \/ JobOf(x) # r \/ UNCHANGED runs
      <3>1. Heartbeats(x) => JobOf(x) \in Run
        BY <1>8 DEF Heartbeats, Executing, ServiceInv, WorkerInv
      <3>2. Heartbeats(x) => SameRows(JobOf(x))
        BY <1>3, <1>5, <2>2, <3>1 DEF SameRows
      <3> QED BY <1>3, <1>8, <3>2 DEF Undisturbed
    <2> QED BY <2>1, <2>2
  <1>9. ASSUME BackToIdle(w)
        PROVE  PromptFacts'
    BY <1>1, <1>7, <1>8, <1>9, IdleIsKnown, PromptFrame
  <1>10. ASSUME NEW p \in {"scenarios", "complete"}, Goto(w, p), Heartbeats(w), worker[w].pc # "failRun",
                p = "complete" => FinishRun(w)
         PROVE  PromptFacts'
    <2>1. /\ worker'[w].pc = p /\ worker'[w].run = worker[w].run
          /\ worker'[w].ctx = worker[w].ctx /\ worker'[w].scen = worker[w].scen
          /\ \A x \in Worker : StaysOnRun(x)
          /\ \A x \in Worker \ {w} : worker'[x] = worker[x]
      BY <1>1, <1>10, GotoSummary DEF Heartbeats
    <2>2. LeaseHeld(w)'
      BY <1>1, <1>3, <1>10, <2>1 DEF LeaseHeld, Heartbeats, HoldsLease
    <2>3. ASSUME p = "complete"
          PROVE  /\ runs'[r] \in FinishedRun
                 /\ runs'[r] = "completed" => \A s \in Scenario : worker[w].scen[s] = "passed"
      <3>1. FinishRun(w) /\ AllDone(w)
        BY <1>10, <2>3 DEF FinishRun, ServiceInv, WorkerInv
      <3>2. runs'[r] = RunVerdict(worker[w].scen)
        BY <1>0, <1>1, <1>2, <3>1 DEF FinishRun, UpsertWorkflowRun, StoreTypeOK
      <3> QED BY <3>1, <3>2 DEF RunVerdict, FinishedRun, AllDone, Result
    <2>4. RowsAsKnown(w)'
      BY <1>0, <1>1, <1>3, <1>10, <2>1, <2>3 DEF RowsAsKnown, Heartbeats
    <2> QED BY <1>7, <1>8, <2>1, <2>2, <2>4, PromptFrame
  <1>11. CASE ReconcileExhaustedJob(w) \/ FailRun(w)
    BY <1>9, <1>11 DEF ReconcileExhaustedJob, FailRun
  <1>12. CASE BeginRun(w) \/ FinishRun(w)
    BY <1>10, <1>12 DEF BeginRun, FinishRun, Heartbeats, Executing, Control
  <1> QED BY <1>11, <1>12

\* A claim: the worker takes a job that nobody executes.
LEMMA ClaimKeepsPrompt ==
    ASSUME ServiceInv, PromptFacts, ~stalls, UNCHANGED stalls, NEW w \in Worker, ClaimJob(w)
    PROVE  PromptFacts'
  <1>1. /\ StoreTypeOK /\ worker \in [Worker -> WorkerState]
        /\ \A x \in Worker : LeaseHeld(x) /\ RowsAsKnown(x)
    BY DEF ServiceInv, ServiceTypeOK, PromptFacts
  <1>2. PICK r \in Run :
            /\ Recoverable(r) \/ Startable(r)
            /\ jobs' = [jobs EXCEPT ![r] = IF Exhausted(r) THEN Finished(jobs[r], "failed")
                                           ELSE Taken(jobs[r], w)]
            /\ worker' = [worker EXCEPT ![w].run = r, ![w].pc =
                   IF Exhausted(r) THEN "reconcile"
                   ELSE IF jobs[r].cancelRequested THEN "finalizeCancel" ELSE "begin"]
    BY DEF ClaimJob, ClaimWorkflowJobFair, FirstClaimable, Claimable
  <1>3. UNCHANGED <<runs, sessions>> /\ worker[w].pc = "idle"
    BY DEF ClaimJob, ClaimWorkflowJobFair
  <1>4. jobs[r].status \in {"pending", "running", "cancelling"}
        /\ (jobs[r].status = "pending" \/ jobs[r].lease = "expired")
    BY <1>2 DEF Recoverable, Startable
  <1>5. /\ \A x \in Worker \ {w} : worker'[x] = worker[x]
        /\ worker'[w].run = r /\ worker'[w].scen = worker[w].scen
        /\ worker'[w].pc \in {"reconcile", "finalizeCancel", "begin"}
        /\ worker'[w].pc = "reconcile" <=> Exhausted(r)
    BY <1>1, <1>2 DEF WorkerState
  <1>6. /\ Exhausted(r) => jobs'[r].status = "failed"
        /\ ~Exhausted(r) => /\ jobs'[r].status = "running"
                            /\ jobs'[r].owner = w /\ jobs'[r].lease = "live"
    BY <1>1, <1>2 DEF StoreTypeOK, JobRow, Finished, Taken
  <1>7. \A q \in Run \ {r} : SameRows(q)
    BY <1>1, <1>2, <1>3 DEF SameRows, StoreTypeOK
  <1>8. ASSUME NEW x \in Worker \ {w}
        PROVE  /\ Undisturbed(x)
               /\ Heartbeats(x) => JobOf(x) # r
    <2>1. Heartbeats(x) \/ worker[x].pc = "reconcile" => JobOf(x) \in Run
      BY DEF Heartbeats, Executing, ServiceInv, WorkerInv
    <2>2. Heartbeats(x) \/ worker[x].pc = "reconcile" => JobOf(x) # r
      BY <1>4, OthersElsewhere
    <2> QED BY <1>5, <1>7, <2>1, <2>2 DEF Undisturbed, SameRows
  <1>9. LeaseHeld(w)' /\ RowsAsKnown(w)'
    <2>1. \A s \in Scenario : worker'[w].scen[s] = "todo"
      BY <1>1, <1>3, <1>5 DEF RowsAsKnown
    <2>2. LeaseHeld(w)'
      BY <1>5, <1>6 DEF LeaseHeld, Heartbeats, Executing, HoldsLease
    <2> QED BY <1>5, <1>6, <2>1, <2>2 DEF RowsAsKnown
  <1>10. \A x \in Worker : LeaseHeld(x)' /\ RowsAsKnown(x)'
    <2>1. ASSUME NEW x \in Worker \ {w} PROVE LeaseHeld(x)' /\ RowsAsKnown(x)'
      BY <1>1, <1>8 DEF Undisturbed, SameRows, LeaseHeld, RowsAsKnown, Heartbeats, Executing,
                        HoldsLease
    <2> QED BY <1>9, <2>1
  <1>11. \A q \in Run : RunHonest(q)'
    <2>1. RunHonest(r)'
      BY <1>6 DEF RunHonest
    <2>2. ASSUME NEW q \in Run \ {r} PROVE RunHonest(q)'
      BY <1>7 DEF SameRows, RunHonest, PromptFacts
    <2> QED BY <2>1, <2>2
  <1>12. ExecutorAlone'
    <2>1. \A x \in Worker \ {w} : Heartbeats(x)' => Heartbeats(x) /\ worker'[x].run # r
      BY <1>5, <1>8 DEF Heartbeats, Executing
    <2>2. ASSUME NEW x \in Worker \ {w}, NEW y \in Worker \ {w}, x # y, Heartbeats(x)', Heartbeats(y)'
          PROVE  worker'[x].run # worker'[y].run
      BY <1>5, <2>1, <2>2 DEF PromptFacts, ExecutorAlone
    <2> QED BY <1>5, <2>1, <2>2 DEF ExecutorAlone
  <1> QED BY <1>10, <1>11, <1>12 DEF PromptFacts

\* A worker that holds the lease of its job gives the job up or ends it.
LEMMA HandOverKeepsPrompt ==
    ASSUME ServiceInv, PromptFacts, ~stalls, UNCHANGED stalls, NEW w \in Worker,
           FinalizeRecoveredCancel(w) \/ SettleInterrupted(w) \/ CompleteJob(w) \/ FailJob(w)
    PROVE  PromptFacts'
  <1>0. PICK r : r = JobOf(w)
    OBVIOUS
  <1>1. /\ StoreTypeOK /\ worker \in [Worker -> WorkerState]
        /\ \A x \in Worker : LeaseHeld(x) /\ RowsAsKnown(x)
    BY DEF ServiceInv, ServiceTypeOK, PromptFacts
  <1>2. worker[w].pc # "idle" /\ r \in Run /\ runs[r] # "absent" /\ jobs[r] \in JobRow
    <2>1. worker[w].pc # "idle"
      BY DEF FinalizeRecoveredCancel, SettleInterrupted, CompleteJob, FailJob
    <2>2. r \in Run /\ jobs[r].status # "absent"
      BY <1>0, <2>1 DEF ServiceInv, WorkerInv
    <2> QED BY <1>1, <2>1, <2>2 DEF ServiceInv, RecordsExist, StoreTypeOK
  \* A refused or failing call changes nothing.
  <1>3. ASSUME UNCHANGED <<jobs, runs, sessions>>, LeaseHeld(w)', RowsAsKnown(w)',
               \A x \in Worker : StaysOnRun(x), \A x \in Worker \ {w} : worker'[x] = worker[x]
        PROVE  PromptFacts'
    BY <1>3, PromptFrame DEF Undisturbed, SameRows
  \* A call that succeeds writes only the rows of a run that nobody else executes.
  <1>4. ASSUME HoldsLease(w, r), NEW new, jobs' = [jobs EXCEPT ![r] = new], RunHonest(r)',
               UNCHANGED <<runs, sessions>> \/ UpdateCancelledWorkflowRecords(r, "cancelled"),
               LeaseHeld(w)', RowsAsKnown(w)',
               \A x \in Worker : StaysOnRun(x), \A x \in Worker \ {w} : worker'[x] = worker[x]
        PROVE  PromptFacts'
    <2>1. \A q \in Run \ {r} : SameRows(q)
      BY <1>1, <1>2, <1>4 DEF SameRows, StoreTypeOK, UpdateCancelledWorkflowRecords
    <2>2. ASSUME NEW x \in Worker \ {w} PROVE Undisturbed(x)
      <3>1. Heartbeats(x) \/ worker[x].pc = "reconcile" => JobOf(x) \in Run
        BY DEF Heartbeats, Executing, ServiceInv, WorkerInv
      <3>2. Heartbeats(x) \/ worker[x].pc = "reconcile" => JobOf(x) # r
        BY <1>2, <1>4, OthersElsewhere DEF HoldsLease
      <3> QED BY <1>4, <2>1, <3>1, <3>2 DEF Undisturbed, SameRows
    <2> QED BY <1>4, <2>1, <2>2, PromptFrame
  <1>5. ASSUME CancelWorkflowJob(w, r), BackToIdle(w)
        PROVE  PromptFacts'
    <2>1. /\ HoldsLease(w, r) /\ jobs' = [jobs EXCEPT ![r] = Finished(jobs[r], "cancelled")]
          /\ UpdateCancelledWorkflowRecords(r, "cancelled")
      BY <1>5 DEF CancelWorkflowJob
    <2>2. jobs'[r].status = "cancelled"
      BY <1>1, <1>2, <2>1 DEF StoreTypeOK, Finished, JobRow
    <2>3. runs'[r] = "cancelled"
      BY <1>1, <1>2, <2>1 DEF UpdateCancelledWorkflowRecords, StoreTypeOK
    <2>4. RunHonest(r)'
      BY <2>2, <2>3 DEF RunHonest
    <2> QED BY <1>1, <1>4, <1>5, <2>1, <2>4, IdleIsKnown
  <1>6. ASSUME ReleaseWorkflowJob(w, r), BackToIdle(w)
        PROVE  PromptFacts'
    <2>1. /\ HoldsLease(w, r) /\ jobs' = [jobs EXCEPT ![r] = Released(jobs[r])]
          /\ UNCHANGED <<runs, sessions>>
      BY <1>6 DEF ReleaseWorkflowJob, HoldsRunning, HoldsLease
    <2>2. jobs'[r].status = "pending"
      BY <1>1, <1>2, <2>1 DEF StoreTypeOK, Released, JobRow
    <2>3. RunHonest(r)'
      BY <2>2 DEF RunHonest
    <2> QED BY <1>1, <1>4, <1>6, <2>1, <2>3, IdleIsKnown
  <1>7. CASE FinalizeRecoveredCancel(w)
    <2>1. CASE UNCHANGED storeVars
      BY <1>1, <1>3, <1>7, <2>1, IdleIsKnown DEF FinalizeRecoveredCancel, storeVars
    <2> QED BY <1>0, <1>5, <1>7, <2>1 DEF FinalizeRecoveredCancel
  <1>8. CASE SettleInterrupted(w)
    <2>1. CASE UNCHANGED storeVars
      BY <1>1, <1>3, <1>8, <2>1, IdleIsKnown DEF SettleInterrupted, storeVars
    <2> QED BY <1>0, <1>5, <1>6, <1>8, <2>1 DEF SettleInterrupted
  <1>9. CASE CompleteJob(w)
    <2>1. CASE UNCHANGED storeVars
      BY <1>1, <1>3, <1>9, <2>1, IdleIsKnown DEF CompleteJob, storeVars
    <2>2. CASE CompleteWorkflowJob(w, r)
      <3>1. /\ HoldsLease(w, r) /\ jobs' = [jobs EXCEPT ![r] = Finished(jobs[r], "completed")]
            /\ UNCHANGED <<runs, sessions>>
        BY <2>2 DEF CompleteWorkflowJob, HoldsRunning, HoldsLease
      <3>2. Heartbeats(w) /\ worker[w].pc = "complete" /\ jobs[r].status = "running"
        BY <1>9, <2>2 DEF CompleteJob, CompleteWorkflowJob, HoldsRunning, Heartbeats, Executing,
                          Control
      \* The verdict in the run row is this worker's, and its scenarios are as it knows them.
      <3>3. /\ runs[r] \in FinishedRun
            /\ runs[r] = "completed" => \A s \in Scenario : sessions[r][s].status # "failed"
        BY <1>0, <1>1, <3>2 DEF RowsAsKnown
      <3>4. jobs'[r].status = "completed"
        BY <1>1, <1>2, <3>1 DEF StoreTypeOK, Finished, JobRow
      <3>5. RunHonest(r)'
        BY <3>1, <3>3, <3>4 DEF RunHonest
      <3> QED BY <1>1, <1>4, <1>9, <3>1, <3>5, IdleIsKnown DEF CompleteJob
    <2> QED BY <1>0, <1>9, <2>1, <2>2 DEF CompleteJob
  <1>10. CASE FailJob(w)
    <2>1. Executing(w) /\ Goto(w, "failRun") /\ worker[w].pc = "failJob"
      BY <1>10 DEF FailJob, Executing, Control
    <2>2. /\ worker'[w].pc = "failRun" /\ worker'[w].run = r
          /\ worker'[w].ctx = worker[w].ctx /\ worker'[w].scen = worker[w].scen
          /\ \A x \in Worker : StaysOnRun(x)
          /\ \A x \in Worker \ {w} : worker'[x] = worker[x]
      BY <1>0, <1>1, <2>1, GotoSummary
    <2>3. CASE UNCHANGED storeVars
      <3>1. UNCHANGED <<jobs, runs, sessions>>
        BY <2>3 DEF storeVars
      <3>2. LeaseHeld(w)'
        BY <1>0, <1>1, <2>1, <2>2, <3>1 DEF LeaseHeld, Heartbeats, HoldsLease
      <3>3. RowsAsKnown(w)'
        BY <1>0, <1>1, <2>1, <2>2, <3>1 DEF RowsAsKnown, Heartbeats
      <3> QED BY <1>3, <2>2, <3>1, <3>2, <3>3
    <2>4. CASE worker[w].ctx = "live" /\ FailWorkflowJob(w, r)
      <3>1. /\ HoldsLease(w, r) /\ jobs' = [jobs EXCEPT ![r] = Finished(jobs[r], "failed")]
            /\ UNCHANGED <<runs, sessions>>
        BY <2>4 DEF FailWorkflowJob, HoldsRunning, HoldsLease
      <3>2. jobs'[r].status = "failed"
        BY <1>1, <1>2, <3>1 DEF StoreTypeOK, Finished, JobRow
      <3>3. LeaseHeld(w)' /\ RunHonest(r)'
        BY <2>2, <3>2 DEF LeaseHeld, RunHonest
      <3>4. RowsAsKnown(w)'
        BY <1>0, <1>1, <2>1, <2>2, <3>1 DEF RowsAsKnown, Heartbeats
      <3> QED BY <1>4, <2>2, <3>1, <3>3, <3>4
    <2> QED BY <1>0, <1>10, <2>3, <2>4 DEF FailJob
  <1> QED BY <1>7, <1>8, <1>9, <1>10

\* Clients and the passing of time.
LEMMA ClientKeepsPrompt ==
    ASSUME ServiceInv, PromptFacts, ~stalls, UNCHANGED stalls, NEW r \in Run,
           Submit(r) \/ Cancel(r) \/ LeaseRunsOut(r)
    PROVE  PromptFacts'
  <1>1. /\ StoreTypeOK /\ worker \in [Worker -> WorkerState] /\ jobs[r] \in JobRow
        /\ \A x \in Worker : LeaseHeld(x) /\ RowsAsKnown(x)
    BY DEF ServiceInv, ServiceTypeOK, PromptFacts, StoreTypeOK
  <1>2. UNCHANGED worker /\ \A x \in Worker : StaysOnRun(x)
    BY DEF Submit, Cancel, LeaseRunsOut, StaysOnRun, Heartbeats, Executing
  <1>3. ASSUME NEW x \in Worker, worker[x].pc # "idle" PROVE JobOf(x) \in Run
    BY <1>3 DEF ServiceInv, WorkerInv
  <1>4. ASSUME NEW x \in Worker, \A q \in Run \ {r} : SameRows(q),
               Heartbeats(x) \/ worker[x].pc = "reconcile" => JobOf(x) # r
        PROVE  Undisturbed(x)
    BY <1>2, <1>3, <1>4 DEF Undisturbed, Heartbeats, Executing, SameRows
  <1>5. CASE Submit(r)
    <2>1. PICK h \in Hash : jobs' = [jobs EXCEPT ![r] = NewJob(h)]
      BY <1>5 DEF Submit, AdmitNewWorkflowJob
    <2>2. InsertMissingRecords(r) /\ jobs[r].status = "absent"
      BY <1>5 DEF Submit, AdmitNewWorkflowJob
    <2>3. \A q \in Run \ {r} : SameRows(q)
      BY <1>1, <2>1, <2>2 DEF SameRows, StoreTypeOK, InsertMissingRecords
    <2>4. jobs'[r].status = "pending"
      BY <1>1, <2>1 DEF StoreTypeOK, NewJob, NoJob
    <2>5. RunHonest(r)'
      BY <2>4 DEF RunHonest
    <2>6. \A x \in Worker : worker[x].pc # "idle" => JobOf(x) # r
      BY <2>2 DEF ServiceInv, WorkerInv
    <2>7. \A x \in Worker : Undisturbed(x)
      BY <1>4, <2>3, <2>6 DEF Heartbeats, Executing
    <2> QED BY <1>2, <2>3, <2>5, <2>7, PromptFrame
  <1>6. CASE Cancel(r)
    <2>1. /\ jobs[r].status \in {"pending", "running"}
          /\ jobs' = [jobs EXCEPT ![r] = CancelAsked(jobs[r])]
          /\ UpdateCancelledWorkflowRecords(r, CancelledStatus(jobs[r]))
      BY <1>6 DEF Cancel, RequestWorkflowJobCancellation
    <2>2. /\ jobs'[r].status = CancelledStatus(jobs[r])
          /\ jobs'[r].owner = jobs[r].owner /\ jobs'[r].lease = jobs[r].lease
      BY <1>1, <2>1 DEF StoreTypeOK, JobRow, CancelAsked
    <2>3. CancelledStatus(jobs[r]) = IF jobs[r].status = "pending" THEN "cancelled" ELSE "cancelling"
      BY DEF CancelledStatus
    <2>4. \A q \in Run \ {r} : SameRows(q)
      BY <1>1, <2>1 DEF SameRows, StoreTypeOK, UpdateCancelledWorkflowRecords
    <2>5. runs'[r] = CancelledStatus(jobs[r])
      BY <1>1, <2>1 DEF StoreTypeOK, UpdateCancelledWorkflowRecords, ServiceInv, RecordsExist
    <2>6. RunHonest(r)'
      BY <2>2, <2>3, <2>5 DEF RunHonest
    <2>7. ASSUME NEW s \in Scenario, sessions[r][s].status # "failed"
          PROVE  sessions'[r][s].status # "failed"
      <3>1. sessions[r][s] \in SessionRow
        BY <1>1 DEF StoreTypeOK
      <3>2. \/ sessions'[r][s] = sessions[r][s]
            \/ sessions'[r][s] = [sessions[r][s] EXCEPT !.status = CancelledStatus(jobs[r])]
        BY <1>1, <2>1 DEF StoreTypeOK, UpdateCancelledWorkflowRecords
      <3>3. [sessions[r][s] EXCEPT !.status = CancelledStatus(jobs[r])].status
                = CancelledStatus(jobs[r])
        BY <3>1 DEF SessionRow
      <3> QED BY <2>3, <2>7, <3>2, <3>3
    <2>8. ASSUME NEW x \in Worker, Heartbeats(x), JobOf(x) = r
          PROVE  LeaseHeld(x)' /\ RowsAsKnown(x)'
      <3>1. HoldsLease(x, r) /\ jobs[r].lease = "live" /\ jobs[r].status = "running"
        BY <1>1, <2>1, <2>8 DEF LeaseHeld, HoldsLease
      <3>2. jobs'[r].status = "cancelling"
        BY <2>2, <2>3, <3>1
      <3>3. LeaseHeld(x)'
        BY <1>2, <2>2, <2>8, <3>1, <3>2 DEF LeaseHeld, HoldsLease
      <3>4. RowsAsKnown(x)'
        BY <1>1, <1>2, <2>7, <2>8, <3>2 DEF RowsAsKnown, Heartbeats, Executing
      <3> QED BY <3>3, <3>4
    <2>9. ASSUME NEW x \in Worker, ~Heartbeats(x) \/ JobOf(x) # r
          PROVE  Undisturbed(x)
      <3>1. worker[x].pc = "reconcile" => JobOf(x) # r
        BY <1>1, <2>1 DEF RowsAsKnown
      <3> QED BY <1>4, <2>4, <2>9, <3>1
    <2> QED BY <1>2, <2>4, <2>6, <2>8, <2>9, PromptFrame
  <1>7. CASE LeaseRunsOut(r)
    <2>1. /\ jobs' = [jobs EXCEPT ![r] = WithLease(jobs[r], "expired")]
          /\ UNCHANGED <<runs, sessions>> /\ ~Attended(r)
      BY <1>7 DEF LeaseRunsOut, LeaseExpires
    <2>2. jobs'[r].status = jobs[r].status
      BY <1>1, <2>1 DEF StoreTypeOK, JobRow, WithLease
    <2>3. \A q \in Run \ {r} : SameRows(q)
      BY <1>1, <2>1 DEF SameRows, StoreTypeOK
    <2>4. RunHonest(r)'
      BY <2>1, <2>2 DEF RunHonest, PromptFacts
    <2>5. ASSUME NEW x \in Worker, JobOf(x) = r PROVE LeaseHeld(x)' /\ RowsAsKnown(x)'
      <3>1. Heartbeats(x) => worker[x].pc = "failRun" /\ jobs[r].status = "failed"
        BY <1>1, <2>1, <2>5 DEF LeaseHeld, Attended
      <3>2. LeaseHeld(x)'
        BY <1>2, <2>2, <2>5, <3>1 DEF LeaseHeld, Heartbeats, Executing
      <3> QED BY <1>1, <1>2, <2>1, <2>2, <2>5, <3>2 DEF RowsAsKnown, Heartbeats, Executing
    <2>6. ASSUME NEW x \in Worker, JobOf(x) # r PROVE Undisturbed(x)
      BY <1>4, <2>3, <2>6
    <2> QED BY <1>2, <2>3, <2>4, <2>5, <2>6, PromptFrame
  <1> QED BY <1>5, <1>6, <1>7

LEMMA PromptInvStep ==
    ASSUME ServiceInv, PromptInv, [ServiceNext]_serviceVars
    PROVE  PromptInv'
  <1> SUFFICES ASSUME ~stalls' PROVE PromptFacts'
    BY DEF PromptInv
  <1>1. UNCHANGED stalls /\ ~stalls /\ PromptFacts
    BY DEF ServiceNext, serviceVars, PromptInv
  <1>2. CASE UNCHANGED serviceVars
    BY <1>1, <1>2, PromptFrame
       DEF serviceVars, storeVars, Undisturbed, SameRows, StaysOnRun, Heartbeats, Executing
  \* With leases that are renewed in time there is no expired lease to renew.
  <1>3. ASSUME NEW w \in Worker PROVE ~HeartbeatRenews(w)
    BY <1>1 DEF HeartbeatRenews, CanRenew, HeartbeatWorkflowJob, HoldsRunning, PromptFacts, LeaseHeld
  <1>4. ASSUME NEW w \in Worker,
               \/ ClaimFollowUpFails(w) \/ BeginFails(w) \/ ScenariosDone(w) \/ FinishFails(w)
               \/ CompleteFails(w) \/ Restart(w) \/ HeartbeatRefused(w) \/ WorkerFault(w)
        PROVE  PromptFacts'
    <2>1. UNCHANGED storeVars
      BY <1>4 DEF ClaimFollowUpFails, BeginFails, ScenariosDone, FinishFails, CompleteFails,
                  Restart, HeartbeatRefused, WorkerFault, HeartbeatFails, SettleFails, Shutdown, Crash
    <2> QED BY <1>1, <1>4, <2>1, QuietKeepsPrompt
  <1>5. ASSUME NEW w \in Worker, JobStep(w) \/ HeartbeatStep(w) \/ WorkerFault(w)
        PROVE  PromptFacts'
    BY <1>1, <1>3, <1>4, <1>5, RunWriteKeepsPrompt, ClaimKeepsPrompt, HandOverKeepsPrompt
       DEF JobStep, HeartbeatStep
  <1>6. CASE ServiceNext
    BY <1>1, <1>5, <1>6, ClientKeepsPrompt, ScenarioKeepsPrompt DEF ServiceNext
  <1> QED BY <1>2, <1>6

LEMMA PromptInvariant == ServiceSpec => []PromptInv
  <1>1. ServiceInit => PromptInv
    BY DEF ServiceInit, StoreInit, NoJob, Idle, PromptInv, PromptFacts, LeaseHeld, RowsAsKnown,
           RunHonest, ExecutorAlone, Heartbeats, Executing
  <1> QED BY <1>1, PromptInvStep, ServiceInvariant, PTL DEF ServiceSpec

\* As long as no worker pauses for longer than its lease, the run row agrees with the job row
\* and hides no failed scenario, though three transactions of several workers write them.
THEOREM RunRowsAreHonest == ServiceSpec => []RunRowHonest
  <1>1. ServiceInv /\ PromptInv => RunRowHonest
    <2>1. ServiceInv => \A r \in Run : DOMAIN sessions[r] = Scenario
      BY DEF ServiceInv, ServiceTypeOK, StoreTypeOK
    <2> QED BY <2>1 DEF PromptInv, PromptFacts, RunHonest, RunRowHonest, RunRowAgrees, NoFailureHidden
  <1> QED BY <1>1, PromptInvariant, ServiceInvariant, PTL

\* Under the same condition no two workers execute a run at the same time.
THEOREM ExecutorsAreAlone == ServiceSpec => []ExecutorAlone
  <1>1. PromptInv => ExecutorAlone
    BY DEF PromptInv, PromptFacts, ExecutorAlone
  <1> QED BY <1>1, PromptInvariant, PTL
==============================================================================
