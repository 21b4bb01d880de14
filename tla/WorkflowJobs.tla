---------------------------- MODULE WorkflowJobs ----------------------------
(***************************************************************************)
(* The durable workflow queue of the runner: the MySQL tables              *)
(* workflow_jobs, workflow_runs and sessions and the transactions of       *)
(* runner-v2/pkg/db/mysql/workflow_jobs.go that change them.               *)
(*                                                                         *)
(* Every transaction is one atomic action.  Its WHERE clause, row lock and *)
(* early returns are the guard; a call whose WHERE clause matches no row   *)
(* ("requireOneRow" fails) changes nothing and is the absence of the step. *)
(* The specification of this module lets any owner issue any call at any   *)
(* time, so what it guarantees holds however the callers behave: late,     *)
(* twice, or after their lease was taken over.  WorkflowService composes   *)
(* the same actions with the workers that really issue them.               *)
(*                                                                         *)
(* Wall-clock time enters only through comparisons.  A lease is "live"     *)
(* until LeaseExpires makes it "expired" (lease_expires_at < now for the   *)
(* claimer's clock); a rate window is open until WindowElapses closes it.  *)
(***************************************************************************)
EXTENDS Naturals, FiniteSets

CONSTANTS
    Run,                    \* workflow run ids, each with at most one job
    Scenario,               \* scenarios of a run, one session row each
    Owner,                  \* lease owners: "<host>:<pid>:worker-<i>"
    User, Project,
    UserOf, ProjectOf,      \* [Run -> User], [Run -> Project]: from the request
    CreatedAt,              \* [Run -> Nat]: created_at, stamped by the submitter
    Hash,                   \* request hashes a submission can carry
    None,                   \* SQL NULL
    MaxRecoveries,          \* WorkflowWorkerConfig and admission policy; 0 = off
    MaxRunningPerUser, MaxRunningPerProject,
    MaxQueuedGlobal, MaxQueuedPerUser, MaxQueuedPerProject,
    SubmissionsPerMinuteUser, SubmissionsPerMinuteProject,
    RunWrites, SessionWrites    \* values callers store with the plain upserts

VARIABLES
    jobs,           \* [Run -> JobRow]: workflow_jobs
    runs,           \* [Run -> RunStatus]: workflow_runs.status
    sessions,       \* [Run -> [Scenario -> SessionRow]]: sessions
    userRate,       \* [User -> RateRow]: workflow_submission_rate_limits
    projectRate     \* [Project -> RateRow]

storeVars == <<jobs, runs, sessions, userRate, projectRate>>
rateVars  == <<userRate, projectRate>>

-----------------------------------------------------------------------------
(* Rows *)

Leased   == {"running", "cancelling"}
Terminal == {"completed", "failed", "cancelled"}
Active   == {"pending"} \cup Leased

FinishedRun == {"completed", "partial_failed", "failed", "cleanup_failed"}
RunStatus   == {"absent", "pending", "running", "cancelling", "cancelled"}
                 \cup FinishedRun

\* A session's status and the phase of its last checkpoint.  "active" stands
\* for the phases provisioning, provisioned and running_tests.
SessionStatus == {"absent", "pending", "running", "cancelling", "cancelled",
                  "completed", "failed", "cleanup_failed"}
SessionPhase  == {"created", "active", "cleaning_up", "cleanup_failed",
                  "completed", "failed", "cancelled"}
SessionRow    == [status: SessionStatus, phase: SessionPhase]

ASSUME RowSets ==
    /\ IsFiniteSet(Run)
    /\ None \notin Owner /\ None \notin Hash
    /\ UserOf \in [Run -> User]
    /\ ProjectOf \in [Run -> Project]
    /\ CreatedAt \in [Run -> Nat]
    /\ RunWrites \subseteq RunStatus
    /\ SessionWrites \subseteq SessionRow

ASSUME Limits ==
    /\ MaxRecoveries \in Nat
    /\ MaxRunningPerUser \in Nat /\ MaxRunningPerProject \in Nat
    /\ MaxQueuedGlobal \in Nat
    /\ MaxQueuedPerUser \in Nat /\ MaxQueuedPerProject \in Nat
    /\ SubmissionsPerMinuteUser \in Nat /\ SubmissionsPerMinuteProject \in Nat

JobRow == [status:          {"absent"} \cup Active \cup Terminal,
           owner:           Owner \cup {None},
           lease:           {"none", "live", "expired"},
           cancelRequested: BOOLEAN,      \* cancel_requested_at IS NOT NULL
           payload:         BOOLEAN,      \* payload_ciphertext IS NOT NULL
           recoveries:      Nat,
           hash:            Hash \cup {None}]

NoJob == [status |-> "absent", owner |-> None, lease |-> "none",
          cancelRequested |-> FALSE, payload |-> FALSE, recoveries |-> 0,
          hash |-> None]

NewJob(h) == [NoJob EXCEPT !.status = "pending", !.payload = TRUE, !.hash = h]

NoSession == [status |-> "absent", phase |-> "created"]

\* count = 0 stands for a missing row; over says the minute has passed.
RateRow == [count: Nat, over: BOOLEAN]
NoRate  == [count |-> 0, over |-> FALSE]

StoreTypeOK ==
    /\ jobs \in [Run -> JobRow]
    /\ runs \in [Run -> RunStatus]
    /\ sessions \in [Run -> [Scenario -> SessionRow]]
    /\ userRate \in [User -> RateRow]
    /\ projectRate \in [Project -> RateRow]

StoreInit ==
    /\ jobs = [r \in Run |-> NoJob]
    /\ runs = [r \in Run |-> "absent"]
    /\ sessions = [r \in Run |-> [s \in Scenario |-> NoSession]]
    /\ userRate = [u \in User |-> NoRate]
    /\ projectRate = [p \in Project |-> NoRate]

-----------------------------------------------------------------------------
(* Admission *)

WithStatus(S)         == {r \in Run : jobs[r].status \in S}
OfUser(u, S)          == {r \in WithStatus(S) : UserOf[r] = u}
OfProject(p, S)       == {r \in WithStatus(S) : ProjectOf[r] = p}

\* maxInt(policy.MaxRunningPer..., 1)
RunningLimit(n) == IF n > 0 THEN n ELSE 1

\* enforceWorkflowRateLimits: a fixed one-minute window per subject.
RateAllows(row, limit) ==
    \/ limit = 0
    \/ row.count = 0 \/ row.over
    \/ row.count < limit

RateCounted(row, limit) ==
    IF limit = 0 THEN row
    ELSE IF row.count = 0 \/ row.over THEN [count |-> 1, over |-> FALSE]
    ELSE [row EXCEPT !.count = @ + 1]

\* enforceWorkflowAdmission: a limit of 0 is off.
BelowCap(set, cap) == cap = 0 \/ Cardinality(set) < cap

QueueAllows(r) ==
    /\ BelowCap(WithStatus({"pending"}), MaxQueuedGlobal)
    /\ BelowCap(OfUser(UserOf[r], {"pending"}), MaxQueuedPerUser)
    /\ BelowCap(OfProject(ProjectOf[r], {"pending"}), MaxQueuedPerProject)

AdmissionAllows(r) ==
    /\ RateAllows(userRate[UserOf[r]], SubmissionsPerMinuteUser)
    /\ RateAllows(projectRate[ProjectOf[r]], SubmissionsPerMinuteProject)
    /\ QueueAllows(r)

\* INSERT IGNORE of the run row and of one session row per scenario.
InsertMissingRecords(r) ==
    /\ runs' = [runs EXCEPT ![r] = IF @ = "absent" THEN "pending" ELSE @]
    /\ sessions' = [sessions EXCEPT ![r] =
           [s \in Scenario |->
              IF @[s].status = "absent" THEN [NoSession EXCEPT !.status = "pending"]
              ELSE @[s]]]

\* Mutant: the run id is stored in place of the hash.
AdmitNewWorkflowJobUnhashed(r, h) ==
    /\ jobs[r].status = "absent"
    /\ AdmissionAllows(r)
    /\ jobs' = [jobs EXCEPT ![r] = NewJob(r)]
    /\ InsertMissingRecords(r)
    /\ UNCHANGED rateVars

\* A new run id: rate limits, queue caps and the inserts in one transaction.
\* A refusal rolls the counters back with everything else.
AdmitNewWorkflowJob(r, h) ==
    /\ jobs[r].status = "absent"
    /\ AdmissionAllows(r)
    /\ userRate' = [userRate EXCEPT ![UserOf[r]] =
                        RateCounted(@, SubmissionsPerMinuteUser)]
    /\ projectRate' = [projectRate EXCEPT ![ProjectOf[r]] =
                        RateCounted(@, SubmissionsPerMinuteProject)]
    /\ jobs' = [jobs EXCEPT ![r] = NewJob(h)]
    /\ InsertMissingRecords(r)

\* A known run id with the same hash: only the missing records are repaired.
\* With another hash the transaction fails and changes nothing.
AdmitKnownWorkflowJob(r, h) ==
    /\ jobs[r].status # "absent"
    /\ jobs[r].hash = h
    /\ InsertMissingRecords(r)
    /\ UNCHANGED <<jobs, rateVars>>

AdmitWorkflowJob(r, h) == AdmitNewWorkflowJob(r, h) \/ AdmitKnownWorkflowJob(r, h)

-----------------------------------------------------------------------------
(* Claiming *)

\* Mutants: a lease is taken over before it expires; cancelling jobs are not
\* recovered; cancelling jobs do not count as running.
RecoverableAnyTime(r)      == jobs[r].status \in Leased
RecoverableWhileRunning(r) == jobs[r].status = "running" /\ jobs[r].lease = "expired"

StartableCountsRunning(r) ==
    /\ jobs[r].status = "pending"
    /\ Cardinality(OfUser(UserOf[r], {"running"})) < RunningLimit(MaxRunningPerUser)
    /\ Cardinality(OfProject(ProjectOf[r], {"running"})) < RunningLimit(MaxRunningPerProject)

\* Rows the claim's SELECT ... FOR UPDATE may return.
Recoverable(r) == jobs[r].status \in Leased /\ jobs[r].lease = "expired"

Startable(r) ==
    /\ jobs[r].status = "pending"
    /\ Cardinality(OfUser(UserOf[r], Leased)) < RunningLimit(MaxRunningPerUser)
    /\ Cardinality(OfProject(ProjectOf[r], Leased)) < RunningLimit(MaxRunningPerProject)

Claimable == {r \in Run : Recoverable(r) \/ Startable(r)}

\* ORDER BY leased first, then created_at (priority is never set: always 0).
Precedes(a, b) ==
    \/ jobs[a].status \in Leased /\ jobs[b].status \notin Leased
    \/ /\ (jobs[a].status \in Leased) <=> (jobs[b].status \in Leased)
       /\ CreatedAt[a] < CreatedAt[b]

\* LIMIT 1 SKIP LOCKED: rows locked by another transaction are passed over.
FirstClaimable(r, locked) ==
    /\ r \in Claimable \ locked
    /\ \A q \in Claimable \ locked : ~Precedes(q, r)

Exhausted(r) ==
    /\ jobs[r].status \in Leased
    /\ ~jobs[r].cancelRequested
    /\ jobs[r].recoveries >= MaxRecoveries

\* Mutant: the payload is not erased.
FinishedWithPayload(row, st) == [row EXCEPT !.status = st, !.owner = None,
                                            !.lease = "none"]

\* A job that leaves the queue gives up its lease and its encrypted payload.
Finished(row, st) == [row EXCEPT !.status = st, !.owner = None,
                                 !.lease = "none", !.payload = FALSE]

\* Taking over a leased job is a recovery.
Taken(row, o) ==
    [row EXCEPT !.status = "running", !.owner = o, !.lease = "live",
                !.recoveries = IF row.status \in Leased THEN @ + 1 ELSE @]

ClaimWorkflowJobFair(o, r, locked) ==
    /\ FirstClaimable(r, locked)
    /\ jobs' = [jobs EXCEPT ![r] =
          IF Exhausted(r) THEN Finished(@, "failed")
          ELSE Taken(@, o)]
    /\ UNCHANGED <<runs, sessions, rateVars>>

-----------------------------------------------------------------------------
(* What the lease holder may do *)

\* Mutant: the status is not part of the WHERE clause.
HoldsRunningOrCancelling(o, r) == jobs[r].owner = o

HoldsRunning(o, r) == jobs[r].owner = o /\ jobs[r].status = "running"
HoldsLease(o, r)   == jobs[r].owner = o /\ jobs[r].status \in Leased

\* The heartbeat renews even an expired lease, as long as nobody took it over.
CanRenew(o, r) == HoldsRunning(o, r) /\ ~jobs[r].cancelRequested

WithLease(row, l) == [row EXCEPT !.lease = l]

HeartbeatWorkflowJob(o, r) ==
    /\ CanRenew(o, r)
    /\ jobs' = [jobs EXCEPT ![r] = WithLease(@, "live")]
    /\ UNCHANGED <<runs, sessions, rateVars>>

\* The refused heartbeat reports a cancellation rather than a lost lease.
SeesCancellation(o, r) ==
    /\ jobs[r].owner = o
    /\ jobs[r].status = "cancelling" \/ jobs[r].cancelRequested

Released(row) == [row EXCEPT !.status = "pending", !.owner = None,
                             !.lease = "none"]

ReleaseWorkflowJob(o, r) ==
    /\ HoldsRunning(o, r)
    /\ jobs' = [jobs EXCEPT ![r] = Released(@)]
    /\ UNCHANGED <<runs, sessions, rateVars>>

CompleteWorkflowJob(o, r) ==
    /\ HoldsRunning(o, r)
    /\ jobs' = [jobs EXCEPT ![r] = Finished(@, "completed")]
    /\ UNCHANGED <<runs, sessions, rateVars>>

FailWorkflowJob(o, r) ==
    /\ HoldsRunning(o, r)
    /\ jobs' = [jobs EXCEPT ![r] = Finished(@, "failed")]
    /\ UNCHANGED <<runs, sessions, rateVars>>

-----------------------------------------------------------------------------
(* Cancellation *)

SessionFinal == {"completed", "failed", "cleanup_failed", "cancelled"}

\* The run takes the status whatever it was; finished sessions keep theirs.
UpdateCancelledWorkflowRecords(r, st) ==
    /\ runs' = [runs EXCEPT ![r] = IF @ = "absent" THEN @ ELSE st]
    /\ sessions' = [sessions EXCEPT ![r] =
           [s \in Scenario |->
              IF @[s].status \in SessionFinal \cup {"absent"} THEN @[s]
              ELSE [@[s] EXCEPT !.status = st]]]

\* Mutants: no check of the status; the status stays running.
RequestAnyJobCancellation(r) ==
    /\ jobs[r].status # "absent"
    /\ jobs' = [jobs EXCEPT ![r].status = "cancelling", ![r].cancelRequested = TRUE]
    /\ UpdateCancelledWorkflowRecords(r, "cancelling")
    /\ UNCHANGED rateVars

\* A pending job is cancelled at once, a running one when its owner is done.
CancelledStatus(row) == IF row.status = "pending" THEN "cancelled" ELSE "cancelling"

CancelAsked(row) ==
    [row EXCEPT !.status = CancelledStatus(row),
                !.cancelRequested = TRUE,
                !.payload = IF row.status = "pending" THEN FALSE ELSE @]

RequestWorkflowJobCancellation(r) ==
    /\ jobs[r].status \in {"pending", "running"}
    /\ jobs' = [jobs EXCEPT ![r] = CancelAsked(@)]
    /\ UpdateCancelledWorkflowRecords(r, CancelledStatus(jobs[r]))
    /\ UNCHANGED rateVars

CancelWorkflowJob(o, r) ==
    /\ HoldsLease(o, r)
    /\ jobs' = [jobs EXCEPT ![r] = Finished(@, "cancelled")]
    /\ UpdateCancelledWorkflowRecords(r, "cancelled")
    /\ UNCHANGED rateVars

-----------------------------------------------------------------------------
(* Unconditional writes of the other tables, and the passing of time *)

UpsertWorkflowRun(r, st) ==
    /\ runs' = [runs EXCEPT ![r] = st]
    /\ UNCHANGED <<jobs, sessions, rateVars>>

UpsertSession(r, s, row) ==
    /\ sessions' = [sessions EXCEPT ![r][s] = row]
    /\ UNCHANGED <<jobs, runs, rateVars>>

LeaseExpires(r) ==
    /\ jobs[r].lease = "live"
    /\ jobs' = [jobs EXCEPT ![r] = WithLease(@, "expired")]
    /\ UNCHANGED <<runs, sessions, rateVars>>

WindowElapses ==
    /\ \/ /\ \E u \in User : /\ userRate[u].count > 0 /\ ~userRate[u].over
                             /\ userRate' = [userRate EXCEPT ![u].over = TRUE]
          /\ UNCHANGED projectRate
       \/ /\ \E p \in Project : /\ projectRate[p].count > 0 /\ ~projectRate[p].over
                                /\ projectRate' = [projectRate EXCEPT ![p].over = TRUE]
          /\ UNCHANGED userRate
    /\ UNCHANGED <<jobs, runs, sessions>>

-----------------------------------------------------------------------------
(* Any caller, any time *)

OwnerCall(o, r) ==
    \/ \E locked \in SUBSET Run : ClaimWorkflowJobFair(o, r, locked)
    \/ HeartbeatWorkflowJob(o, r)
    \/ ReleaseWorkflowJob(o, r)
    \/ CompleteWorkflowJob(o, r)
    \/ FailWorkflowJob(o, r)
    \/ CancelWorkflowJob(o, r)

RowWrite(r) ==
    \/ \E st \in RunWrites : UpsertWorkflowRun(r, st)
    \/ \E s \in Scenario, row \in SessionWrites : UpsertSession(r, s, row)

StoreNext ==
    \/ \E r \in Run, h \in Hash : AdmitWorkflowJob(r, h)
    \/ \E r \in Run : RequestWorkflowJobCancellation(r) \/ LeaseExpires(r) \/ RowWrite(r)
    \/ \E r \in Run, o \in Owner : OwnerCall(o, r)
    \/ WindowElapses

StoreSpec == StoreInit /\ [][StoreNext]_storeVars

-----------------------------------------------------------------------------
(* What the queue guarantees, whatever its callers do *)

\* A row has an owner and a lease exactly while it is running or cancelling:
\* no terminal or released job keeps a lease that a late heartbeat could renew,
\* and no leased job is without one that could expire (it would be stuck).
LeaseConsistent ==
    \A r \in Run :
        /\ (jobs[r].status \in Leased) <=> (jobs[r].owner # None)
        /\ (jobs[r].status \in Leased) <=> (jobs[r].lease # "none")

\* The encrypted payload is there as long as some worker may still have to
\* execute or recover the job, and is erased in the very transaction that
\* makes the job terminal, on each of the five paths to a terminal status.
PayloadKeptWhileNeeded ==
    \A r \in Run : jobs[r].payload <=> (jobs[r].status \in Active)

\* What a row holds fits its status, whichever of the statements that change a
\* status was the last to reach it.
RowMatchesStatus == LeaseConsistent /\ PayloadKeptWhileNeeded

\* A job nobody cancelled is taken over at most MaxRecoveries times, however
\* often its owners crash, release it or lose it.
RecoveryBound ==
    \A r \in Run : jobs[r].cancelRequested \/ jobs[r].recoveries <= MaxRecoveries

\* The running capacity reserved for a user and for a project is never
\* exceeded: not by concurrent claims, and not by jobs being cancelled.
RunningCapacity ==
    /\ \A u \in User :
          Cardinality(OfUser(u, Leased)) <= RunningLimit(MaxRunningPerUser)
    /\ \A p \in Project :
          Cardinality(OfProject(p, Leased)) <= RunningLimit(MaxRunningPerProject)

\* The queue caps alone do not bound the pending jobs, because a released job
\* returns to the queue without an admission check.  What is bounded is the
\* number of unfinished jobs: the queue cap plus the running capacity.
BacklogBound ==
    /\ MaxQueuedPerUser > 0 => \A u \in User :
          Cardinality(OfUser(u, Active)) <=
              MaxQueuedPerUser + RunningLimit(MaxRunningPerUser)
    /\ MaxQueuedPerProject > 0 => \A p \in Project :
          Cardinality(OfProject(p, Active)) <=
              MaxQueuedPerProject + RunningLimit(MaxRunningPerProject)

\* The configured limits hold, for take-overs, running jobs and unfinished jobs.
WithinLimits == RecoveryBound /\ RunningCapacity /\ BacklogBound

\* A terminal job row never changes again: a late completion, failure, release
\* or cancellation of a former owner, or a late cancel request, is refused.
TerminalRowFrozen ==
    [][\A r \in Run : jobs[r].status \in Terminal => jobs'[r] = jobs[r]]_jobs

\* A lease that has not expired is never handed to another owner, and a cancel
\* request, once recorded, is never forgotten.
LiveLeaseNotStolen ==
    [][\A r \in Run :
         /\ jobs[r].lease = "live" => jobs'[r].owner \in {jobs[r].owner, None}
         /\ jobs[r].cancelRequested => jobs'[r].cancelRequested]_jobs

\* A retried submission repairs missing records and never overwrites progress:
\* no run or session is put back to "pending" but by a caller that writes the row
\* itself (a worker that gives a scenario up for another one to resume).
SubmissionKeepsProgress ==
    [][\A r \in Run :
         \/ RowWrite(r)
         \/ /\ runs[r] # "absent" => runs'[r] = runs[r] \/ runs'[r] # "pending"
            /\ \A s \in Scenario :
                 sessions[r][s].status # "absent" =>
                     \/ sessions'[r][s] = sessions[r][s]
                     \/ sessions'[r][s].status # "pending"]_<<runs, sessions>>

\* Nothing that has ended or begun is taken back.
ProgressKept == TerminalRowFrozen /\ SubmissionKeepsProgress
=============================================================================
