------------------------- MODULE WorkflowJobsProofs -------------------------
(***************************************************************************)
(* Theorems about the workflow queue of WorkflowJobs, for any number of    *)
(* runs, owners, users and projects and any limits.                        *)
(***************************************************************************)
EXTENDS WorkflowJobs, FiniteSetTheorems, TLAPS

USE DEF Leased, Terminal, Active

-----------------------------------------------------------------------------
(* Type correctness *)

\* A submission writes well-formed run and session rows.
LEMMA InsertMissingRecordsType ==
    ASSUME StoreTypeOK, NEW r \in Run, InsertMissingRecords(r)
    PROVE  /\ runs' \in [Run -> RunStatus]
           /\ sessions' \in [Run -> [Scenario -> SessionRow]]
  <1>1. runs' \in [Run -> RunStatus]
    BY DEF StoreTypeOK, InsertMissingRecords, RunStatus
  <1>2. [NoSession EXCEPT !.status = "pending"] \in SessionRow
    BY DEF NoSession, SessionRow, SessionStatus, SessionPhase
  <1>3. \A s \in Scenario : sessions[r][s] \in SessionRow
    BY DEF StoreTypeOK
  <1>4. [s \in Scenario |->
            IF sessions[r][s].status = "absent" THEN [NoSession EXCEPT !.status = "pending"]
            ELSE sessions[r][s]] \in [Scenario -> SessionRow]
    BY <1>2, <1>3
  <1>5. sessions' \in [Run -> [Scenario -> SessionRow]]
    BY <1>4 DEF StoreTypeOK, InsertMissingRecords
  <1> QED BY <1>1, <1>5

\* So does a cancellation.
LEMMA UpdateCancelledType ==
    ASSUME StoreTypeOK, NEW r \in Run, NEW st \in {"cancelling", "cancelled"},
           UpdateCancelledWorkflowRecords(r, st)
    PROVE  /\ runs' \in [Run -> RunStatus]
           /\ sessions' \in [Run -> [Scenario -> SessionRow]]
  <1>1. runs' \in [Run -> RunStatus]
    BY DEF StoreTypeOK, UpdateCancelledWorkflowRecords, RunStatus
  <1>2. \A row \in SessionRow : [row EXCEPT !.status = st] \in SessionRow
    BY DEF SessionRow, SessionStatus
  <1>3. \A s \in Scenario : sessions[r][s] \in SessionRow
    BY DEF StoreTypeOK
  <1>4. [s \in Scenario |->
            IF sessions[r][s].status \in SessionFinal \cup {"absent"} THEN sessions[r][s]
            ELSE [sessions[r][s] EXCEPT !.status = st]] \in [Scenario -> SessionRow]
    BY <1>2, <1>3
  <1>5. sessions' \in [Run -> [Scenario -> SessionRow]]
    BY <1>4 DEF StoreTypeOK, UpdateCancelledWorkflowRecords
  <1> QED BY <1>1, <1>5

\* What the transactions write in a job row is a job row.
LEMMA JobRowOps ==
    ASSUME NEW row \in JobRow
    PROVE  /\ \A st \in Terminal : Finished(row, st) \in JobRow
           /\ \A o \in Owner : Taken(row, o) \in JobRow
           /\ \A l \in {"live", "expired"} : WithLease(row, l) \in JobRow
           /\ Released(row) \in JobRow
           /\ CancelAsked(row) \in JobRow
  <1>1. \A st \in Terminal : Finished(row, st) \in JobRow
    BY DEF JobRow, Finished
  <1>2. \A o \in Owner : Taken(row, o) \in JobRow
    <2> SUFFICES ASSUME NEW o \in Owner
                 PROVE  Taken(row, o) \in JobRow
      OBVIOUS
    <2>1. CASE row.status \in Leased
      <3>1. Taken(row, o) = [row EXCEPT !.status = "running", !.owner = o,
                                        !.lease = "live",
                                        !.recoveries = row.recoveries + 1]
        BY <2>1 DEF Taken
      <3>2. row.recoveries + 1 \in Nat
        BY DEF JobRow
      <3> QED BY <3>1, <3>2 DEF JobRow
    <2>2. CASE row.status \notin Leased
      <3>1. Taken(row, o) = [row EXCEPT !.status = "running", !.owner = o,
                                        !.lease = "live"]
        BY <2>2 DEF Taken, JobRow
      <3> QED BY <3>1 DEF JobRow
    <2> QED BY <2>1, <2>2
  <1>3. \A l \in {"live", "expired"} : WithLease(row, l) \in JobRow
    BY DEF JobRow, WithLease
  <1>4. Released(row) \in JobRow
    BY DEF JobRow, Released
  <1>5. CancelAsked(row) \in JobRow
    <2>1. CASE row.status = "pending"
      BY <2>1 DEF JobRow, CancelAsked, CancelledStatus
    <2>2. CASE row.status # "pending"
      <3>1. CancelAsked(row) = [row EXCEPT !.status = "cancelling",
                                           !.cancelRequested = TRUE]
        BY <2>2 DEF JobRow, CancelAsked, CancelledStatus
      <3> QED BY <3>1 DEF JobRow
    <2> QED BY <2>1, <2>2
  <1> QED BY <1>1, <1>2, <1>3, <1>4, <1>5

\* Every call of a lease holder, and every claim, writes a well-formed job row.
LEMMA OwnerCallType ==
    ASSUME StoreTypeOK, NEW r \in Run, NEW o \in Owner, OwnerCall(o, r)
    PROVE  jobs' \in [Run -> JobRow]
  <1>1. \E row \in JobRow : jobs' = [jobs EXCEPT ![r] = row]
    BY JobRowOps
       DEF StoreTypeOK, OwnerCall, ClaimWorkflowJobFair, HeartbeatWorkflowJob,
           ReleaseWorkflowJob, CompleteWorkflowJob, FailWorkflowJob, CancelWorkflowJob
  <1> QED BY <1>1 DEF StoreTypeOK

\* The rate limit rows keep a natural count.
LEMMA RateCountedType ==
    ASSUME NEW row \in RateRow, NEW limit \in Nat
    PROVE  RateCounted(row, limit) \in RateRow
  BY DEF RateCounted, RateRow

\* Every transaction of the queue keeps the rows well formed.
LEMMA StoreTypeStep ==
    ASSUME StoreTypeOK, [StoreNext]_storeVars
    PROVE  StoreTypeOK'
  <1> USE RowSets, Limits
  <1>1. ASSUME NEW r \in Run, NEW h \in Hash, AdmitNewWorkflowJob(r, h)
        PROVE  StoreTypeOK'
    <2>1. jobs' \in [Run -> JobRow]
      <3>1. NewJob(h) \in JobRow
        BY DEF NewJob, NoJob, JobRow
      <3> QED BY <1>1, <3>1 DEF StoreTypeOK, AdmitNewWorkflowJob
    <2>2. userRate' \in [User -> RateRow]
      BY <1>1, RateCountedType DEF StoreTypeOK, AdmitNewWorkflowJob
    <2>3. projectRate' \in [Project -> RateRow]
      BY <1>1, RateCountedType DEF StoreTypeOK, AdmitNewWorkflowJob
    <2> QED
      BY <1>1, <2>1, <2>2, <2>3, InsertMissingRecordsType
         DEF StoreTypeOK, AdmitNewWorkflowJob
  <1>2. ASSUME NEW r \in Run, NEW h \in Hash, AdmitKnownWorkflowJob(r, h)
        PROVE  StoreTypeOK'
    BY <1>2, InsertMissingRecordsType DEF StoreTypeOK, AdmitKnownWorkflowJob, rateVars
  <1>3. ASSUME NEW r \in Run, RequestWorkflowJobCancellation(r)
        PROVE  StoreTypeOK'
    <2>1. jobs' \in [Run -> JobRow]
      BY <1>3, JobRowOps DEF StoreTypeOK, RequestWorkflowJobCancellation
    <2>2. CancelledStatus(jobs[r]) \in {"cancelling", "cancelled"}
      BY DEF CancelledStatus
    <2> QED
      BY <1>3, <2>1, <2>2, UpdateCancelledType
         DEF StoreTypeOK, RequestWorkflowJobCancellation, rateVars
  <1>4. ASSUME NEW r \in Run, LeaseExpires(r)
        PROVE  StoreTypeOK'
    BY <1>4, JobRowOps DEF StoreTypeOK, LeaseExpires, rateVars
  <1>5. ASSUME NEW r \in Run, RowWrite(r)
        PROVE  StoreTypeOK'
    <2>1. CASE \E st \in RunWrites : UpsertWorkflowRun(r, st)
      BY <2>1 DEF StoreTypeOK, UpsertWorkflowRun, rateVars
    <2>2. CASE \E s \in Scenario, row \in SessionWrites : UpsertSession(r, s, row)
      <3>1. PICK s \in Scenario, row \in SessionRow :
                sessions' = [sessions EXCEPT ![r] = [@ EXCEPT ![s] = row]]
        BY <2>2 DEF UpsertSession
      <3>2. [sessions[r] EXCEPT ![s] = row] \in [Scenario -> SessionRow]
        BY <3>1 DEF StoreTypeOK
      <3> QED BY <2>2, <3>1, <3>2 DEF StoreTypeOK, UpsertSession, rateVars
    <2> QED BY <1>5, <2>1, <2>2 DEF RowWrite
  <1>6. ASSUME NEW r \in Run, NEW o \in Owner, OwnerCall(o, r)
        PROVE  StoreTypeOK'
    <2>1. jobs' \in [Run -> JobRow]
      BY <1>6, OwnerCallType
    <2>2. CASE CancelWorkflowJob(o, r)
      BY <2>1, <2>2, UpdateCancelledType DEF StoreTypeOK, CancelWorkflowJob, rateVars
    <2>3. CASE UNCHANGED <<runs, sessions, rateVars>>
      BY <2>1, <2>3 DEF StoreTypeOK, rateVars
    <2> QED
      BY <1>6, <2>2, <2>3
         DEF OwnerCall, ClaimWorkflowJobFair, HeartbeatWorkflowJob,
             ReleaseWorkflowJob, CompleteWorkflowJob, FailWorkflowJob
  <1>7. CASE WindowElapses
    <2>1. \A row \in RateRow : [row EXCEPT !.over = TRUE] \in RateRow
      BY DEF RateRow
    <2>2. CASE UNCHANGED projectRate
      BY <1>7, <2>1, <2>2 DEF StoreTypeOK, WindowElapses
    <2>3. CASE UNCHANGED userRate
      BY <1>7, <2>1, <2>3 DEF StoreTypeOK, WindowElapses
    <2> QED BY <1>7, <2>2, <2>3 DEF WindowElapses
  <1>8. CASE UNCHANGED storeVars
    BY <1>8 DEF StoreTypeOK, storeVars
  <1> QED
    BY <1>1, <1>2, <1>3, <1>4, <1>5, <1>6, <1>7, <1>8 DEF StoreNext, AdmitWorkflowJob

\* The rows of the queue, runs, sessions and rate limits keep their types under
\* any sequence of calls of workflow_jobs.go.
THEOREM StoreTypeCorrect == StoreSpec => []StoreTypeOK
  <1>1. StoreInit => StoreTypeOK
    BY DEF StoreInit, StoreTypeOK, NoJob, JobRow, RunStatus, NoSession, SessionRow,
           SessionStatus, SessionPhase, NoRate, RateRow
  <1> QED BY <1>1, StoreTypeStep, PTL DEF StoreSpec

-----------------------------------------------------------------------------
(* The life of one job row *)

\* The changes of a row that the transactions allow, whoever calls them.
RowChange(old, new) ==
    \/ old.status = "absent" /\ \E h \in Hash : new = NewJob(h)
    \/ old.status \in {"pending", "running"} /\ new = CancelAsked(old)
    \/ old.lease = "live" /\ new = WithLease(old, "expired")
    \/ /\ old.status = "pending" \/ (old.status \in Leased /\ old.lease = "expired")
       /\ old.status \in Leased => old.cancelRequested \/ old.recoveries < MaxRecoveries
       /\ \E o \in Owner : new = Taken(old, o)
    \/ /\ old.status \in Leased
       /\ new = Finished(old, "failed") \/ new = Finished(old, "cancelled")
    \/ /\ old.status = "running"
       /\ \/ new = WithLease(old, "live") \/ new = Released(old)
          \/ new = Finished(old, "completed")

\* The same with what the transaction checked in the other rows: admission looks
\* at the queue caps, a claim of a pending job at the running limits.
Permitted(r, new) ==
    /\ RowChange(jobs[r], new)
    /\ jobs[r].status = "absent" /\ new.status \in Active => QueueAllows(r)
    /\ jobs[r].status = "pending" /\ new.status \in Leased => Startable(r)

\* Every step changes at most one job row, and changes it in one of these ways.
LEMMA StepChangesOneRow ==
    ASSUME StoreTypeOK, [StoreNext]_storeVars
    PROVE  \/ UNCHANGED jobs
           \/ \E r \in Run, new \in JobRow :
                  Permitted(r, new) /\ jobs' = [jobs EXCEPT ![r] = new]
  <1> DEFINE Change(r) == \E new \in JobRow :
                  Permitted(r, new) /\ jobs' = [jobs EXCEPT ![r] = new]
  <1> USE RowSets, Limits
  <1>1. ASSUME NEW r \in Run, NEW h \in Hash, AdmitWorkflowJob(r, h)
        PROVE  UNCHANGED jobs \/ Change(r)
    <2>1. CASE AdmitNewWorkflowJob(r, h)
      <3>1. NewJob(h) \in JobRow
        BY DEF NewJob, NoJob, JobRow
      <3>2. Permitted(r, NewJob(h))
        BY <2>1 DEF Permitted, RowChange, AdmitNewWorkflowJob, AdmissionAllows
      <3> QED BY <2>1, <3>1, <3>2 DEF AdmitNewWorkflowJob
    <2>2. CASE AdmitKnownWorkflowJob(r, h)
      BY <2>2 DEF AdmitKnownWorkflowJob
    <2> QED BY <1>1, <2>1, <2>2 DEF AdmitWorkflowJob
  <1>2. ASSUME NEW r \in Run, RequestWorkflowJobCancellation(r)
        PROVE  Change(r)
    <2>1. Permitted(r, CancelAsked(jobs[r]))
      BY <1>2 DEF Permitted, RowChange, RequestWorkflowJobCancellation, StoreTypeOK,
                  JobRow, CancelAsked, CancelledStatus
    <2> QED BY <1>2, <2>1, JobRowOps DEF StoreTypeOK, RequestWorkflowJobCancellation
  <1>3. ASSUME NEW r \in Run, LeaseExpires(r)
        PROVE  Change(r)
    <2>1. Permitted(r, WithLease(jobs[r], "expired"))
      BY <1>3 DEF Permitted, RowChange, LeaseExpires, StoreTypeOK, JobRow, WithLease
    <2> QED BY <1>3, <2>1, JobRowOps DEF StoreTypeOK, LeaseExpires
  <1>4. ASSUME NEW r \in Run, NEW o \in Owner, OwnerCall(o, r)
        PROVE  Change(r)
    <2>0. jobs[r] \in JobRow
      BY DEF StoreTypeOK
    <2>1. CASE \E locked \in SUBSET Run : ClaimWorkflowJobFair(o, r, locked)
      <3>1. Recoverable(r) \/ Startable(r)
        BY <2>1 DEF ClaimWorkflowJobFair, FirstClaimable, Claimable
      <3>2. CASE Exhausted(r)
        <4>1. Permitted(r, Finished(jobs[r], "failed"))
          BY <3>2 DEF Permitted, RowChange, Exhausted
        <4> QED BY <2>0, <2>1, <3>2, <4>1, JobRowOps DEF ClaimWorkflowJobFair
      <3>3. CASE ~Exhausted(r)
        <4>1. jobs' = [jobs EXCEPT ![r] = Taken(jobs[r], o)]
          BY <2>1, <3>3 DEF ClaimWorkflowJobFair
        <4>2. jobs[r].status \in Leased =>
                 jobs[r].cancelRequested \/ jobs[r].recoveries < MaxRecoveries
          BY <2>0, <3>3 DEF Exhausted, JobRow
        <4>3. Permitted(r, Taken(jobs[r], o))
          BY <3>1, <4>2 DEF Permitted, RowChange, Recoverable, Startable
        <4> QED BY <2>0, <4>1, <4>3, JobRowOps
      <3> QED BY <3>2, <3>3
    <2>2. CASE HeartbeatWorkflowJob(o, r) \/ ReleaseWorkflowJob(o, r)
               \/ CompleteWorkflowJob(o, r) \/ FailWorkflowJob(o, r)
      <3>1. jobs[r].status = "running"
        BY <2>2 DEF HeartbeatWorkflowJob, CanRenew, ReleaseWorkflowJob,
                    CompleteWorkflowJob, FailWorkflowJob, HoldsRunning
      <3>2. \A new \in {WithLease(jobs[r], "live"), Released(jobs[r]),
                        Finished(jobs[r], "completed"), Finished(jobs[r], "failed")} :
                Permitted(r, new)
        BY <3>1 DEF Permitted, RowChange
      <3> QED
        BY <2>0, <2>2, <3>2, JobRowOps
           DEF HeartbeatWorkflowJob, ReleaseWorkflowJob, CompleteWorkflowJob,
               FailWorkflowJob
    <2>3. CASE CancelWorkflowJob(o, r)
      <3>1. Permitted(r, Finished(jobs[r], "cancelled"))
        BY <2>3 DEF Permitted, RowChange, CancelWorkflowJob, HoldsLease
      <3> QED BY <2>0, <2>3, <3>1, JobRowOps DEF CancelWorkflowJob
    <2> QED BY <1>4, <2>1, <2>2, <2>3 DEF OwnerCall
  <1>5. ASSUME NEW r \in Run, RowWrite(r)
        PROVE  UNCHANGED jobs
    BY <1>5 DEF RowWrite, UpsertWorkflowRun, UpsertSession
  <1>6. WindowElapses \/ UNCHANGED storeVars => UNCHANGED jobs
    BY DEF WindowElapses, storeVars
  <1> HIDE DEF Change
  <1>7. UNCHANGED jobs \/ \E r \in Run : Change(r)
    BY <1>1, <1>2, <1>3, <1>4, <1>5, <1>6 DEF StoreNext
  <1> QED BY <1>7 DEF Change

\* The inductive invariant, row by row: the lease is there exactly while the row
\* is leased, the payload exactly while it may be needed, and only a row with a
\* cancel request has been recovered more often than the limit.
RowInv(row) ==
    /\ (row.status \in Leased) <=> (row.owner # None)
    /\ (row.status \in Leased) <=> (row.lease # "none")
    /\ row.payload <=> (row.status \in Active)
    /\ row.cancelRequested \/ row.recoveries <= MaxRecoveries
    /\ row.status = "absent" => ~row.cancelRequested

StoreInv == StoreTypeOK /\ \A r \in Run : RowInv(jobs[r])

\* Each change of a row keeps RowInv.
LEMMA RowInvStep ==
    ASSUME NEW old \in JobRow, NEW new \in JobRow, RowInv(old), RowChange(old, new)
    PROVE  RowInv(new)
  <1> USE RowSets, Limits DEF RowInv, JobRow
  <1>1. CASE old.status = "absent" /\ \E h \in Hash : new = NewJob(h)
    BY <1>1 DEF NewJob, NoJob
  <1>2. CASE old.status \in {"pending", "running"} /\ new = CancelAsked(old)
    BY <1>2 DEF CancelAsked, CancelledStatus
  <1>3. CASE old.lease = "live" /\ new = WithLease(old, "expired")
    BY <1>3 DEF WithLease
  <1>4. CASE /\ old.status \in Leased => old.cancelRequested \/ old.recoveries < MaxRecoveries
             /\ old.status \in Active
             /\ \E o \in Owner : new = Taken(old, o)
    BY <1>4 DEF Taken
  <1>5. CASE \E st \in Terminal : new = Finished(old, st)
    BY <1>5 DEF Finished
  <1>6. CASE old.status = "running" /\ new = WithLease(old, "live")
    BY <1>6 DEF WithLease
  <1>7. CASE old.status = "running" /\ new = Released(old)
    BY <1>7 DEF Released
  <1> QED BY <1>1, <1>2, <1>3, <1>4, <1>5, <1>6, <1>7 DEF RowChange

\* RowInv of every row, with the types, is inductive.
LEMMA StoreInvStep ==
    ASSUME StoreInv, [StoreNext]_storeVars
    PROVE  StoreInv'
  <1> USE DEF StoreInv
  <1>1. StoreTypeOK'
    BY StoreTypeStep
  <1>2. CASE UNCHANGED jobs
    BY <1>1, <1>2 DEF RowInv
  <1>3. ASSUME NEW r \in Run, NEW new \in JobRow,
               RowChange(jobs[r], new), jobs' = [jobs EXCEPT ![r] = new]
        PROVE  \A q \in Run : RowInv(jobs'[q])
    <2>1. RowInv(new)
      BY <1>3, RowInvStep DEF StoreTypeOK
    <2> QED BY <1>3, <2>1 DEF StoreTypeOK
  <1> QED BY <1>1, <1>2, <1>3, StepChangesOneRow DEF RowInv, Permitted

\* The invariant holds throughout.
LEMMA StoreInvariant == StoreSpec => []StoreInv
  <1>1. StoreInit => StoreInv
    <2> SUFFICES ASSUME StoreInit PROVE StoreInv
      OBVIOUS
    <2>1. StoreTypeOK
      BY DEF StoreInit, StoreTypeOK, NoJob, JobRow, RunStatus, NoSession, SessionRow,
             SessionStatus, SessionPhase, NoRate, RateRow
    <2>2. \A r \in Run : RowInv(jobs[r])
      BY Limits DEF StoreInit, NoJob, RowInv
    <2> QED BY <2>1, <2>2 DEF StoreInv
  <1> QED BY <1>1, StoreInvStep, PTL DEF StoreSpec

\* A job row has an owner and a lease exactly while it is running or cancelling,
\* under any calls of any owners (claim, heartbeat, release, complete, fail,
\* cancel) in any order.
THEOREM LeaseIsConsistent == StoreSpec => []LeaseConsistent
  <1>1. StoreInv => LeaseConsistent
    BY DEF StoreInv, RowInv, LeaseConsistent
  <1> QED BY <1>1, StoreInvariant, PTL

\* The encrypted payload exists exactly while the job may have to be executed:
\* each of the transactions that make a job terminal erases it, no other does.
THEOREM PayloadIsKeptWhileNeeded == StoreSpec => []PayloadKeptWhileNeeded
  <1>1. StoreInv => PayloadKeptWhileNeeded
    BY DEF StoreInv, RowInv, PayloadKeptWhileNeeded
  <1> QED BY <1>1, StoreInvariant, PTL

\* A job nobody cancelled is recovered at most MaxRecoveries times.
THEOREM RecoveriesAreBounded == StoreSpec => []RecoveryBound
  <1>1. StoreInv => RecoveryBound
    BY DEF StoreInv, RowInv, RecoveryBound
  <1> QED BY <1>1, StoreInvariant, PTL

\* No call changes a terminal job row.
THEOREM TerminalRowsAreFrozen == StoreSpec => TerminalRowFrozen
  <1>1. ASSUME StoreInv, [StoreNext]_storeVars
        PROVE  [\A r \in Run : jobs[r].status \in Terminal => jobs'[r] = jobs[r]]_jobs
    <2>1. ASSUME NEW r \in Run, NEW new \in JobRow,
                 RowChange(jobs[r], new), jobs' = [jobs EXCEPT ![r] = new]
          PROVE  \A q \in Run : jobs[q].status \in Terminal => jobs'[q] = jobs[q]
      <3>1. jobs[r].status \notin Terminal
        BY <1>1, <2>1 DEF StoreInv, RowInv, RowChange
      <3> QED BY <1>1, <2>1, <3>1 DEF StoreInv, StoreTypeOK
    <2>2. StoreTypeOK
      BY <1>1 DEF StoreInv
    <2> QED BY <1>1, <2>1, <2>2, StepChangesOneRow DEF Permitted
  <1> QED BY <1>1, StoreInvariant, PTL DEF StoreSpec, TerminalRowFrozen

\* A live lease is never handed to another owner, and a recorded cancel request
\* is never forgotten.
THEOREM LiveLeasesAreNotStolen == StoreSpec => LiveLeaseNotStolen
  <1>1. ASSUME StoreInv, [StoreNext]_storeVars
        PROVE  [\A r \in Run :
                  /\ jobs[r].lease = "live" => jobs'[r].owner \in {jobs[r].owner, None}
                  /\ jobs[r].cancelRequested => jobs'[r].cancelRequested]_jobs
    <2>1. ASSUME NEW old \in JobRow, NEW new \in JobRow, RowInv(old), RowChange(old, new)
          PROVE  /\ old.lease = "live" => new.owner \in {old.owner, None}
                 /\ old.cancelRequested => new.cancelRequested
      <3> USE <2>1 DEF JobRow
      <3>1. CASE old.status = "absent" /\ \E h \in Hash : new = NewJob(h)
        BY <3>1 DEF RowInv
      <3>2. CASE new = CancelAsked(old)
        BY <3>2 DEF CancelAsked
      <3>3. CASE \E l \in {"live", "expired"} : new = WithLease(old, l)
        BY <3>3 DEF WithLease
      <3>4. CASE /\ old.status = "pending" \/ old.lease = "expired"
                 /\ \E o \in Owner : new = Taken(old, o)
        BY <3>4 DEF RowInv, Taken
      <3>5. CASE \E st \in Terminal : new = Finished(old, st)
        BY <3>5 DEF Finished
      <3>6. CASE new = Released(old)
        BY <3>6 DEF Released
      <3> QED BY <3>1, <3>2, <3>3, <3>4, <3>5, <3>6 DEF RowChange
    <2>2. ASSUME NEW r \in Run, NEW new \in JobRow,
                 RowChange(jobs[r], new), jobs' = [jobs EXCEPT ![r] = new]
          PROVE  \A q \in Run :
                  /\ jobs[q].lease = "live" => jobs'[q].owner \in {jobs[q].owner, None}
                  /\ jobs[q].cancelRequested => jobs'[q].cancelRequested
      BY <1>1, <2>1, <2>2 DEF StoreInv, StoreTypeOK
    <2>3. StoreTypeOK
      BY <1>1 DEF StoreInv
    <2> QED BY <1>1, <2>2, <2>3, StepChangesOneRow DEF Permitted
  <1> QED BY <1>1, StoreInvariant, PTL DEF StoreSpec, LiveLeaseNotStolen

-----------------------------------------------------------------------------
(* Capacity *)

\* Cardinalities of a set that grew by at most one element, and of a union.
LEMMA AtMostOneMore ==
    ASSUME NEW S, IsFiniteSet(S), NEW x, NEW T \in SUBSET (S \cup {x})
    PROVE  /\ Cardinality(T) \in Nat /\ Cardinality(S) \in Nat
           /\ Cardinality(T) <= Cardinality(S) + 1
  <1>1. IsFiniteSet(S \cup {x}) /\ Cardinality(S \cup {x}) <= Cardinality(S) + 1
    <2>1. Cardinality(S) \in Nat
      BY FS_CardinalityType
    <2>2. IsFiniteSet(S \cup {x})
      BY FS_AddElement
    <2>3. CASE x \in S
      BY <2>1, <2>2, <2>3, S \cup {x} = S
    <2>4. CASE x \notin S
      BY <2>1, <2>2, <2>4, FS_AddElement
    <2> QED BY <2>3, <2>4
  <1>2. IsFiniteSet(T) /\ Cardinality(T) <= Cardinality(S \cup {x})
    BY <1>1, FS_Subset
  <1> QED BY <1>1, <1>2, FS_CardinalityType

\* A set inside a union is no larger than the two parts together.
LEMMA UnionBound ==
    ASSUME NEW A, NEW B, IsFiniteSet(A), IsFiniteSet(B), NEW C \in SUBSET (A \cup B)
    PROVE  /\ Cardinality(A) \in Nat /\ Cardinality(B) \in Nat
           /\ Cardinality(C) \in Nat
           /\ Cardinality(C) <= Cardinality(A) + Cardinality(B)
  <1>1. IsFiniteSet(A \cup B) /\ Cardinality(A \cup B) <= Cardinality(A) + Cardinality(B)
    <2>1. /\ IsFiniteSet(A \cup B)
          /\ Cardinality(A \cup B) =
                Cardinality(A) + Cardinality(B) - Cardinality(A \cap B)
      BY FS_Union
    <2>2. IsFiniteSet(A \cap B)
      BY FS_Intersection
    <2> QED BY <2>1, <2>2, FS_CardinalityType
  <1>2. IsFiniteSet(C) /\ Cardinality(C) <= Cardinality(A \cup B)
    BY <1>1, FS_Subset
  <1> QED BY <1>1, <1>2, FS_CardinalityType

\* Only a claim of a pending job that fits the running limits adds a leased job,
\* and only an admission below the queue caps adds an unfinished one.
LeasedKept(q) == jobs'[q].status \in Leased => jobs[q].status \in Leased
ActiveKept(q) == jobs'[q].status \in Active => jobs[q].status \in Active

\* A permitted change of a row starts a lease only from "pending", and makes a
\* job unfinished only from "absent".
LEMMA RowChangeKeeps ==
    ASSUME StoreTypeOK, NEW r \in Run, NEW new \in JobRow, RowChange(jobs[r], new),
           jobs' = [jobs EXCEPT ![r] = new]
    PROVE  /\ \A q \in Run \ {r} : LeasedKept(q) /\ ActiveKept(q)
           /\ jobs[r].status # "pending" => LeasedKept(r)
           /\ jobs[r].status # "absent" => ActiveKept(r)
  <1> USE DEF LeasedKept, ActiveKept
  <1>1. jobs'[r] = new /\ jobs[r] \in JobRow /\ \A q \in Run \ {r} : jobs'[q] = jobs[q]
    BY DEF StoreTypeOK
  <1>2. jobs[r].status # "absent" => jobs[r].status \in Active \/ jobs[r].status \in Terminal
    BY <1>1 DEF JobRow
  <1>3. jobs[r].status # "pending" /\ new.status \in Leased => jobs[r].status \in Leased
    BY <1>1 DEF RowChange, JobRow, NewJob, NoJob, CancelAsked, CancelledStatus,
                WithLease, Taken, Finished, Released
  <1>4. jobs[r].status # "absent" /\ new.status \in Active => jobs[r].status \in Active
    BY <1>1 DEF RowChange, JobRow, NewJob, NoJob, CancelAsked, CancelledStatus,
                WithLease, Taken, Finished, Released
  <1> QED BY <1>1, <1>3, <1>4

\* The sets that the limits count are finite.
LEMMA CountedSetsFinite ==
    \A S, u, p : IsFiniteSet(OfUser(u, S)) /\ IsFiniteSet(OfProject(p, S))
  BY RowSets, FS_Subset DEF OfUser, OfProject, WithStatus

\* A step leaves the running capacity as it was or adds one job that fitted.
LEMMA CapacityStep ==
    ASSUME StoreTypeOK, RunningCapacity, [StoreNext]_storeVars
    PROVE  RunningCapacity'
  <1> USE RowSets, Limits
  <1>1. CASE UNCHANGED jobs
    BY <1>1 DEF RunningCapacity, OfUser, OfProject, WithStatus
  <1>2. ASSUME NEW r \in Run, NEW new \in JobRow, Permitted(r, new),
               jobs' = [jobs EXCEPT ![r] = new]
        PROVE  RunningCapacity'
    <2>1. ASSUME NEW u \in User
          PROVE  Cardinality(OfUser(u, Leased)') <= RunningLimit(MaxRunningPerUser)
      <3> DEFINE S == OfUser(u, Leased)
                 T == OfUser(u, Leased)'
                 lim == RunningLimit(MaxRunningPerUser)
      <3>1. T \in SUBSET (S \cup {r})
        BY <1>2, RowChangeKeeps DEF Permitted, LeasedKept, OfUser, WithStatus
      <3>2. Cardinality(S) <= lim /\ lim \in Nat
        BY DEF RunningCapacity, RunningLimit
      <3>3. IsFiniteSet(S)
        BY CountedSetsFinite
      <3>4. CASE T \subseteq S
        BY <3>2, <3>3, <3>4, FS_Subset, FS_CardinalityType
      <3>5. CASE ~(T \subseteq S)
        <4>1. r \in T /\ r \notin S
          BY <3>1, <3>5
        <4>2. UserOf[r] = u /\ new.status \in Leased /\ jobs[r].status \notin Leased
          BY <1>2, <4>1 DEF OfUser, WithStatus, StoreTypeOK
        <4>3. Startable(r)
          BY <1>2, <4>2, RowChangeKeeps DEF Permitted, LeasedKept, StoreTypeOK
        <4>4. Cardinality(S) < lim
          BY <4>2, <4>3 DEF Startable
        <4> HIDE DEF S, T, lim
        <4>5. /\ Cardinality(T) \in Nat /\ Cardinality(S) \in Nat
              /\ Cardinality(T) <= Cardinality(S) + 1
          BY <3>1, <3>3, AtMostOneMore
        <4>6. Cardinality(T) <= lim
          BY <3>2, <4>4, <4>5
        <4> QED BY <4>6 DEF T, lim
      <3> QED BY <3>4, <3>5
    <2>2. ASSUME NEW p \in Project
          PROVE  Cardinality(OfProject(p, Leased)') <= RunningLimit(MaxRunningPerProject)
      <3> DEFINE S == OfProject(p, Leased)
                 T == OfProject(p, Leased)'
                 lim == RunningLimit(MaxRunningPerProject)
      <3>1. T \in SUBSET (S \cup {r})
        BY <1>2, RowChangeKeeps DEF Permitted, LeasedKept, OfProject, WithStatus
      <3>2. Cardinality(S) <= lim /\ lim \in Nat
        BY DEF RunningCapacity, RunningLimit
      <3>3. IsFiniteSet(S)
        BY CountedSetsFinite
      <3>4. CASE T \subseteq S
        BY <3>2, <3>3, <3>4, FS_Subset, FS_CardinalityType
      <3>5. CASE ~(T \subseteq S)
        <4>1. r \in T /\ r \notin S
          BY <3>1, <3>5
        <4>2. ProjectOf[r] = p /\ new.status \in Leased /\ jobs[r].status \notin Leased
          BY <1>2, <4>1 DEF OfProject, WithStatus, StoreTypeOK
        <4>3. Startable(r)
          BY <1>2, <4>2, RowChangeKeeps DEF Permitted, LeasedKept, StoreTypeOK
        <4>4. Cardinality(S) < lim
          BY <4>2, <4>3 DEF Startable
        <4> HIDE DEF S, T, lim
        <4>5. /\ Cardinality(T) \in Nat /\ Cardinality(S) \in Nat
              /\ Cardinality(T) <= Cardinality(S) + 1
          BY <3>1, <3>3, AtMostOneMore
        <4>6. Cardinality(T) <= lim
          BY <3>2, <4>4, <4>5
        <4> QED BY <4>6 DEF T, lim
      <3> QED BY <3>4, <3>5
    <2> QED BY <2>1, <2>2 DEF RunningCapacity, RunningLimit
  <1> QED BY <1>1, <1>2, StepChangesOneRow

\* No sequence of claims, recoveries, releases and cancellations makes a user or
\* a project hold more leased jobs than its running limit.
THEOREM CapacityIsRespected == StoreSpec => []RunningCapacity
  <1>1. StoreInit => RunningCapacity
    <2> SUFFICES ASSUME StoreInit PROVE RunningCapacity
      OBVIOUS
    <2>1. \A u, p : OfUser(u, Leased) = {} /\ OfProject(p, Leased) = {}
      BY DEF StoreInit, NoJob, OfUser, OfProject, WithStatus
    <2> QED BY <2>1, FS_EmptySet, Limits DEF RunningCapacity, RunningLimit
  <1> QED BY <1>1, CapacityStep, StoreTypeCorrect, PTL DEF StoreSpec

\* A step leaves the backlog as it was or adds one job that the caps let in; the
\* cap counts pending jobs only, the running capacity bounds the others.
LEMMA BacklogStep ==
    ASSUME StoreTypeOK, RunningCapacity, BacklogBound, [StoreNext]_storeVars
    PROVE  BacklogBound'
  <1> USE RowSets, Limits
  <1>1. CASE UNCHANGED jobs
    BY <1>1 DEF BacklogBound, OfUser, OfProject, WithStatus
  <1>2. ASSUME NEW r \in Run, NEW new \in JobRow, Permitted(r, new),
               jobs' = [jobs EXCEPT ![r] = new]
        PROVE  BacklogBound'
    <2>1. ASSUME MaxQueuedPerUser > 0, NEW u \in User
          PROVE  Cardinality(OfUser(u, Active)') <=
                     MaxQueuedPerUser + RunningLimit(MaxRunningPerUser)
      <3> DEFINE S == OfUser(u, Active)
                 T == OfUser(u, Active)'
                 pending == OfUser(u, {"pending"})
                 leased == OfUser(u, Leased)
                 lim == RunningLimit(MaxRunningPerUser)
      <3>1. T \in SUBSET (S \cup {r})
        BY <1>2, RowChangeKeeps DEF Permitted, ActiveKept, OfUser, WithStatus
      <3>2. Cardinality(S) <= MaxQueuedPerUser + lim /\ lim \in Nat
        BY <2>1 DEF BacklogBound, RunningLimit
      <3>3. IsFiniteSet(S) /\ IsFiniteSet(pending) /\ IsFiniteSet(leased)
        BY CountedSetsFinite
      <3>4. CASE T \subseteq S
        BY <3>2, <3>3, <3>4, FS_Subset, FS_CardinalityType
      <3>5. CASE ~(T \subseteq S)
        <4>1. r \in T /\ r \notin S
          BY <3>1, <3>5
        <4>2. UserOf[r] = u /\ new.status \in Active /\ jobs[r].status \notin Active
          BY <1>2, <4>1 DEF OfUser, WithStatus, StoreTypeOK
        <4>3. QueueAllows(r)
          BY <1>2, <4>2, RowChangeKeeps DEF Permitted, ActiveKept, StoreTypeOK
        <4>4. Cardinality(pending) < MaxQueuedPerUser
          BY <2>1, <4>2, <4>3 DEF QueueAllows, BelowCap
        <4>5. Cardinality(leased) <= lim
          BY DEF RunningCapacity
        <4>6. S \in SUBSET (pending \cup leased)
          BY DEF OfUser, WithStatus
        <4> HIDE DEF S, T, pending, leased, lim
        <4>7. /\ Cardinality(pending) \in Nat /\ Cardinality(leased) \in Nat
              /\ Cardinality(S) <= Cardinality(pending) + Cardinality(leased)
          BY <3>3, <4>6, UnionBound
        <4>8. /\ Cardinality(T) \in Nat /\ Cardinality(S) \in Nat
              /\ Cardinality(T) <= Cardinality(S) + 1
          BY <3>1, <3>3, AtMostOneMore
        <4>9. Cardinality(T) <= MaxQueuedPerUser + lim
          BY <3>2, <4>4, <4>5, <4>7, <4>8
        <4> QED BY <4>9 DEF T, lim
      <3> QED BY <3>4, <3>5
    <2>2. ASSUME MaxQueuedPerProject > 0, NEW p \in Project
          PROVE  Cardinality(OfProject(p, Active)') <=
                     MaxQueuedPerProject + RunningLimit(MaxRunningPerProject)
      <3> DEFINE S == OfProject(p, Active)
                 T == OfProject(p, Active)'
                 pending == OfProject(p, {"pending"})
                 leased == OfProject(p, Leased)
                 lim == RunningLimit(MaxRunningPerProject)
      <3>1. T \in SUBSET (S \cup {r})
        BY <1>2, RowChangeKeeps DEF Permitted, ActiveKept, OfProject, WithStatus
      <3>2. Cardinality(S) <= MaxQueuedPerProject + lim /\ lim \in Nat
        BY <2>2 DEF BacklogBound, RunningLimit
      <3>3. IsFiniteSet(S) /\ IsFiniteSet(pending) /\ IsFiniteSet(leased)
        BY CountedSetsFinite
      <3>4. CASE T \subseteq S
        BY <3>2, <3>3, <3>4, FS_Subset, FS_CardinalityType
      <3>5. CASE ~(T \subseteq S)
        <4>1. r \in T /\ r \notin S
          BY <3>1, <3>5
        <4>2. ProjectOf[r] = p /\ new.status \in Active /\ jobs[r].status \notin Active
          BY <1>2, <4>1 DEF OfProject, WithStatus, StoreTypeOK
        <4>3. QueueAllows(r)
          BY <1>2, <4>2, RowChangeKeeps DEF Permitted, ActiveKept, StoreTypeOK
        <4>4. Cardinality(pending) < MaxQueuedPerProject
          BY <2>2, <4>2, <4>3 DEF QueueAllows, BelowCap
        <4>5. Cardinality(leased) <= lim
          BY DEF RunningCapacity
        <4>6. S \in SUBSET (pending \cup leased)
          BY DEF OfProject, WithStatus
        <4> HIDE DEF S, T, pending, leased, lim
        <4>7. /\ Cardinality(pending) \in Nat /\ Cardinality(leased) \in Nat
              /\ Cardinality(S) <= Cardinality(pending) + Cardinality(leased)
          BY <3>3, <4>6, UnionBound
        <4>8. /\ Cardinality(T) \in Nat /\ Cardinality(S) \in Nat
              /\ Cardinality(T) <= Cardinality(S) + 1
          BY <3>1, <3>3, AtMostOneMore
        <4>9. Cardinality(T) <= MaxQueuedPerProject + lim
          BY <3>2, <4>4, <4>5, <4>7, <4>8
        <4> QED BY <4>9 DEF T, lim
      <3> QED BY <3>4, <3>5
    <2> QED BY <2>1, <2>2 DEF BacklogBound, RunningLimit
  <1> QED BY <1>1, <1>2, StepChangesOneRow

\* The unfinished jobs of a user or a project never exceed its queue cap plus its
\* running limit, though released jobs re-enter the queue without admission.
THEOREM BacklogIsBounded == StoreSpec => []BacklogBound
  <1>1. StoreInit => BacklogBound
    <2> SUFFICES ASSUME StoreInit PROVE BacklogBound
      OBVIOUS
    <2>1. \A u, p : OfUser(u, Active) = {} /\ OfProject(p, Active) = {}
      BY DEF StoreInit, NoJob, OfUser, OfProject, WithStatus
    <2> QED BY <2>1, FS_EmptySet, Limits DEF BacklogBound, RunningLimit
  <1> QED
    BY <1>1, BacklogStep, CapacityIsRespected, StoreTypeCorrect, PTL DEF StoreSpec

\* What a job row holds fits its status under any calls, in any order.
THEOREM RowsMatchTheirStatus == StoreSpec => []RowMatchesStatus
  <1>1. LeaseConsistent /\ PayloadKeptWhileNeeded => RowMatchesStatus
    BY DEF RowMatchesStatus
  <1> QED BY <1>1, LeaseIsConsistent, PayloadIsKeptWhileNeeded, PTL

\* The limits on take-overs, running jobs and unfinished jobs hold together.
THEOREM LimitsAreRespected == StoreSpec => []WithinLimits
  <1>1. RecoveryBound /\ RunningCapacity /\ BacklogBound => WithinLimits
    BY DEF WithinLimits
  <1> QED BY <1>1, RecoveriesAreBounded, CapacityIsRespected, BacklogIsBounded, PTL

\* No row ever leaves the table.
LEMMA JobsStay ==
    ASSUME StoreTypeOK, [StoreNext]_storeVars
    PROVE  \A r \in Run : jobs[r].status # "absent" => jobs'[r].status # "absent"
  <1>1. ASSUME NEW q \in Run, NEW new \in JobRow,
               RowChange(jobs[q], new), jobs' = [jobs EXCEPT ![q] = new]
        PROVE  \A r \in Run : jobs[r].status # "absent" => jobs'[r].status # "absent"
    <2>1. jobs[q] \in JobRow
      BY DEF StoreTypeOK
    <2>2. jobs[q].status # "absent" => new.status # "absent"
      BY <1>1, <2>1 DEF RowChange, JobRow, CancelAsked, CancelledStatus, WithLease, Taken,
                        Finished, Released
    <2> QED BY <1>1, <2>2 DEF StoreTypeOK
  <1> QED BY <1>1, StepChangesOneRow DEF Permitted

-----------------------------------------------------------------------------
(* Progress *)

RunKept(r) == runs[r] # "absent" => runs'[r] = runs[r] \/ runs'[r] # "pending"

SessionKept(r, s) ==
    sessions[r][s].status # "absent" =>
        sessions'[r][s] = sessions[r][s] \/ sessions'[r][s].status # "pending"

Kept ==
    \A q \in Run : RowWrite(q) \/ (RunKept(q) /\ \A s \in Scenario : SessionKept(q, s))

\* The two updates of run and session rows by statement, one row for the run and one for
\* each scenario: neither takes anything back.
LEMMA RecordUpdatesKeepProgress ==
    ASSUME StoreTypeOK, NEW r \in Run,
           \/ InsertMissingRecords(r)
           \/ \E st \in {"cancelling", "cancelled"} : UpdateCancelledWorkflowRecords(r, st)
    PROVE  Kept
  <1>1. CASE InsertMissingRecords(r)
    <2>1. ASSUME NEW q \in Run
          PROVE  RunKept(q)
      BY <1>1 DEF InsertMissingRecords, StoreTypeOK, RunKept
    <2>2. ASSUME NEW q \in Run, NEW s \in Scenario
          PROVE  SessionKept(q, s)
      BY <1>1 DEF InsertMissingRecords, StoreTypeOK, SessionKept
    <2> QED BY <2>1, <2>2 DEF Kept
  <1>2. ASSUME NEW st \in {"cancelling", "cancelled"}, UpdateCancelledWorkflowRecords(r, st)
        PROVE  Kept
    <2>1. ASSUME NEW q \in Run
          PROVE  RunKept(q)
      BY <1>2 DEF UpdateCancelledWorkflowRecords, StoreTypeOK, RunKept
    <2>2. ASSUME NEW q \in Run, NEW s \in Scenario
          PROVE  SessionKept(q, s)
      <3>1. sessions[r][s] \in SessionRow
        BY DEF StoreTypeOK
      <3> QED BY <1>2, <3>1 DEF UpdateCancelledWorkflowRecords, StoreTypeOK, SessionKept, SessionRow
    <2> QED BY <2>1, <2>2 DEF Kept
  <1> QED BY <1>1, <1>2

\* Each step of the queue keeps what runs and sessions have reached.
LEMMA ProgressStep ==
    ASSUME StoreTypeOK, [StoreNext]_storeVars
    PROVE  Kept
  <1>1. UNCHANGED <<runs, sessions>> => Kept
    BY DEF Kept, RunKept, SessionKept
  <1>2. ASSUME NEW r \in Run, NEW h \in Hash, AdmitWorkflowJob(r, h)
        PROVE  Kept
    <2>1. InsertMissingRecords(r)
      BY <1>2 DEF AdmitWorkflowJob, AdmitNewWorkflowJob, AdmitKnownWorkflowJob
    <2> QED BY <2>1, RecordUpdatesKeepProgress
  <1>3. ASSUME NEW r \in Run, RequestWorkflowJobCancellation(r)
        PROVE  Kept
    <2>1. \E st \in {"cancelling", "cancelled"} : UpdateCancelledWorkflowRecords(r, st)
      BY <1>3 DEF RequestWorkflowJobCancellation, CancelledStatus
    <2> QED BY <2>1, RecordUpdatesKeepProgress
  <1>4. ASSUME NEW r \in Run, RowWrite(r)
        PROVE  Kept
    <2>1. \A q \in Run : q # r => runs'[q] = runs[q] /\ sessions'[q] = sessions[q]
      BY <1>4 DEF RowWrite, UpsertWorkflowRun, UpsertSession, StoreTypeOK
    <2> QED BY <1>4, <2>1 DEF Kept, RunKept, SessionKept
  <1>5. ASSUME NEW r \in Run, NEW o \in Owner, OwnerCall(o, r)
        PROVE  Kept
    <2>1. CASE CancelWorkflowJob(o, r)
      BY <2>1, RecordUpdatesKeepProgress DEF CancelWorkflowJob
    <2>2. CASE ~CancelWorkflowJob(o, r)
      <3>1. UNCHANGED <<runs, sessions>>
        BY <1>5, <2>2 DEF OwnerCall, ClaimWorkflowJobFair, HeartbeatWorkflowJob,
                          ReleaseWorkflowJob, CompleteWorkflowJob, FailWorkflowJob
      <3> QED BY <1>1, <3>1
    <2> QED BY <2>1, <2>2
  <1>6. ASSUME NEW r \in Run, LeaseExpires(r)
        PROVE  Kept
    BY <1>1, <1>6 DEF LeaseExpires
  <1>7. CASE WindowElapses
    BY <1>1, <1>7 DEF WindowElapses
  <1>8. CASE UNCHANGED storeVars
    BY <1>1, <1>8 DEF storeVars
  <1>9. CASE StoreNext
    BY <1>2, <1>3, <1>4, <1>5, <1>6, <1>7, <1>9 DEF StoreNext
  <1> QED BY <1>8, <1>9

\* A terminal row is never written again, and only a caller that writes a run or session
\* row itself ever takes back what the run or the session has reached.
THEOREM ProgressIsKept == StoreSpec => ProgressKept
  <1>1. ASSUME StoreTypeOK, [StoreNext]_storeVars
        PROVE  [\A r \in Run :
                  \/ RowWrite(r)
                  \/ /\ runs[r] # "absent" => runs'[r] = runs[r] \/ runs'[r] # "pending"
                     /\ \A s \in Scenario :
                          sessions[r][s].status # "absent" =>
                              \/ sessions'[r][s] = sessions[r][s]
                              \/ sessions'[r][s].status # "pending"]_<<runs, sessions>>
    BY <1>1, ProgressStep DEF Kept, RunKept, SessionKept
  <1>2. StoreSpec => SubmissionKeepsProgress
    BY <1>1, StoreTypeCorrect, PTL DEF StoreSpec, SubmissionKeepsProgress
  <1> QED BY <1>2, TerminalRowsAreFrozen DEF ProgressKept
=============================================================================
