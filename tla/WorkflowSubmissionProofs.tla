----------------------- MODULE WorkflowSubmissionProofs -----------------------
(***************************************************************************)
(* Theorems about the submissions of WorkflowSubmission, for any number of *)
(* concurrent, repeated and dying calls, any runs and any limits.          *)
(***************************************************************************)
EXTENDS WorkflowSubmission, WorkflowJobsProofs

USE DEF Leased, Terminal

-----------------------------------------------------------------------------
(* Submissions use the queue only through its transactions *)

\* A step of a call, or of the queue beside it, is one transaction of the queue or leaves
\* its tables alone.
LEMMA SubmissionStepIsStoreStep ==
    ASSUME [SubmissionNext]_submissionVars
    PROVE  [StoreNext]_storeVars
  <1>1. ASSUME NEW c \in Call, Admit(c)
        PROVE  [StoreNext]_storeVars
    <2>1. c \in Hash /\ RunOf[c] \in Run
      BY Calls
    <2>2. CASE AdmitNewWorkflowJob(RunOf[c], c)
      BY <2>1, <2>2 DEF StoreNext, AdmitWorkflowJob
    <2>3. CASE UNCHANGED storeVars
      BY <2>3
    <2> QED BY <1>1, <2>2, <2>3 DEF Admit
  <1>2. ASSUME NEW c \in Call,
               LookUpJob(c) \/ EnsureWorkflowGraphForRun(c)
                   \/ CreateWorkflowRevision(c) \/ CallDies(c)
        PROVE  UNCHANGED storeVars
    BY <1>2 DEF LookUpJob, EnsureWorkflowGraphForRun, CreateWorkflowRevision, CallDies
  <1>3. CASE QueueStep
    <2>1. ASSUME NEW r \in Run, RequestWorkflowJobCancellation(r)
          PROVE  StoreNext
      BY <2>1 DEF StoreNext
    <2>2. ASSUME NEW r \in Run, NEW o \in Owner,
                 ClaimWorkflowJobFair(o, r, {}) \/ CompleteWorkflowJob(o, r)
          PROVE  StoreNext
      <3>1. OwnerCall(o, r)
        BY <2>2 DEF OwnerCall
      <3> QED BY <3>1 DEF StoreNext
    <2>3. CASE WindowElapses
      BY <2>3 DEF StoreNext
    <2> QED BY <1>3, <2>1, <2>2, <2>3 DEF QueueStep
  <1>4. CASE UNCHANGED submissionVars
    BY <1>4 DEF submissionVars
  <1> QED BY <1>1, <1>2, <1>3, <1>4 DEF SubmissionNext

\* Submissions implement the queue's own specification, so all that WorkflowJobsProofs
\* shows of the queue holds while runs are being submitted.
THEOREM SubmissionsImplementStore == SubmissionSpec => StoreSpec
  <1>1. SubmissionInit => StoreInit
    BY DEF SubmissionInit
  <1> QED BY <1>1, SubmissionStepIsStoreStep, PTL DEF SubmissionSpec, StoreSpec

-----------------------------------------------------------------------------
(* Calls, revisions and the rows they lead to *)

\* Where a call stands fits what is stored: a call that has its graph or its revision
\* stored finds it there, the run it created carries its hash, and a run it was told is
\* known has its workload.
CallInv(c) ==
    /\ call[c] \in {"graphed", "revised", "created"} => RunOf[c] \in graphs
    /\ call[c] \in {"revised", "created"} => c \in revisions
    /\ call[c] = "created" => JobFor(c).status # "absent" /\ JobFor(c).hash = c
    /\ call[c] = "known" => JobFor(c).status # "absent" /\ SameContent(c)

\* A job in the queue was put there by the call whose hash it carries.
RowOrigin(r) ==
    jobs[r].status # "absent" =>
        /\ jobs[r].hash \in Call
        /\ RunOf[jobs[r].hash] = r
        /\ call[jobs[r].hash] = "created"

SubmissionInv ==
    /\ SubmissionTypeOK
    /\ \A c \in Call : CallInv(c)
    /\ \A r \in Run : RowOrigin(r)

\* What the queue does on its own neither adds a job nor changes whose job it is.
LEMMA QueueStepKeepsJobs ==
    ASSUME StoreTypeOK, QueueStep
    PROVE  \A r \in Run : /\ jobs'[r].hash = jobs[r].hash
                          /\ jobs'[r].status = "absent" <=> jobs[r].status = "absent"
  <1> DEFINE Same(r) == /\ jobs'[r].hash = jobs[r].hash
                        /\ jobs'[r].status = "absent" <=> jobs[r].status = "absent"
  <1>1. ASSUME NEW q \in Run, NEW new \in JobRow, jobs' = [jobs EXCEPT ![q] = new],
               new.hash = jobs[q].hash, new.status # "absent", jobs[q].status # "absent"
        PROVE  \A r \in Run : Same(r)
    BY <1>1 DEF StoreTypeOK
  <1>2. ASSUME NEW q \in Run, RequestWorkflowJobCancellation(q)
        PROVE  \A r \in Run : Same(r)
    <2>1. jobs[q] \in JobRow
      BY DEF StoreTypeOK
    <2>2. CancelAsked(jobs[q]) \in JobRow
      BY <2>1, JobRowOps
    <2>3. CancelAsked(jobs[q]).hash = jobs[q].hash /\ CancelAsked(jobs[q]).status # "absent"
      BY <2>1 DEF CancelAsked, CancelledStatus, JobRow
    <2> QED BY <1>1, <1>2, <2>2, <2>3 DEF RequestWorkflowJobCancellation
  <1>3. ASSUME NEW q \in Run, NEW o \in Owner, CompleteWorkflowJob(o, q)
        PROVE  \A r \in Run : Same(r)
    <2>1. jobs[q] \in JobRow /\ jobs[q].status = "running"
      BY <1>3 DEF StoreTypeOK, CompleteWorkflowJob, HoldsRunning
    <2>2. Finished(jobs[q], "completed") \in JobRow
      BY <2>1, JobRowOps
    <2>3. /\ Finished(jobs[q], "completed").hash = jobs[q].hash
          /\ Finished(jobs[q], "completed").status # "absent"
      BY <2>1 DEF Finished, JobRow
    <2> QED BY <1>1, <1>3, <2>1, <2>2, <2>3 DEF CompleteWorkflowJob
  <1>4. ASSUME NEW q \in Run, NEW o \in Owner, ClaimWorkflowJobFair(o, q, {})
        PROVE  \A r \in Run : Same(r)
    <2>1. jobs[q] \in JobRow /\ jobs[q].status # "absent"
      BY <1>4 DEF StoreTypeOK, ClaimWorkflowJobFair, FirstClaimable, Claimable, Recoverable,
                  Startable
    <2>2. Finished(jobs[q], "failed") \in JobRow /\ Taken(jobs[q], o) \in JobRow
      BY <2>1, JobRowOps
    <2>3. \A new \in {Finished(jobs[q], "failed"), Taken(jobs[q], o)} :
              new.hash = jobs[q].hash /\ new.status # "absent"
      BY <2>1 DEF Finished, Taken, JobRow
    <2> QED BY <1>1, <1>4, <2>1, <2>2, <2>3 DEF ClaimWorkflowJobFair
  <1>5. CASE WindowElapses
    BY <1>5 DEF WindowElapses
  <1> QED BY <1>2, <1>3, <1>4, <1>5 DEF QueueStep

\* Every step keeps calls, graphs, revisions and rows in agreement.
LEMMA SubmissionInvStep ==
    ASSUME SubmissionInv, [SubmissionNext]_submissionVars
    PROVE  SubmissionInv'
  <1> USE Calls
  <1>1. StoreTypeOK'
    BY SubmissionStepIsStoreStep, StoreTypeStep DEF SubmissionInv, SubmissionTypeOK
  <1>2. SubmissionTypeOK /\ StoreTypeOK
    BY DEF SubmissionInv, SubmissionTypeOK
  \* A call that leaves the tables alone only has to bear its own answer out.
  <1>3. ASSUME NEW c \in Call, NEW a \in CallState, Answered(c, a), UNCHANGED storeVars,
               call[c] # "created",
               a # "created",
               a \in {"graphed", "revised"} => RunOf[c] \in graphs',
               a = "revised" => c \in revisions',
               a = "known" => JobFor(c).status # "absent" /\ SameContent(c),
               graphs \subseteq graphs', graphs' \subseteq Run,
               revisions \subseteq revisions', revisions' \subseteq Call
        PROVE  SubmissionInv'
    <2>1. call' \in [Call -> CallState] /\ \A d \in Call : d # c => call'[d] = call[d]
      BY <1>2, <1>3 DEF SubmissionTypeOK, Answered
    <2>2. call'[c] = a /\ UNCHANGED jobs
      BY <1>2, <1>3 DEF SubmissionTypeOK, Answered, storeVars
    <2>3. ASSUME NEW d \in Call PROVE CallInv(d)'
      BY <1>3, <2>1, <2>2 DEF SubmissionInv, CallInv, JobFor, SameContent
    <2>4. ASSUME NEW r \in Run PROVE RowOrigin(r)'
      BY <1>3, <2>1, <2>2 DEF SubmissionInv, RowOrigin
    <2> QED BY <1>1, <1>3, <2>1, <2>3, <2>4 DEF SubmissionInv, SubmissionTypeOK
  <1>4. ASSUME NEW c \in Call, LookUpJob(c)
        PROVE  SubmissionInv'
    <2>1. PICK a \in {"unknown", "unreadable", "known", "conflict"} :
              /\ Answered(c, a)
              /\ a = "known" => JobFor(c).status # "absent" /\ SameContent(c)
      BY <1>4 DEF LookUpJob
    <2>2. a \in CallState
      BY <2>1 DEF CallState, Answer
    <2> QED BY <1>2, <1>3, <1>4, <2>1, <2>2 DEF LookUpJob, SubmissionTypeOK
  <1>5. ASSUME NEW c \in Call, EnsureWorkflowGraphForRun(c)
        PROVE  SubmissionInv'
    <2>1. \E a \in {"graphed", "rejected"} :
              Answered(c, a) /\ (a = "graphed" => RunOf[c] \in graphs')
      BY <1>5 DEF EnsureWorkflowGraphForRun
    <2>2. graphs \subseteq graphs' /\ graphs' \subseteq Run
      BY <1>2, <1>5 DEF EnsureWorkflowGraphForRun, SubmissionTypeOK
    <2>3. {"graphed", "rejected"} \subseteq CallState
      BY DEF CallState, Answer
    <2> QED BY <1>2, <1>3, <1>5, <2>1, <2>2, <2>3
            DEF EnsureWorkflowGraphForRun, SubmissionTypeOK
  <1>6. ASSUME NEW c \in Call, CreateWorkflowRevision(c)
        PROVE  SubmissionInv'
    <2>1. "revised" \in CallState
      BY DEF CallState
    <2>2. RunOf[c] \in graphs'
      BY <1>6 DEF CreateWorkflowRevision, SubmissionInv, CallInv
    <2> QED BY <1>2, <1>3, <1>6, <2>1, <2>2 DEF CreateWorkflowRevision, SubmissionTypeOK
  <1>7. ASSUME NEW c \in Call, CallDies(c)
        PROVE  SubmissionInv'
    <2>1. "dead" \in CallState
      BY DEF CallState
    <2> QED BY <1>2, <1>3, <1>7, <2>1 DEF CallDies, SubmissionTypeOK
  <1>8. ASSUME NEW c \in Call, Admit(c)
        PROVE  SubmissionInv'
    <2>1. CASE UNCHANGED storeVars
      <3>1. \E a \in {"conflict", "limited"} : Answered(c, a)
        <4>1. ~AdmitNewWorkflowJob(RunOf[c], c)
          <5>1. ASSUME AdmitNewWorkflowJob(RunOf[c], c)
                PROVE  FALSE
            <6>1. jobs'[RunOf[c]] = NewJob(c)
              BY <1>2, <5>1 DEF AdmitNewWorkflowJob, StoreTypeOK
            <6> QED BY <2>1, <5>1, <6>1 DEF AdmitNewWorkflowJob, NewJob, NoJob, storeVars
          <5> QED BY <5>1
        <4> QED BY <1>8, <4>1 DEF Admit
      <3>2. {"conflict", "limited"} \subseteq CallState
        BY DEF CallState, Answer
      <3> QED BY <1>2, <1>3, <1>8, <2>1, <3>1, <3>2 DEF Admit, SubmissionTypeOK
    <2>2. CASE AdmitNewWorkflowJob(RunOf[c], c) /\ Answered(c, "created")
      <3>1. /\ jobs'[RunOf[c]] = NewJob(c)
            /\ \A r \in Run : r # RunOf[c] => jobs'[r] = jobs[r]
        BY <1>2, <2>2 DEF AdmitNewWorkflowJob, StoreTypeOK
      <3>2. NewJob(c).status # "absent" /\ NewJob(c).hash = c
        BY DEF NewJob, NoJob
      <3>3. /\ call'[c] = "created" /\ call' \in [Call -> CallState]
            /\ \A d \in Call : d # c => call'[d] = call[d]
        BY <1>2, <2>2 DEF Answered, SubmissionTypeOK, CallState, Answer
      <3>4. UNCHANGED <<graphs, revisions>> /\ call[c] = "revised"
            /\ jobs[RunOf[c]].status = "absent"
        BY <1>8, <2>2 DEF Admit, AdmitNewWorkflowJob
      <3>5. ASSUME NEW d \in Call PROVE CallInv(d)'
        <4>1. CASE d = c
          BY <3>1, <3>2, <3>3, <3>4, <4>1 DEF SubmissionInv, CallInv, JobFor
        <4>2. CASE d # c /\ RunOf[d] = RunOf[c]
          BY <3>3, <3>4, <4>2 DEF SubmissionInv, CallInv, JobFor
        <4>3. CASE d # c /\ RunOf[d] # RunOf[c]
          <5>1. jobs'[RunOf[d]] = jobs[RunOf[d]]
            BY <3>1, <4>3
          <5> QED BY <3>3, <3>4, <4>3, <5>1 DEF SubmissionInv, CallInv, JobFor, SameContent
        <4> QED BY <4>1, <4>2, <4>3
      <3>6. ASSUME NEW r \in Run PROVE RowOrigin(r)'
        <4>1. CASE r = RunOf[c]
          BY <3>1, <3>2, <3>3, <4>1 DEF RowOrigin
        <4>2. CASE r # RunOf[c]
          BY <3>1, <3>3, <3>4, <4>2 DEF SubmissionInv, RowOrigin
        <4> QED BY <4>1, <4>2
      <3> QED BY <1>1, <1>2, <3>3, <3>4, <3>5, <3>6 DEF SubmissionInv, SubmissionTypeOK
    <2> QED BY <1>8, <2>1, <2>2 DEF Admit
  <1>9. CASE QueueStep
    <2>1. UNCHANGED <<call, graphs, revisions>>
      BY <1>9 DEF QueueStep
    <2>2. \A r \in Run : /\ jobs'[r].hash = jobs[r].hash
                         /\ jobs'[r].status = "absent" <=> jobs[r].status = "absent"
      BY <1>2, <1>9, QueueStepKeepsJobs
    <2>3. ASSUME NEW d \in Call PROVE CallInv(d)'
      BY <2>1, <2>2 DEF SubmissionInv, CallInv, JobFor, SameContent
    <2>4. ASSUME NEW r \in Run PROVE RowOrigin(r)'
      BY <2>1, <2>2 DEF SubmissionInv, RowOrigin
    <2> QED BY <1>1, <1>2, <2>1, <2>3, <2>4 DEF SubmissionInv, SubmissionTypeOK
  <1>10. CASE UNCHANGED submissionVars
    BY <1>1, <1>10 DEF SubmissionInv, SubmissionTypeOK, CallInv, RowOrigin, JobFor, SameContent,
                       submissionVars, storeVars
  <1> QED
    BY <1>4, <1>5, <1>6, <1>7, <1>8, <1>9, <1>10 DEF SubmissionNext

LEMMA SubmissionInvariant == SubmissionSpec => []SubmissionInv
  <1>1. SubmissionInit => SubmissionInv
    <2> SUFFICES ASSUME SubmissionInit PROVE SubmissionInv
      OBVIOUS
    <2>1. StoreTypeOK
      BY DEF SubmissionInit, StoreInit, StoreTypeOK, NoJob, JobRow, RunStatus, NoSession,
             SessionRow, SessionStatus, SessionPhase, NoRate, RateRow
    <2>2. SubmissionTypeOK
      BY <2>1 DEF SubmissionInit, SubmissionTypeOK, CallState
    <2>3. \A r \in Run : jobs[r].status = "absent"
      BY DEF SubmissionInit, StoreInit, NoJob
    <2> QED BY <2>2, <2>3 DEF SubmissionInit, SubmissionInv, CallInv, RowOrigin
  <1> QED BY <1>1, SubmissionInvStep, PTL DEF SubmissionSpec

\* The state of every submission and of the tables it writes keeps its type.
THEOREM SubmissionTypeCorrect == SubmissionSpec => []SubmissionTypeOK
  <1>1. SubmissionInv => SubmissionTypeOK
    BY DEF SubmissionInv
  <1> QED BY <1>1, SubmissionInvariant, PTL

\* However many calls submit a run id at the same time, one of them is told it created the
\* run, and whoever is told the run is known submitted what the queue executes.
THEOREM OneCallCreatesARun == SubmissionSpec => []OneCreatedPerRun
  <1>1. SubmissionInv => OneCreatedPerRun
    BY DEF SubmissionInv, CallInv, OneCreatedPerRun, JobFor, SameContent
  <1> QED BY <1>1, SubmissionInvariant, PTL

\* A queued job has its graph and its revision stored, whichever calls died on the way.
THEOREM AdmittedRunsAreStored == SubmissionSpec => []AdmittedRunIsStored
  <1>1. SubmissionInv => AdmittedRunIsStored
    BY DEF SubmissionInv, CallInv, RowOrigin, AdmittedRunIsStored
  <1> QED BY <1>1, SubmissionInvariant, PTL

-----------------------------------------------------------------------------
(* What the rate limits charge *)

\* The runs the queue has taken from a user.
TakenFrom(u) == {r \in Run : jobs[r].status # "absent" /\ UserOf[r] = u}

ChargeInv == StoreTypeOK /\ OnlyAdmissionsAreCharged

\* Counting one submission adds at most one to what the window has counted.
LEMMA RateCountedBound ==
    ASSUME NEW row \in RateRow, NEW limit \in Nat
    PROVE  RateCounted(row, limit).count <= row.count + 1
  BY DEF RateCounted, RateRow

\* Each step charges a user at most what it takes from that user.
LEMMA ChargeInvStep ==
    ASSUME ChargeInv, [StoreNext]_storeVars
    PROVE  ChargeInv'
  <1> USE RowSets, Limits
  <1>1. StoreTypeOK /\ StoreTypeOK'
    BY StoreTypeStep DEF ChargeInv
  <1>2. \A u \in User : /\ IsFiniteSet(TakenFrom(u)) /\ IsFiniteSet(TakenFrom(u)')
                        /\ TakenFrom(u) \subseteq TakenFrom(u)'
    <2> SUFFICES ASSUME NEW u \in User
                 PROVE  /\ IsFiniteSet(TakenFrom(u)) /\ IsFiniteSet(TakenFrom(u)')
                        /\ TakenFrom(u) \subseteq TakenFrom(u)'
      OBVIOUS
    <2>1. TakenFrom(u) \subseteq Run /\ TakenFrom(u)' \subseteq Run
      BY DEF TakenFrom
    <2>2. IsFiniteSet(TakenFrom(u)) /\ IsFiniteSet(TakenFrom(u)')
      BY <2>1, FS_Subset
    <2>3. TakenFrom(u) \subseteq TakenFrom(u)'
      BY <1>1, JobsStay DEF TakenFrom
    <2> QED BY <2>2, <2>3
  <1>3. \A u \in User : userRate[u].count <= Cardinality(TakenFrom(u))
    BY DEF ChargeInv, OnlyAdmissionsAreCharged, TakenFrom
  \* Where nothing is charged the sets can only have grown.
  <1>4. ASSUME NEW u \in User, userRate'[u].count = userRate[u].count
        PROVE  userRate'[u].count <= Cardinality(TakenFrom(u)')
    <2>1. Cardinality(TakenFrom(u)) <= Cardinality(TakenFrom(u)')
      BY <1>2, FS_Subset
    <2>2. Cardinality(TakenFrom(u)) \in Nat /\ Cardinality(TakenFrom(u)') \in Nat
      BY <1>2, FS_CardinalityType
    <2>3. userRate[u].count \in Nat
      BY <1>1 DEF StoreTypeOK, RateRow
    <2>4. userRate[u].count <= Cardinality(TakenFrom(u))
      BY <1>3
    <2> QED BY <1>4, <2>1, <2>2, <2>3, <2>4
  <1>5. ASSUME NEW r \in Run, NEW h \in Hash, AdmitNewWorkflowJob(r, h)
        PROVE  \A u \in User : userRate'[u].count <= Cardinality(TakenFrom(u)')
    <2> SUFFICES ASSUME NEW u \in User
                 PROVE  userRate'[u].count <= Cardinality(TakenFrom(u)')
      OBVIOUS
    <2>1. CASE u # UserOf[r]
      <3>1. userRate'[u] = userRate[u]
        BY <1>1, <1>5, <2>1 DEF AdmitNewWorkflowJob, StoreTypeOK
      <3> QED BY <1>4, <3>1
    <2>2. CASE u = UserOf[r]
      <3>1. r \notin TakenFrom(u)
        BY <1>5 DEF AdmitNewWorkflowJob, TakenFrom
      <3>2. jobs'[r].status = "pending"
        BY <1>1, <1>5 DEF AdmitNewWorkflowJob, StoreTypeOK, NewJob, NoJob
      <3>3. r \in TakenFrom(u)'
        BY <2>2, <3>2 DEF TakenFrom
      <3>4. TakenFrom(u) \cup {r} \subseteq TakenFrom(u)'
        BY <1>2, <3>3
      <3>5. Cardinality(TakenFrom(u) \cup {r}) = Cardinality(TakenFrom(u)) + 1
        BY <1>2, <3>1, FS_AddElement
      <3>6. Cardinality(TakenFrom(u) \cup {r}) <= Cardinality(TakenFrom(u)')
        BY <1>2, <3>4, FS_Subset
      <3>7. userRate[u] \in RateRow
        BY <1>1 DEF StoreTypeOK
      <3>8. userRate'[u] = RateCounted(userRate[u], SubmissionsPerMinuteUser)
        BY <1>1, <1>5, <2>2 DEF AdmitNewWorkflowJob, StoreTypeOK
      <3>9. userRate'[u].count <= userRate[u].count + 1
        BY <3>7, <3>8, RateCountedBound
      <3>10. /\ userRate[u].count \in Nat /\ userRate'[u].count \in Nat
             /\ Cardinality(TakenFrom(u)) \in Nat /\ Cardinality(TakenFrom(u)') \in Nat
        BY <1>1, <1>2, FS_CardinalityType DEF StoreTypeOK, RateRow
      <3>11. userRate[u].count <= Cardinality(TakenFrom(u))
        BY <1>3
      <3> QED BY <3>5, <3>6, <3>9, <3>10, <3>11
    <2> QED BY <2>1, <2>2
  <1>6. ASSUME \A u \in User : userRate'[u].count = userRate[u].count
        PROVE  \A u \in User : userRate'[u].count <= Cardinality(TakenFrom(u)')
    BY <1>4, <1>6
  <1>7. ASSUME WindowElapses
        PROVE  \A u \in User : userRate'[u].count = userRate[u].count
    <2>1. \A row \in RateRow : [row EXCEPT !.over = TRUE].count = row.count
      BY DEF RateRow
    <2>2. \A u \in User : userRate[u] \in RateRow
      BY <1>1 DEF StoreTypeOK
    <2>3. UNCHANGED userRate \/ \E u \in User : userRate' = [userRate EXCEPT ![u].over = TRUE]
      BY <1>7 DEF WindowElapses
    <2>4. ASSUME NEW u \in User, userRate' = [userRate EXCEPT ![u].over = TRUE]
          PROVE  \A v \in User : userRate'[v].count = userRate[v].count
      <3>1. userRate \in [User -> RateRow]
        BY <1>1 DEF StoreTypeOK
      <3> QED BY <2>1, <2>2, <2>4, <3>1
    <2> QED BY <2>3, <2>4
  <1>8. ASSUME UNCHANGED userRate
        PROVE  \A u \in User : userRate'[u].count = userRate[u].count
    BY <1>8
  <1>9. ASSUME NEW r \in Run,
               \/ RequestWorkflowJobCancellation(r) \/ LeaseExpires(r) \/ RowWrite(r)
               \/ \E o \in Owner : OwnerCall(o, r)
               \/ \E h \in Hash : AdmitKnownWorkflowJob(r, h)
        PROVE  UNCHANGED userRate
    BY <1>9 DEF RequestWorkflowJobCancellation, LeaseExpires, RowWrite, UpsertWorkflowRun,
                UpsertSession, OwnerCall, ClaimWorkflowJobFair, HeartbeatWorkflowJob,
                ReleaseWorkflowJob, CompleteWorkflowJob, FailWorkflowJob, CancelWorkflowJob,
                AdmitKnownWorkflowJob, rateVars
  <1>10. UNCHANGED storeVars => UNCHANGED userRate
    BY DEF storeVars
  <1>11. \A u \in User : userRate'[u].count <= Cardinality(TakenFrom(u)')
    BY <1>5, <1>6, <1>7, <1>8, <1>9, <1>10 DEF StoreNext, AdmitWorkflowJob
  <1> QED BY <1>1, <1>11 DEF ChargeInv, OnlyAdmissionsAreCharged, TakenFrom

\* Whatever the callers of the queue do, what a user has spent in the current minute never
\* exceeds the runs the queue took from that user.
LEMMA ChargesFollowAdmissions == StoreSpec => []OnlyAdmissionsAreCharged
  <1>1. StoreInit => ChargeInv
    <2> SUFFICES ASSUME StoreInit PROVE ChargeInv
      OBVIOUS
    <2>1. StoreTypeOK
      BY DEF StoreInit, StoreTypeOK, NoJob, JobRow, RunStatus, NoSession, SessionRow,
             SessionStatus, SessionPhase, NoRate, RateRow
    <2>2. ASSUME NEW u \in User
          PROVE  userRate[u].count <= Cardinality(TakenFrom(u))
      <3>1. TakenFrom(u) = {}
        BY DEF StoreInit, NoJob, TakenFrom
      <3>2. Cardinality(TakenFrom(u)) = 0
        BY <3>1, FS_EmptySet
      <3>3. userRate[u].count = 0
        BY DEF StoreInit, NoRate
      <3> QED BY <3>2, <3>3
    <2> QED BY <2>1, <2>2 DEF ChargeInv, OnlyAdmissionsAreCharged, TakenFrom
  <1>2. ChargeInv => OnlyAdmissionsAreCharged
    BY DEF ChargeInv
  <1> QED BY <1>1, <1>2, ChargeInvStep, PTL DEF StoreSpec

\* Refused, repeated and dead submissions are free: the rate limit of a user counts
\* admissions only.
THEOREM SubmissionsAreChargedOnAdmission == SubmissionSpec => []OnlyAdmissionsAreCharged
  BY SubmissionsImplementStore, ChargesFollowAdmissions, PTL

\* The guarantees of the queue hold while runs are being submitted, retried and abandoned.
THEOREM SubmissionsKeepTheQueue ==
    SubmissionSpec => [](RowMatchesStatus /\ WithinLimits)
  BY SubmissionsImplementStore, RowsMatchTheirStatus, LimitsAreRespected, PTL
===============================================================================
