------------------------ MODULE MCWorkflowSubmission ------------------------
(* Bounded instances of the queue and of the submissions to it.  A         *)
(* behaviour has one of three settings: four submissions beside a living   *)
(* queue; two runs whose owners issue any call at any time; four runs that *)
(* compete for the limits.                                                 *)
EXTENDS WorkflowSubmission, TLC

CONSTANTS r1, r2, r3, r4, o1, o2, u1, u2, p1, p2, h1, h2, s1, c1, c2, c3, c4

VARIABLE setting

\* One user owns three runs and shares a project with the other user, so the
\* user limits and the project limits each bind where the other does not.
MCUserOf    == r1 :> u1 @@ r2 :> u1 @@ r3 :> u1 @@ r4 :> u2
MCProjectOf == r1 :> p1 @@ r2 :> p1 @@ r3 :> p2 @@ r4 :> p1
\* Submissions of one clock tick, an earlier and a later one.
MCCreatedAt == r1 :> 2 @@ r2 :> 1 @@ r3 :> 2 @@ r4 :> 3

\* Two identical submissions of a run, one of the same run with another
\* workload, and one of a second run that competes for the limits.
MCRunOf   == c1 :> r1 @@ c2 :> r1 @@ c3 :> r1 @@ c4 :> r2
MCContent == c1 :> 1  @@ c2 :> 1  @@ c3 :> 2  @@ c4 :> 1

Leases == INSTANCE WorkflowJobs WITH
    Hash <- {h1, h2}, MaxQueuedGlobal <- 0, MaxQueuedPerUser <- 0, MaxQueuedPerProject <- 0,
    SubmissionsPerMinuteUser <- 0, SubmissionsPerMinuteProject <- 0,
    RunWrites <- {"completed"}, SessionWrites <- {[status |-> "completed", phase |-> "completed"]}

Capacity == INSTANCE WorkflowJobs WITH
    Owner <- {o1}, Hash <- {h1}, MaxRecoveries <- 0, MaxQueuedGlobal <- 2,
    SubmissionsPerMinuteUser <- 0, SubmissionsPerMinuteProject <- 0

MCInit == SubmissionInit /\ setting \in {"submissions", "leases", "capacity"}

\* Recoveries of a job whose cancellation was requested are not limited by the
\* code; the bounds keep them finite.
MCNext ==
    /\ \/ setting = "submissions" /\ SubmissionNext
       \/ /\ setting = "leases" /\ Leases!StoreNext
          /\ \A r \in {r3, r4} : jobs'[r] = jobs[r] /\ runs'[r] = runs[r]
          /\ \A r \in {r1, r2} : jobs'[r].recoveries <= 2
          /\ UNCHANGED <<call, graphs, revisions>>
       \/ /\ setting = "capacity" /\ Capacity!StoreNext
          /\ \A r \in Run : jobs'[r].recoveries <= 1
          /\ UNCHANGED <<call, graphs, revisions>>
    /\ UNCHANGED setting

MCSpec == MCInit /\ [][MCNext]_<<submissionVars, setting>>

\* Owners and hashes are interchangeable: nothing orders or names them.
Symmetry == Permutations({o1, o2}) \cup Permutations({h1, h2})
=============================================================================
