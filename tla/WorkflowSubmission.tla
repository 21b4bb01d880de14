------------------------- MODULE WorkflowSubmission -------------------------
(***************************************************************************)
(* Submitting a workflow run (WorkflowService.Submit): concurrent HTTP     *)
(* calls, retries included, on top of the queue of WorkflowJobs.           *)
(*                                                                         *)
(* A call looks for a job of its run id, stores the workflow graph and an  *)
(* execution revision with a fresh id, and only then asks the queue to     *)
(* admit the job.  The revision id is part of the payload, so the request  *)
(* hash that reaches the queue identifies the call; the comparison of the  *)
(* first step leaves the revision id out.  The hash of a call is therefore *)
(* the call itself, and Content is what the first step compares.           *)
(***************************************************************************)
EXTENDS WorkflowJobs

CONSTANTS
    Call,           \* HTTP submissions
    RunOf,          \* [Call -> Run]: the run id chosen by the client
    Content         \* [Call -> payload without its revision id]

ASSUME Calls ==
    /\ Call \subseteq Hash
    /\ RunOf \in [Call -> Run]

VARIABLES
    call,           \* [Call -> CallState]: where each submission stands
    graphs,         \* runs whose workflow and scenario rows are stored
    revisions       \* execution revisions stored, by the call that made them

submissionVars == <<storeVars, call, graphs, revisions>>

\* The answers: created and known are 202, conflict is 409, limited is 429 or
\* 503, rejected is 400, unreadable is the failure to decrypt an erased payload.
Answer    == {"created", "known", "conflict", "limited", "rejected", "unreadable"}
CallState == {"new", "unknown", "graphed", "revised", "dead"} \cup Answer

SubmissionTypeOK ==
    /\ StoreTypeOK
    /\ call \in [Call -> CallState]
    /\ graphs \subseteq Run
    /\ revisions \subseteq Call

SubmissionInit ==
    /\ StoreInit
    /\ call = [c \in Call |-> "new"]
    /\ graphs = {}
    /\ revisions = {}

Answered(c, a) == call' = [call EXCEPT ![c] = a]

JobFor(c)      == jobs[RunOf[c]]
SameContent(c) == Content[JobFor(c).hash] = Content[c]

\* Mutant: any job of this run id will do.
LookUpJobByIdOnly(c) ==
    /\ call[c] = "new"
    /\ Answered(c, IF JobFor(c).status = "absent" THEN "unknown" ELSE "known")
    /\ UNCHANGED <<storeVars, graphs, revisions>>

\* The job of this run id, if there is one, decides the answer.
LookUpJob(c) ==
    /\ call[c] = "new"
    /\ \/ JobFor(c).status = "absent" /\ Answered(c, "unknown")
       \/ /\ JobFor(c).status # "absent"
          /\ Answered(c, IF ~JobFor(c).payload THEN "unreadable"
                         ELSE IF SameContent(c) THEN "known" ELSE "conflict")
    /\ UNCHANGED <<storeVars, graphs, revisions>>

\* ensureWorkflowGraphForRun, or its refusal of a graph of another project.
EnsureWorkflowGraphForRun(c) ==
    /\ call[c] = "unknown"
    /\ \/ Answered(c, "graphed") /\ graphs' = graphs \cup {RunOf[c]}
       \/ Answered(c, "rejected") /\ UNCHANGED graphs
    /\ UNCHANGED <<storeVars, revisions>>

\* Mutant: the revision is written on a best-effort basis.
CreateWorkflowRevisionLater(c) ==
    /\ call[c] = "graphed"
    /\ Answered(c, "revised")
    /\ UNCHANGED <<storeVars, graphs, revisions>>

CreateWorkflowRevision(c) ==
    /\ call[c] = "graphed"
    /\ revisions' = revisions \cup {c}
    /\ Answered(c, "revised")
    /\ UNCHANGED <<storeVars, graphs>>

\* Mutant: the rate limit is charged before the job is looked up.
AdmitChargesFirst(c) ==
    /\ call[c] = "revised"
    /\ \/ AdmitNewWorkflowJob(RunOf[c], c) /\ Answered(c, "created")
       \/ /\ JobFor(c).status # "absent"
          /\ userRate' = [userRate EXCEPT ![UserOf[RunOf[c]]] =
                              RateCounted(@, SubmissionsPerMinuteUser)]
          /\ Answered(c, "conflict")
          /\ UNCHANGED <<jobs, runs, sessions, projectRate>>
    /\ UNCHANGED <<graphs, revisions>>

\* The queue's answer: admitted, known with another hash, or over a limit.  (The
\* revision id is fresh, so the queue cannot know this call's hash already.)
Admit(c) ==
    /\ call[c] = "revised"
    /\ \/ AdmitNewWorkflowJob(RunOf[c], c) /\ Answered(c, "created")
       \/ /\ JobFor(c).status # "absent" /\ JobFor(c).hash # c
          /\ Answered(c, "conflict")
          /\ UNCHANGED storeVars
       \/ /\ JobFor(c).status = "absent"
          /\ ~AdmissionAllows(RunOf[c])
          /\ Answered(c, "limited")
          /\ UNCHANGED storeVars
    /\ UNCHANGED <<graphs, revisions>>

\* The client hangs up, a call fails, or the process dies.
CallDies(c) ==
    /\ call[c] \in {"unknown", "graphed", "revised"}
    /\ Answered(c, "dead")
    /\ UNCHANGED <<storeVars, graphs, revisions>>

\* Meanwhile the queue lives on.
QueueStep ==
    /\ \/ \E r \in Run : RequestWorkflowJobCancellation(r)
       \/ \E r \in Run, o \in Owner : ClaimWorkflowJobFair(o, r, {}) \/ CompleteWorkflowJob(o, r)
       \/ WindowElapses
    /\ UNCHANGED <<call, graphs, revisions>>

SubmissionNext ==
    \/ \E c \in Call :
          \/ LookUpJob(c) \/ EnsureWorkflowGraphForRun(c)
          \/ CreateWorkflowRevision(c) \/ Admit(c) \/ CallDies(c)
    \/ QueueStep

SubmissionSpec == SubmissionInit /\ [][SubmissionNext]_submissionVars

-----------------------------------------------------------------------------
(* Properties *)

\* Of all concurrent or repeated submissions of a run id at most one is told
\* that it created the run, and every other one that is accepted carries the
\* very workload the queue executes.
OneCreatedPerRun ==
    /\ \A c, d \in Call :
          call[c] = "created" /\ call[d] = "created" /\ RunOf[c] = RunOf[d] => c = d
    /\ \A c \in Call : call[c] \in {"created", "known"} => SameContent(c)

\* A job that a call put in the queue refers to a stored revision and a stored graph, whatever
\* calls died on the way: a worker never picks up a run without its snapshot.
AdmittedRunIsStored ==
    \A r \in Run : jobs[r].status # "absent" /\ jobs[r].hash \in Call =>
        r \in graphs /\ jobs[r].hash \in revisions

\* The rate limits charge admissions only: what a user has spent in the current
\* minute never exceeds the number of runs the queue took from that user, so
\* refused, repeated and dead submissions are free.
OnlyAdmissionsAreCharged ==
    \A u \in User :
        userRate[u].count <= Cardinality({r \in Run : /\ jobs[r].status # "absent"
                                                      /\ UserOf[r] = u})

\* "Duplicate submissions with the same run ID remain idempotent": a call with
\* the workload of the run's job is not turned away as a conflict or an error.
DuplicateIsIdempotent ==
    \A c \in Call : call[c] \in {"conflict", "unreadable"} => ~SameContent(c)
=============================================================================
