-------------------------- MODULE MCWorkflowService -------------------------
(* Bounded instances of WorkflowService for TLC: two workers, one run.  A  *)
(* behaviour has one of two settings: workers with two faults (the         *)
(* constants of the configuration), which may pause for longer than their  *)
(* lease or are fair; two scenarios at once of a run nobody cancels.       *)
EXTENDS WorkflowService, TLC

CONSTANTS r1, w1, w2, s1, s2, u1, p1, h1

VARIABLE setting

MCUserOf    == [r \in Run |-> u1]
MCProjectOf == [r \in Run |-> p1]
MCCreatedAt == [r \in Run |-> 1]

\* What the workers write: see WorkerWrites.
MCRunWrites     == {"running"} \cup FinishedRun
MCSessionWrites == {row \in SessionRow : row.status # "absent"}

Pair == INSTANCE WorkflowService WITH
            Scenario <- {s1, s2}, ScenarioConcurrency <- 2, MaxFaults <- 1

MCInit ==
    \/ setting = "one" /\ ServiceInit
    \/ setting = "pair" /\ Pair!ServiceInit /\ ~stalls

MCNext ==
    /\ \/ setting = "one" /\ ServiceNext
       \/ setting = "pair" /\ Pair!ServiceNext /\ \A r \in Run : ~jobs'[r].cancelRequested
    /\ UNCHANGED setting

mcVars == <<serviceVars, setting>>

\* ServiceFairness of the workers that do not stall.
Prompt == setting = "one" /\ ~stalls /\ UNCHANGED <<setting, stalls>>

MCFairness ==
    /\ \A w \in Worker : WF_mcVars(Prompt /\ JobStep(w)) /\ WF_mcVars(Prompt /\ HeartbeatStep(w))
    /\ \A w \in Worker, s \in Scenario : WF_mcVars(Prompt /\ ScenarioStep(w, s))
    /\ \A r \in Run : WF_mcVars(Prompt /\ AbandonedLeaseRunsOut(r))

MCSpec == MCInit /\ [][MCNext]_mcVars /\ MCFairness

\* ImplementsStore in each setting, with the setting's scenarios, and the types of
\* what the workers add to the queue.
WorkersImplementStore ==
    /\ [](IF setting = "pair" THEN Pair!ServiceTypeOK ELSE ServiceTypeOK)
    /\ IF setting = "pair" THEN Pair!StoreInit ELSE StoreInit
    /\ [][IF setting = "pair" THEN Pair!StoreNext ELSE StoreNext]_storeVars

\* JobSettles for the workers that do not stall.
PromptJobSettles ==
    \A r \in Run : (setting = "one" /\ ~stalls /\ jobs[r].status # "absent")
                      ~> (jobs[r].status \in Terminal)
=============================================================================
