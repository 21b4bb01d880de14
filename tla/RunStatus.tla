----------------------------- MODULE RunStatus ------------------------------
(* The statuses of a run, its scenarios, tests and services, and how the     *)
(* browser derives the ones that it shows.                                   *)
EXTENDS Naturals

CONSTANT None       \* JavaScript's undefined

ActiveStatuses == {"pending", "running", "cancelling"}
RunStatuses == ActiveStatuses \cup
    {"cancelled", "completed", "failed", "partial_failed", "cleanup_failed"}
ScenarioStatuses == RunStatuses \ {"partial_failed"}
TestStatuses == {"pending", "running", "passed", "failed"}

IsWorkflowRunActive(status) == status \in ActiveStatuses
IsTerminal(status) == status # None /\ status \notin ActiveStatuses

ResolveScenarioLogStatus(current, status) ==
    IF status \in {"cleanup_failed", "failed", "completed"} THEN status
    ELSE IF current \in {"completed", "failed", "cleanup_failed"} THEN current
    ELSE "running"

ResolveScenarioTestStatus(current, results) ==
    IF "failed" \in results THEN "failed"
    ELSE IF results = {"passed"} THEN "completed"
    ELSE IF /\ results \cap {"running", "pending"} # {}
            /\ current \notin {"completed", "failed", "cleanup_failed"} THEN "running"
    ELSE current

ResolveScenarioPresentationStatus(scenario, workflow) ==
    IF IsTerminal(scenario) THEN scenario
    ELSE IF workflow \in {"completed", "cancelled", "cleanup_failed"} THEN workflow
    ELSE IF workflow \in {"failed", "partial_failed"} THEN "failed"
    ELSE IF scenario = None THEN "pending" ELSE scenario

NormalizeActiveTestStatus(status) ==
    CASE status \in {"started", "running", "retrying"} -> "running"
      [] status \in {"passed", "failed"} -> status
      [] OTHER -> "pending"

ReconcileTestExecutionStatus(event, stored, scenario, workflow) ==
    LET resolved == ResolveScenarioPresentationStatus(scenario, workflow)
    IN  IF stored \in {"passed", "failed"} THEN stored
        ELSE IF event \in {"passed", "failed"} THEN event
        ELSE IF ~IsTerminal(resolved) /\ ~IsTerminal(workflow)
             THEN NormalizeActiveTestStatus(IF event # None THEN event ELSE stored)
        ELSE IF resolved = "completed" THEN "not_recorded"
        ELSE IF event \in {"started", "running", "retrying"} \/ stored = "running" THEN "interrupted"
        ELSE "not_run"

ReconcileServiceExecutionState(current, scenario, workflow) ==
    IF /\ current # "failed"
       /\ \/ IsTerminal(ResolveScenarioPresentationStatus(scenario, workflow))
          \/ IsTerminal(workflow)
    THEN "complete" ELSE current
=============================================================================
