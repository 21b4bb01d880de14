----------------------------- MODULE RunLaunch ------------------------------
(***************************************************************************)
(* How a run is started from the builder: the Run button and its reasons   *)
(* for being disabled, the dialog that chooses scenarios, and execute(),   *)
(* which validates, flushes the unsynchronised changes and submits.        *)
(*                                                                         *)
(* execute() works on what its closure captured when the button was        *)
(* pressed; the flush and the submission are awaited, and the stores move  *)
(* on meanwhile.  isExecuting, the validation result and the dialog belong *)
(* to the mounted page and start afresh when it is left and entered again. *)
(***************************************************************************)
EXTENDS Integers, FiniteSets

CONSTANTS
    None,       \* no step, no request
    Scenarios,  \* ids of the scenarios the workflow may have
    CanRun,     \* activeProject.allowedActions includes "run"
    MaxEdits,   \* how many edits and hydrations happen, with and without disturbances
    MaxStarts   \* how many runs are started, likewise

ASSUME LaunchAssumption ==
    /\ IsFiniteSet(Scenarios)
    /\ CanRun \in BOOLEAN
    /\ {MaxEdits, MaxStarts} \subseteq [BOOLEAN -> Nat]

VARIABLES
    alone,      \* a setting: one author, in one browser, who stays on the page while
                \* a run is being started
    graph,      \* the nodes and edges on screen
    scen,       \* the scenarios of the workflow in the store
    secret,     \* credentials entered in this session for the private image
    queue,      \* the changes that wait to be synchronised
    result,     \* errors of validationResult
    open,       \* isRunDialogOpen
    selected,   \* selectedIds of the dialog
    chosen,     \* history: the scenarios ticked by the user's own hand
    executing,  \* isExecuting of the mounted page
    starts,     \* the calls of execute() that passed validation
    edits       \* edits and hydrations so far

vars == <<alone, graph, scen, secret, queue, result, open, selected, chosen, executing, starts, edits>>

page == <<result, open, selected, chosen, executing>>

-----------------------------------------------------------------------------
(* The workflow *)

\* What launching asks of a graph: its services, whether the dependencies of
\* its edges form a cycle, and whether an image needs registry credentials.
Graphs == [services : SUBSET {"app", "store"}, cyclic : BOOLEAN, private : BOOLEAN]

\* A scenario is absent, deleted, or has at most one step, with its target.
ScenarioStates == {"absent", "deleted", "empty", "app", "store"}

Runnable == {s \in Scenarios : scen[s] \notin {"absent", "deleted"}}

HasRunnableTest == \E s \in Runnable : scen[s] # "empty"

ValidateWorkflowGraph(g) ==
    (IF g.services = {} THEN {"no node"} ELSE {}) \cup (IF g.cyclic THEN {"cycle"} ELSE {})

ValidateScenario(g, state) ==
    IF state = "empty" THEN {"no test"}
    ELSE IF state \notin g.services THEN {"unknown service"} ELSE {}

MissingCredentials(g) == g.private /\ ~secret

\* The errors of every scenario, selected or not; those of the graph and of
\* the registries are found by execute() only.
GuidedValidationErrors == UNION {ValidateScenario(graph, scen[s]) : s \in Runnable}

DisplayedValidationErrors == GuidedValidationErrors \cup result

\* The first check that finds something decides.
ValidateSelection(ids) ==
    LET invalid == {s \in ids : ValidateScenario(graph, scen[s]) # {}}
    IN CASE ValidateWorkflowGraph(graph) # {} -> ValidateWorkflowGraph(graph)
         [] ValidateWorkflowGraph(graph) = {} /\ MissingCredentials(graph) -> {"credentials"}
         [] OTHER -> IF invalid = {} THEN {}
                     ELSE ValidateScenario(graph, scen[CHOOSE s \in invalid : TRUE])

CanExecute == graph.services # {} /\ Runnable # {} /\ ~executing

CanLaunchWorkflow ==
    /\ CanRun
    /\ CanExecute
    /\ HasRunnableTest
    /\ DisplayedValidationErrors = {}
    /\ queue = {}

RunDisabledReason ==
    IF executing THEN "starting"
    ELSE IF ~CanRun THEN "role"
    ELSE IF queue # {} THEN "syncing"
    ELSE IF graph.services = {} THEN "no service"
    ELSE IF Runnable = {} THEN "no scenario"
    ELSE IF ~HasRunnableTest THEN "no test step"
    ELSE IF DisplayedValidationErrors # {} THEN "errors"
    ELSE None

\* The last item of the guided checklist.
ReviewReady == graph.services # {} /\ HasRunnableTest /\ DisplayedValidationErrors = {}

-----------------------------------------------------------------------------
(* Editing, elsewhere in the builder *)

Edit == ~open /\ edits < MaxEdits[alone] /\ edits' = edits + 1

\* A service added or removed, a connection drawn or deleted, a registry
\* that asks for credentials.
EditGraph(g) ==
    /\ Edit
    /\ \/ \E n \in {"app", "store"} :
             g = [graph EXCEPT !.services = IF n \in @ THEN @ \ {n} ELSE @ \cup {n}]
       \/ g = [graph EXCEPT !.cyclic = ~@]
       \/ ~graph.private /\ g = [graph EXCEPT !.private = TRUE]
    /\ graph' = g
    /\ queue' = queue \cup {"graph"}
    /\ UNCHANGED <<scen, secret, page, starts>>

\* Creating a scenario, giving it a step, deleting it.
EditScenario(s, state) ==
    /\ Edit
    /\ \/ scen[s] = "absent" /\ state = "empty"
       \/ s \in Runnable /\ state \in {"deleted", "app", "store"} \ {scen[s]}
    /\ scen' = [scen EXCEPT ![s] = state]
    /\ queue' = queue \cup {s}
    /\ UNCHANGED <<graph, secret, page, starts>>

SetSecret ==
    /\ ~open /\ graph.private /\ ~secret
    /\ secret' = TRUE
    /\ UNCHANGED <<graph, scen, queue, page, starts, edits>>

\* A registry saved without authentication takes its credentials along.
ClearSecret ==
    /\ Edit /\ secret
    /\ secret' = FALSE
    /\ graph' = [graph EXCEPT !.private = FALSE]
    /\ queue' = queue \cup {"graph"}
    /\ UNCHANGED <<scen, page, starts>>

\* The background synchronisation gets a change through.
Synchronise(x) ==
    /\ x \in queue
    /\ queue' = queue \ {x}
    /\ UNCHANGED <<graph, scen, secret, page, starts, edits>>

\* Mutant: the dialog keeps what was ticked before.
KeepSelection(ids) == selected

\* The effect of the dialog on [open, scenarios]: everything is ticked.
SelectAll(ids) == IF open' THEN ids ELSE selected

\* A version from another browser.
Arrives == ~alone /\ edits < MaxEdits[alone] /\ edits' = edits + 1

HydrateGraph(g) ==
    /\ Arrives /\ "graph" \notin queue /\ g # graph
    /\ graph' = g
    /\ UNCHANGED <<scen, secret, queue, page, starts>>

HydrateScenario(s, state) ==
    /\ Arrives /\ s \notin queue /\ state # scen[s] /\ state # "absent"
    /\ scen' = [scen EXCEPT ![s] = state]
    /\ open' = open
    /\ selected' = SelectAll({t \in Scenarios : scen'[t] \notin {"absent", "deleted"}})
    /\ UNCHANGED <<graph, secret, queue, result, chosen, executing, starts>>

-----------------------------------------------------------------------------
(* The dialog *)

OpenDialog ==
    /\ ~open /\ open' = TRUE
    /\ selected' = SelectAll(Runnable)
    /\ chosen' = Runnable
    /\ UNCHANGED <<graph, scen, secret, queue, result, executing, starts, edits>>

\* Run workflow in the header, the footer, the review stage and on the canvas.
PressRun == CanLaunchWorkflow /\ OpenDialog

\* Ctrl+Enter asks for less than the buttons do.
PressRunShortcut == CanRun /\ CanExecute /\ OpenDialog

ToggleScenario(s) ==
    /\ open /\ ~executing /\ s \in Runnable
    /\ LET ticked == IF s \in selected THEN selected \ {s} ELSE selected \cup {s}
       IN selected' = ticked /\ chosen' = IF s \in ticked THEN chosen \cup {s} ELSE chosen \ {s}
    /\ UNCHANGED <<graph, scen, secret, queue, result, open, executing, starts, edits>>

CloseDialog ==
    /\ open /\ ~executing
    /\ open' = FALSE
    /\ UNCHANGED <<graph, scen, secret, queue, result, selected, chosen, executing, starts, edits>>

-----------------------------------------------------------------------------
(* execute() *)

SubmitEnabled == open /\ selected # {} /\ ~executing /\ DisplayedValidationErrors = {}

\* Validation fails: its errors are shown and the dialog stays open.
SubmitRefused ==
    /\ SubmitEnabled
    /\ ValidateSelection(selected) # {}
    /\ result' = ValidateSelection(selected)
    /\ UNCHANGED <<graph, scen, secret, queue, open, selected, chosen, executing, starts, edits>>

\* selectScenariosForRun finds every selected scenario: the dialog's effect has
\* dropped the others.  The flush is under way.
Submit ==
    /\ SubmitEnabled
    /\ Cardinality(starts) < MaxStarts[alone]
    /\ ValidateSelection(selected) = {}
    /\ result' = {}
    /\ executing' = TRUE
    /\ starts' = starts \cup
          {[id |-> Cardinality(starts) + 1, phase |-> "flush", here |-> TRUE,
            graph |-> graph, scen |-> [s \in selected |-> scen[s]], secret |-> secret,
            chosen |-> chosen, current |-> TRUE]}
    /\ UNCHANGED <<graph, scen, secret, queue, open, selected, chosen, edits>>

Replace(r, changes) == starts' = (starts \ {r}) \cup {changes}

\* The finally block: of the page that started it, if it is still mounted.
EndExecute(r, ok) ==
    /\ Replace(r, [r EXCEPT !.phase = IF ok THEN "accepted" ELSE "failed"])
    /\ executing' = IF r.here THEN FALSE ELSE executing

\* What the page shows is what the closure holds.
AsShown(r) == r.graph = graph /\ \A s \in DOMAIN r.scen : r.scen[s] = scen[s]

\* The flush ended with `left' unsynchronised; the workflow and the scenarios
\* are sent with the run, so that only a workflow the server has never seen
\* stops it.
FlushEnds(r, left) ==
    /\ r \in starts /\ r.phase = "flush"
    /\ left \subseteq queue
    /\ IF "insert" \in left
       THEN queue' = left /\ EndExecute(r, FALSE)
       ELSE /\ queue' = left \cup {"run"}
            /\ Replace(r, [r EXCEPT !.phase = "sent", !.current = AsShown(r)])
            /\ UNCHANGED executing
    /\ UNCHANGED <<graph, scen, secret, result, open, selected, chosen, edits>>

\* The runner's answer, or its absence.  An accepted run's page replaces the
\* builder, which starts afresh when the user comes back.
SubmissionEnds(r, ok) ==
    /\ r \in starts /\ r.phase = "sent"
    /\ IF ok
       THEN /\ starts' = {[x EXCEPT !.here = FALSE] : x \in starts \ {r}} \cup {[r EXCEPT !.phase = "accepted", !.here = FALSE]}
            /\ open' = FALSE /\ result' = {} /\ executing' = FALSE
       ELSE EndExecute(r, FALSE) /\ UNCHANGED <<open, result>>
    /\ UNCHANGED <<graph, scen, secret, queue, selected, chosen, edits>>

\* The page is left and entered again; execute() goes on.
LeaveAndReturn ==
    /\ alone => ~executing
    /\ result # {} \/ open \/ executing
    /\ open' = FALSE /\ result' = {} /\ executing' = FALSE
    /\ starts' = {[r EXCEPT !.here = FALSE] : r \in starts}
    /\ UNCHANGED <<graph, scen, secret, queue, selected, chosen, edits>>

\* The page is loaded again: credentials were kept in memory only.
Reload ==
    /\ secret /\ ~executing /\ \A r \in starts : r.phase \in {"accepted", "failed"}
    /\ secret' = FALSE
    /\ open' = FALSE /\ result' = {}
    /\ UNCHANGED <<graph, scen, queue, selected, chosen, executing, starts, edits>>

-----------------------------------------------------------------------------

Init ==
    /\ alone \in BOOLEAN
    /\ graph = [services |-> {"app"}, cyclic |-> FALSE, private |-> FALSE]
    /\ scen \in [Scenarios -> {"app", "absent"}]
    /\ secret = FALSE
    /\ queue \in {{}, {"insert"}}
    /\ result = {} /\ open = FALSE /\ selected = {} /\ chosen = {}
    /\ executing = FALSE /\ starts = {} /\ edits = 0

FlushOrAnswer ==
    \E r \in starts :
       \/ \E left \in SUBSET queue : FlushEnds(r, left)
       \/ \E ok \in BOOLEAN : SubmissionEnds(r, ok)

Step ==
    \/ \E g \in Graphs : EditGraph(g) \/ HydrateGraph(g)
    \/ \E s \in Scenarios, state \in ScenarioStates : EditScenario(s, state) \/ HydrateScenario(s, state)
    \/ SetSecret \/ ClearSecret
    \/ \E x \in queue : Synchronise(x)
    \/ PressRun \/ PressRunShortcut \/ CloseDialog
    \/ \E s \in Scenarios : ToggleScenario(s)
    \/ Submit \/ SubmitRefused
    \/ FlushOrAnswer
    \/ LeaveAndReturn \/ Reload

Next == Step /\ UNCHANGED alone

Spec == Init /\ [][Next]_vars

-----------------------------------------------------------------------------
(* Properties *)

(* Types of the launch state.  Ticked scenarios exist, so that              *)
(* selectScenariosForRun never meets a stale id.                            *)
LaunchTypeOK ==
    /\ alone \in BOOLEAN
    /\ graph \in Graphs
    /\ scen \in [Scenarios -> ScenarioStates]
    /\ {secret, open, executing} \subseteq BOOLEAN
    /\ queue \subseteq {"insert", "graph", "run"} \cup Scenarios
    /\ selected \subseteq Scenarios /\ chosen \subseteq Scenarios
    /\ open => selected \subseteq Runnable

Started == {r \in starts : r.phase \in {"sent", "accepted"}}

(* No two runs are being started at once, however often and by whatever way *)
(* Run is pressed.                                                          *)
OneStartAtATime == Cardinality({r \in starts : r.phase \in {"flush", "sent"}}) <= 1

(* A run that is submitted has an acyclic graph, credentials for its        *)
(* private images and only scenarios whose steps name its services.         *)
StartedValid ==
    \A r \in Started :
       /\ DOMAIN r.scen # {}
       /\ ~r.graph.cyclic
       /\ r.graph.private => r.secret
       /\ \A s \in DOMAIN r.scen : r.scen[s] \in r.graph.services

(* The scenarios that run are the ones the user left ticked.                *)
StartedAsChosen == \A r \in Started : DOMAIN r.scen = r.chosen

(* What is submitted is what the page shows at that moment.                 *)
StartedAsShown == \A r \in Started : r.current

(* What is started is valid, and for one author who stays on the page it is *)
(* what was ticked and shown, started once at a time.                       *)
StartsAsReviewed ==
    /\ LaunchTypeOK /\ StartedValid
    /\ alone => StartedAsChosen /\ StartedAsShown /\ OneStartAtATime

(* Every validation error that blocks the run is an error of the workflow   *)
(* as it is now.                                                            *)
BlockedByPresentErrors ==
    DisplayedValidationErrors \subseteq
       GuidedValidationErrors \cup ValidateWorkflowGraph(graph)
          \cup (IF MissingCredentials(graph) THEN {"credentials"} ELSE {})

(* The dialog's Run is there only once nothing waits to be synchronised.    *)
SyncedBeforeReview == SubmitEnabled => queue = {}

=============================================================================
