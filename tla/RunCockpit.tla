----------------------------- MODULE RunCockpit -----------------------------
(* The run page's panels: scenario lanes, service map, test order, raw logs, *)
(* diagnostics and activity, and the selection that they share.              *)
(*                                                                           *)
(* The events of the run (Journal) become known in any order, since replays  *)
(* and the stream race; snapshots bring statuses and diagnostics of the rows *)
(* and make new objects of all of them.  After every render the page's       *)
(* effects may move the selection; so may the user.                          *)
EXTENDS RunStatus, Sequences, SequencesExt, FiniteSets, FiniteSetsExt

CONSTANTS
    Lanes,              \* sequence of the definition's scenarios, each with one test
    Services,
    Diagnostics,        \* records [scenario, test, name, service, stage]
    Journal,            \* sequence of events [scenario, stage, status, service, diagnostic]
    TestName,           \* name of the test of each scenario
    TestService,        \* first target service of the test of each scenario
    OperationalLimit,   \* 2000: MAX_OPERATIONAL_WORKFLOW_EVENTS
    ActivityLimit       \* 12: events in the activity panel

ASSUME CockpitAssumption ==
    /\ Lanes # <<>> /\ {OperationalLimit, ActivityLimit} \subseteq Nat \ {0}
    /\ \A d \in Diagnostics :
         /\ d.scenario \in ToSet(Lanes) \cup {None}
         /\ d.service \in Services \cup {None}

VARIABLES
    shown,      \* positions of the events that the page knows
    rows,       \* [run, scenario, diagnostics, copy]: what the last snapshot said
    sel,        \* [scenario, key, service, raw]: the selection
    seen,       \* selectedDiagnostic when its effect last ran
    cause,      \* who changed the page last: "user" or "data"
    pressed     \* the lane that the user has just pressed

cockpitVars == <<shown, rows, sel, seen, cause, pressed>>

Newest(s, n) == SubSeq(s, IF Len(s) > n THEN Len(s) - n + 1 ELSE 1, Len(s))

Find(s, Test(_)) == LET hits == SelectSeq(s, Test) IN IF hits = <<>> THEN None ELSE Head(hits)

----------------------------------------------------------------------------
(* What the panels show.                                                    *)

(* mergeWorkflowRunEvents: by time, each event once.                        *)
RawEvents ==
    LET ids == SelectSeq([i \in DOMAIN Journal |-> i], LAMBDA i : i \in shown)
    IN  [i \in DOMAIN ids |-> Journal[ids[i]]]

AllEvents == Newest(RawEvents, OperationalLimit)

(* Diagnostics of the events, then those of the rows; the Map keeps the     *)
(* place of the first one with a key and the object of the last one.        *)
AllDiagnostics ==
    LET failures == SelectSeq(RawEvents, LAMBDA e : e.diagnostic # None)
        fromEvents == [i \in DOMAIN failures |-> failures[i].diagnostic]
    IN  FoldLeft(LAMBDA s, d : IF d \in ToSet(s) THEN s ELSE Append(s, d),
                 <<>>, fromEvents \o rows.diagnostics)

Object(d) == <<d, IF d \in ToSet(rows.diagnostics) THEN rows.copy ELSE "event">>

SelectedDiagnostic == IF sel.key \in ToSet(AllDiagnostics) THEN Object(sel.key) ELSE None

(* The inspector falls back to the first diagnostic.                        *)
Inspected ==
    IF sel.key \in ToSet(AllDiagnostics) THEN sel.key ELSE Find(AllDiagnostics, LAMBDA d : TRUE)

SelectedScenarioEvents == SelectSeq(AllEvents, LAMBDA e : e.scenario \in {None, sel.scenario})

Activity == Newest(SelectedScenarioEvents, ActivityLimit)

Stages == <<"queued", "provision", "execution", "cleanup", "complete">>

EventStage(stage) ==
    CASE stage \in {"provision", "execution", "cleanup"} -> stage
      [] stage = "aggregation" -> "complete"
      [] OTHER -> "queued"

StepState(index, current, failed, terminal) ==
    IF failed THEN "failed"
    ELSE IF index = Len(Stages) /\ terminal THEN "complete"
    ELSE IF index < current THEN "complete"
    ELSE IF index = current /\ ~terminal THEN "active"
    ELSE IF terminal /\ index <= current THEN "complete"
    ELSE "pending"

LaneEnded(s) == IsTerminal(ResolveScenarioPresentationStatus(rows.scenario[s], rows.run))

LaneStage(s) ==
    LET events == SelectSeq(AllEvents, LAMBDA e : e.scenario = s)
    IN  IF LaneEnded(s) THEN "complete"
        ELSE EventStage(IF events = <<>> THEN None ELSE events[Len(events)].stage)

(* The five steps of a scenario's lane.                                     *)
Lane(s) ==
    LET current == CHOOSE i \in DOMAIN Stages : Stages[i] = LaneStage(s)
        failed(i) == \E d \in ToSet(AllDiagnostics) : d.scenario = s /\ EventStage(d.stage) = Stages[i]
    IN  [i \in DOMAIN Stages |-> StepState(i, current, failed(i), LaneEnded(s))]

ServiceStateOf(e) ==
    IF e.stage = "provision" /\ e.status = "failed" THEN "failed"
    ELSE IF e.stage = "provision" /\ e.status = "ready" THEN "ready"
    ELSE IF e.stage = "provision" THEN "provisioning"
    ELSE IF e.stage = "execution" THEN "testing"
    ELSE IF e.stage = "cleanup" /\ e.status = "failed" THEN "failed"
    ELSE IF e.stage = "cleanup" /\ e.status = "completed" THEN "complete"
    ELSE IF e.stage = "cleanup" THEN "cleaning"
    ELSE None

(* The state of a service in the map: the last event of the selected        *)
(* scenario that names it, then the end of the scenario or the run.         *)
ServiceState(v) ==
    LET about == SelectSeq(SelectedScenarioEvents, LAMBDA e : e.service = v /\ ServiceStateOf(e) # None)
    IN  ReconcileServiceExecutionState(IF about = <<>> THEN "queued" ELSE ServiceStateOf(about[Len(about)]),
                                       IF sel.scenario = None THEN None ELSE rows.scenario[sel.scenario],
                                       rows.run)

----------------------------------------------------------------------------
(* Effects, in their order, each with the values of the render.             *)

(* A selected scenario that the definition lacks is replaced.               *)
DefaultScenario(s) ==
    IF s.scenario \in ToSet(Lanes) THEN s
    ELSE LET d == Find(AllDiagnostics, LAMBDA x : x.scenario # None)
         IN  [s EXCEPT !.scenario = IF d # None THEN d.scenario ELSE Head(Lanes)]

DefaultDiagnostic(s) ==
    IF sel.key = None /\ AllDiagnostics # <<>> THEN [s EXCEPT !.key = Head(AllDiagnostics)] ELSE s

(* Runs whenever the selected diagnostic is another object.                 *)
DiagnosticShown(s) ==
    IF SelectedDiagnostic \in {seen, None} THEN s
    ELSE [s EXCEPT !.raw = TRUE, !.service = sel.key.service,
                   !.scenario = IF sel.key.scenario = None THEN @ ELSE sel.key.scenario]

AfterEffects == DiagnosticShown(DefaultDiagnostic(DefaultScenario(sel)))

AtRest == AfterEffects = sel /\ SelectedDiagnostic = seen

Effects ==
    /\ ~AtRest
    /\ sel' = AfterEffects
    /\ seen' = SelectedDiagnostic
    /\ UNCHANGED <<shown, rows, cause, pressed>>

----------------------------------------------------------------------------
(* Data.                                                                    *)

EventShown(i) ==
    /\ i \notin shown
    /\ shown' = shown \cup {i}
    /\ cause' = "data" /\ pressed' = None
    /\ UNCHANGED <<rows, sel, seen>>

(* A snapshot: statuses only move on, diagnostics of failed scenarios are   *)
(* part of the rows, and every object is new.                               *)
SnapshotHydrated(run, statuses, found) ==
    /\ IsTerminal(rows.run) => run = rows.run
    /\ \A s \in ToSet(Lanes) : IsTerminal(rows.scenario[s]) => statuses[s] = rows.scenario[s]
    /\ ToSet(rows.diagnostics) \subseteq found
    /\ \A d \in found : d.scenario # None => statuses[d.scenario] = "failed"
    /\ rows' = [run |-> run, scenario |-> statuses, diagnostics |-> SetToSeq(found),
                copy |-> IF rows.copy = "odd" THEN "even" ELSE "odd"]
    /\ cause' = "data" /\ pressed' = None
    /\ UNCHANGED <<shown, sel, seen>>

----------------------------------------------------------------------------
(* The user, who acts on a page whose effects have run.                     *)

Input(selection, lane) ==
    /\ AtRest
    /\ sel' = selection
    /\ cause' = "user" /\ pressed' = lane
    /\ UNCHANGED <<shown, rows, seen>>

SelectScenario(s) ==
    LET first == Find(AllDiagnostics, LAMBDA d : d.scenario = s)
    IN  Input([sel EXCEPT !.scenario = s, !.key = first,
                          !.service = IF first = None THEN None ELSE first.service], s)

SelectService(v) ==
    LET relevant == Find(AllDiagnostics, LAMBDA d : d.service = v)
    IN  Input([sel EXCEPT !.service = v, !.raw = TRUE,
                          !.key = IF relevant = None THEN @ ELSE relevant], None)

(* A test of the selected scenario; its diagnostic is looked up by id or    *)
(* name among those of every scenario.                                      *)
SelectTest ==
    /\ sel.scenario # None
    /\ LET d == Find(AllDiagnostics, LAMBDA x : x.test = sel.scenario \/ x.name = TestName[sel.scenario])
       IN  Input([sel EXCEPT !.key = IF d = None THEN @ ELSE d,
                             !.service = TestService[sel.scenario], !.raw = d # None], None)

SelectDiagnostic(d) ==
    /\ d \in ToSet(AllDiagnostics)
    /\ Input([sel EXCEPT !.key = d, !.service = d.service,
                         !.scenario = IF d.scenario = None THEN @ ELSE d.scenario], None)

SelectActivity(e) ==
    /\ e \in ToSet(Activity)
    /\ Input([sel EXCEPT !.key = IF e.diagnostic = None THEN @ ELSE e.diagnostic,
                         !.service = e.service], None)

ClearFilter == sel.service # None /\ Input([sel EXCEPT !.service = None], None)

ToggleRawLogs == Input([sel EXCEPT !.raw = ~@], None)

----------------------------------------------------------------------------
CockpitInit ==
    /\ shown = {} /\ seen = None /\ cause = "data" /\ pressed = None
    /\ rows = [run |-> "pending", scenario |-> [s \in ToSet(Lanes) |-> "pending"],
               diagnostics |-> <<>>, copy |-> "even"]
    /\ sel = [scenario |-> None, key |-> None, service |-> None, raw |-> FALSE]

PageData ==
    \/ \E i \in DOMAIN Journal : EventShown(i)
    \/ \E run \in {"running", "partial_failed"},
          statuses \in [ToSet(Lanes) -> {"running", "failed"}],
          found \in SUBSET Diagnostics : SnapshotHydrated(run, statuses, found)

PanelUser ==
    \/ \E s \in ToSet(Lanes) : SelectScenario(s)
    \/ \E v \in Services : SelectService(v)
    \/ SelectTest
    \/ \E d \in Diagnostics : SelectDiagnostic(d)
    \/ \E e \in ToSet(Journal) : SelectActivity(e)
    \/ ClearFilter \/ ToggleRawLogs

CockpitNext == Effects \/ PageData \/ PanelUser

CockpitSpec == CockpitInit /\ [][CockpitNext]_cockpitVars

(* Effects run after every render.                                          *)
FairCockpitSpec == CockpitSpec /\ WF_cockpitVars(Effects)

----------------------------------------------------------------------------
(* The page's state has its type.                                           *)
CockpitTypeOK ==
    /\ shown \subseteq DOMAIN Journal
    /\ sel.scenario \in ToSet(Lanes) \cup {None}
    /\ sel.key \in ToSet(AllDiagnostics) \cup {None}
    /\ sel.service \in Services \cup {None}
    /\ sel.raw \in BOOLEAN

(* Once the effects have run, the scenario whose services, tests and events  *)
(* the page shows is the one that the inspected diagnostic is about, however *)
(* the diagnostic came to be selected.                                       *)
InspectorAgrees ==
    Inspected # None /\ AtRest => Inspected.scenario \in {None, sel.scenario}

(* The lanes and the service map of an ended run are at rest, whichever of   *)
(* its events the page has missed.                                           *)
EndedRunAtRest ==
    IsTerminal(rows.run) =>
        /\ \A s \in ToSet(Lanes) : \A i \in DOMAIN Stages : Lane(s)[i] \in {"complete", "failed"}
        /\ \A v \in Services : ServiceState(v) \in {"complete", "failed"}

(* The effects come to rest: they never chase each other for ever.           *)
EffectsSettle == []<>AtRest

(* A lane that was pressed is the selected one (docker.spec presses the lane *)
(* and expects aria-pressed).                                                *)
PressedLaneSelected == AtRest /\ pressed # None => sel.scenario = pressed
=============================================================================
