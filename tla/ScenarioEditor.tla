--------------------------- MODULE ScenarioEditor ---------------------------
(***************************************************************************)
(* The scenarios of one workflow in the browser: the scenario store        *)
(* (createScenario, updateScenario, deleteScenario, hydration), the        *)
(* ScenarioManager that lists, shows, reorders and edits them, the journey *)
(* view of the same scenario, and the order in which the translated        *)
(* scenario is run.                                                        *)
(*                                                                         *)
(* A step is its id: what the form does to a step is TestForm's.  A        *)
(* scenario keeps its steps twice, as `tests` and as the ids of            *)
(* `testOrder`, and every reader picks one of the two.  An updated_at is a *)
(* tick of `clock`; no two scenarios share one.                            *)
(***************************************************************************)
EXTENDS Naturals, Sequences, FiniteSets, SequencesExt

CONSTANTS
  Scenarios,      \* ids of scenarios of the workflow
  Steps,          \* ids of test steps
  None,           \* null
  Needs,          \* [Steps -> SUBSET Steps]: dependsOnTestIds of each step
  ServiceTypes,   \* types of the services of the workflow
  MaxClock,       \* bound: edits, local and hydrated
  MaxVersion,     \* bound: version of a scenario
  MaxSteps,       \* bound: steps of a scenario
  Foreign,        \* a scenario comes with a testOrder of its own (import, agent)
  Remote          \* scenarios are hydrated while the builder is open

ASSUME ScenarioEditorAssumption ==
  /\ None \notin Scenarios \cup Steps
  /\ Needs \in [Steps -> SUBSET Steps]
  /\ MaxClock \in Nat /\ MaxVersion \in Nat /\ MaxSteps \in Nat
  /\ Foreign \in BOOLEAN /\ Remote \in BOOLEAN

VARIABLES
  scenarios,      \* the store's map: None, or the scenario
  active,         \* activeScenarioIdByWorkflow of the workflow
  expandedTests,  \* the manager's open rows
  activeTestId,   \* the row being dragged
  used,           \* step ids generateId has given out
  clock,          \* the latest updated_at
  chosen          \* history: the scenario the user last selected or created

vars == <<scenarios, active, expandedTests, activeTestId, used, clock, chosen>>

-----------------------------------------------------------------------------
(* Orders *)

Lists == {s \in BoundedSeq(Steps, MaxSteps) : IsInjective(s)}

\* `tests` and `testOrder` as bundle validation lets them in: every step once,
\* no dependency on a step that is not there
StepLists ==
  {p \in Lists \X Lists : /\ ToSet(p[1]) = ToSet(p[2])
                          /\ \A id \in ToSet(p[1]) : Needs[id] \subseteq ToSet(p[1])}

\* every step is listed after the steps it depends on
NeedsFirst(run) == \A i, j \in 1..Len(run) : run[i] \in Needs[run[j]] => i < j

\* the store's deriveOrder: listed ids that exist, then the steps not listed
DeriveOrder(tests, order) ==
  LET existing == SelectSeq(order, LAMBDA id : id \in ToSet(tests))
  IN  existing \o SelectSeq(tests, LAMBDA id : id \notin ToSet(existing))

\* Mutant: the journey reads `tests` alone
JourneyAsListed(sc) == sc.tests

\* what the journey shows
OrderedScenarioTests(sc) ==
  LET ordered == SelectSeq(sc.order, LAMBDA id : id \in ToSet(sc.tests))
      seen    == ToSet(ordered)
  IN  ordered \o SelectSeq(sc.tests, LAMBDA id : id \notin seen)

\* what is run: the translated tests, each chained to the one before it
TranslatedTests(sc) ==
  LET orderedIds == SelectSeq(sc.order, LAMBDA id : id \in ToSet(sc.tests))
  IN  orderedIds \o SelectSeq(sc.tests, LAMBDA id : id \notin ToSet(orderedIds))

-----------------------------------------------------------------------------
(* The manager's view of the store *)

Stored == {s \in DOMAIN scenarios : scenarios[s] # None}

Listed == {s \in Stored : ~scenarios[s].deleted}

\* scenarios[0]: the list is sorted by updated_at, the newest first
FirstListed ==
  IF Listed = {} THEN None
  ELSE CHOOSE s \in Listed : \A t \in Listed : scenarios[s].stamp >= scenarios[t].stamp

\* activeScenario: the active one if the store has it, deleted or not
Shown == IF active \in Stored THEN active ELSE FirstListed

NewScenario == [tests |-> <<>>, order |-> <<>>, version |-> 1,
                stamp |-> clock + 1, deleted |-> FALSE]

\* every action ends with a render, whose effect closes the rows when
\* another scenario is shown
Render(rows) ==
  expandedTests' = IF Shown' = Shown THEN rows ELSE {}

\* updateScenario(id, {tests, testOrder}): version, updated_at, derived order
Updated(s, tests, order) ==
  /\ clock < MaxClock /\ scenarios[s].version < MaxVersion
  /\ clock' = clock + 1
  /\ scenarios' = [scenarios EXCEPT
       ![s].tests = tests, ![s].order = DeriveOrder(tests, order),
       ![s].version = @ + 1, ![s].stamp = clock + 1]

-----------------------------------------------------------------------------
(* The scenario list *)

\* New Scenario: createScenario and setActiveScenario
CreateScenario(s) ==
  /\ scenarios[s] = None /\ clock < MaxClock
  /\ clock' = clock + 1
  /\ scenarios' = [scenarios EXCEPT ![s] = NewScenario]
  /\ active' = s /\ chosen' = s
  /\ UNCHANGED <<activeTestId, used>>
  /\ Render(expandedTests)

\* a scenario of the list, or of the journey's strip, is pressed
SetActiveScenario(s) ==
  /\ s \in Listed
  /\ active' = s /\ chosen' = s
  /\ UNCHANGED <<scenarios, activeTestId, used, clock>>
  /\ Render(expandedTests)

\* the bin button of the shown scenario
DeleteScenario ==
  /\ Shown # None /\ clock < MaxClock /\ scenarios[Shown].version < MaxVersion
  /\ clock' = clock + 1
  /\ scenarios' = [scenarios EXCEPT ![Shown].deleted = TRUE, ![Shown].version = @ + 1,
                                    ![Shown].stamp = clock + 1]
  /\ active' = IF active = Shown THEN None ELSE active
  /\ chosen' = None
  /\ UNCHANGED <<activeTestId, used>>
  /\ Render(expandedTests)

\* a keystroke in the name or the description: neither copy of the order moves
RenameScenario ==
  /\ Shown # None
  /\ Updated(Shown, scenarios[Shown].tests, scenarios[Shown].order)
  /\ UNCHANGED <<active, activeTestId, used, chosen>>
  /\ Render(expandedTests)

-----------------------------------------------------------------------------
(* The steps of the shown scenario; each edit passes the ids of the new    *)
(* `tests` as the new testOrder                                            *)

AppendSteps(new) ==
  LET tests == scenarios[Shown].tests \o new
  IN  /\ Shown # None
      /\ Len(tests) <= MaxSteps
      /\ IsInjective(new) /\ ToSet(new) \cap used = {}
      /\ used' = used \cup ToSet(new)
      /\ Updated(Shown, tests, tests)
      /\ UNCHANGED <<active, activeTestId, chosen>>

\* a step made here depends on no other: no form sets dependsOnTestIds
Fresh == {id \in Steps \ used : Needs[id] = {}}

\* SCENARIO_RECIPES: the service types each recipe is for
RecipeTypes ==
  [http     |-> {"generic", "nginx", "mockserver"},
   redis    |-> {"redis"},
   database |-> {"postgres", "mysql", "mariadb"},
   queue    |-> {"kafka", "rabbitmq"}]

RecipeAvailable(kind) == RecipeTypes[kind] \cap ServiceTypes # {}

\* createScenarioRecipe: the Redis recipe is a write and a read
RecipeLength(kind) == IF kind = "redis" THEN 2 ELSE 1

\* the button of an available recipe: its steps are appended, all rows close
InsertRecipe ==
  \E kind \in {k \in DOMAIN RecipeTypes : RecipeAvailable(k)} :
    \E new \in [1..RecipeLength(kind) -> Fresh] : AppendSteps(new) /\ Render({})

\* Add test: the new step's row opens
AddTest ==
  \E id \in Fresh : AppendSteps(<<id>>) /\ Render(expandedTests \cup {id})

ToggleTest(id) ==
  /\ Shown # None /\ id \in ToSet(scenarios[Shown].tests)
  /\ expandedTests' = IF id \in expandedTests THEN expandedTests \ {id}
                                              ELSE expandedTests \cup {id}
  /\ UNCHANGED <<scenarios, active, activeTestId, used, clock, chosen>>

\* the row's own bin; the id stays among the expanded rows
DeleteStep(id) ==
  /\ Shown # None /\ id \in ToSet(scenarios[Shown].tests)
  /\ LET tests == SelectSeq(scenarios[Shown].tests, LAMBDA t : t # id)
     IN  Updated(Shown, tests, tests)
  /\ UNCHANGED <<active, activeTestId, used, chosen>>
  /\ Render(expandedTests)

\* the form of an open row reports a change of its step
UpdateStep(id) ==
  /\ Shown # None /\ id \in ToSet(scenarios[Shown].tests) /\ id \in expandedTests
  /\ Updated(Shown, scenarios[Shown].tests, scenarios[Shown].tests)
  /\ UNCHANGED <<active, activeTestId, used, chosen>>
  /\ Render(expandedTests)

-----------------------------------------------------------------------------
(* Dragging: the pointer holds the row, a hydration may come in between *)

HandleDragStart(id) ==
  /\ activeTestId = None
  /\ Shown # None /\ id \in ToSet(scenarios[Shown].tests)
  /\ activeTestId' = id
  /\ UNCHANGED <<scenarios, active, expandedTests, used, clock, chosen>>

IndexOf(s, x) == IF x \in ToSet(s) THEN CHOOSE i \in 1..Len(s) : s[i] = x ELSE 0

\* dnd-kit's arrayMove: index 0 here is its -1, the last element
ArrayMove(s, from, to) ==
  LET i == IF from = 0 THEN Len(s) ELSE from
      j == IF to = 0 THEN Len(s) ELSE to
  IN  InsertAt(RemoveAt(s, i), j, s[i])

\* Mutant: the two rows change places
DropSwaps(over) ==
  LET tests     == scenarios[Shown].tests
      oldIndex  == IndexOf(tests, activeTestId)
      newIndex  == IndexOf(tests, over)
      reordered == [tests EXCEPT ![oldIndex] = over, ![newIndex] = activeTestId]
  IN  /\ activeTestId # None
      /\ activeTestId' = None
      /\ UNCHANGED <<active, used, chosen>>
      /\ IF Shown = None \/ over \in {None, activeTestId} \/ 0 \in {oldIndex, newIndex}
         THEN UNCHANGED <<scenarios, expandedTests, clock>>
         ELSE Updated(Shown, reordered, reordered) /\ Render(expandedTests)

\* the row is dropped over another one, or over nothing
HandleDragEnd(over) ==
  LET tests     == scenarios[Shown].tests
      oldIndex  == IndexOf(tests, activeTestId)
      newIndex  == IndexOf(tests, over)
      reordered == ArrayMove(tests, oldIndex, newIndex)
  IN  /\ activeTestId # None
      /\ activeTestId' = None
      /\ UNCHANGED <<active, used, chosen>>
      /\ IF Shown = None \/ over \in {None, activeTestId} \/ 0 \in {oldIndex, newIndex}
         THEN UNCHANGED <<scenarios, expandedTests, clock>>
         ELSE Updated(Shown, reordered, reordered) /\ Render(expandedTests)

-----------------------------------------------------------------------------
(* Hydration: another browser's or an agent's copy arrives *)

\* the hydrated scenario is active only if no scenario was
ActiveAfterHydration(s) == IF active = None THEN s ELSE active

Hydrated(s, sc) ==
  /\ scenarios' = [scenarios EXCEPT ![s] = sc]
  /\ active' = ActiveAfterHydration(s)
  /\ used' = used \cup ToSet(sc.tests)
  /\ clock' = clock + 1
  /\ UNCHANGED <<activeTestId, chosen>>
  /\ Render(expandedTests)

\* a copy of s that another client can have made
RemoteCopies(s) ==
  {[tests |-> p[1], order |-> p[2], version |-> v, stamp |-> at, deleted |-> d] :
     p \in {q \in StepLists : \A t \in Stored \ {s} :
              ToSet(scenarios[t].tests) \cap ToSet(q[1]) = {}},
     v \in 1..MaxVersion, d \in BOOLEAN,
     at \in 0..(clock + 1) \ {scenarios[t].stamp : t \in Stored \ {s}}}

\* upsertScenarioFromSync: an older copy is refused
UpsertScenarioFromSync(s) ==
  /\ Remote /\ clock < MaxClock
  /\ \E sc \in RemoteCopies(s) :
       /\ s \in Stored => \/ scenarios[s].version < sc.version
                          \/ /\ scenarios[s].version = sc.version
                             /\ scenarios[s].stamp <= sc.stamp
       /\ Hydrated(s, sc)

\* replaceScenarioFromSync: whatever the store has is replaced
ReplaceScenarioFromSync(s) ==
  /\ Remote /\ clock < MaxClock
  /\ \E sc \in RemoteCopies(s) : Hydrated(s, sc)

-----------------------------------------------------------------------------
(* The workflow is opened empty, or with a scenario: a template's, whose    *)
(* two lists agree, or one of an import or an agent, where they need not   *)
Imported ==
  {[tests |-> p[1], order |-> p[2], version |-> 1, stamp |-> 0, deleted |-> FALSE] :
     p \in {q \in StepLists : Foreign \/ (q[1] = q[2] /\ NeedsFirst(q[1]))}}

Init ==
  /\ \E s \in Scenarios, sc \in Imported \cup {None} :
       /\ scenarios = [t \in Scenarios |-> IF t = s THEN sc ELSE None]
       /\ used = IF sc = None THEN {} ELSE ToSet(sc.tests)
  /\ active = None /\ chosen = None /\ activeTestId = None
  /\ expandedTests = {} /\ clock = 0

Idle == activeTestId = None

Choose ==
  /\ Idle
  /\ DeleteScenario \/ \E s \in Scenarios : CreateScenario(s) \/ SetActiveScenario(s)

EditSteps ==
  /\ Idle
  /\ \/ RenameScenario \/ InsertRecipe \/ AddTest
     \/ \E id \in Steps : ToggleTest(id) \/ DeleteStep(id) \/ UpdateStep(id)

Drag == \/ \E id \in Steps : HandleDragStart(id)
        \/ \E over \in Steps \cup {None} : HandleDragEnd(over)

Hydrate == \E s \in Scenarios : UpsertScenarioFromSync(s) \/ ReplaceScenarioFromSync(s)

Next == Choose \/ EditSteps \/ Drag \/ Hydrate

Spec == Init /\ [][Next]_vars

-----------------------------------------------------------------------------
(* Properties *)

Dropped == activeTestId # None /\ activeTestId' = None

\* Types: a step is in one scenario, an updated_at belongs to one scenario,
\* and the rows of the manager are steps.
ScenarioTypeOK ==
  /\ \A s \in Stored :
       /\ scenarios[s].tests \in Lists /\ scenarios[s].order \in Lists
       /\ scenarios[s].version \in 1..MaxVersion /\ scenarios[s].stamp \in 0..clock
       /\ scenarios[s].deleted \in BOOLEAN
       /\ ToSet(scenarios[s].tests) \subseteq used
  /\ active \in Stored \cup {None} /\ chosen \in Stored \cup {None}
  /\ expandedTests \subseteq Steps /\ activeTestId \in Steps \cup {None}
  /\ used \subseteq Steps /\ clock \in 0..MaxClock

\* The steps of the shown scenario run in the order in which the manager
\* lists them, after any sequence of insertions, deletions, recipes and drags.
ShownOrderRuns ==
  Shown # None => TranslatedTests(scenarios[Shown]) = scenarios[Shown].tests

\* The journey of a scenario and its translation for the runner order the
\* steps alike, whichever of the two copies of the order is behind.
JourneyRunsAlike ==
  \A s \in Stored : OrderedScenarioTests(scenarios[s]) = TranslatedTests(scenarios[s])

\* A run of any stored scenario has each of its steps exactly once.
RunsEachOnce ==
  \A s \in Stored : LET run == TranslatedTests(scenarios[s])
                    IN  IsInjective(run) /\ ToSet(run) = ToSet(scenarios[s].tests)

\* Only a drag changes the order in which the steps of a scenario run:
\* typing, adding and deleting leave the steps that remain in their order.
OnlyDragsReorder ==
  [][~Dropped => \A s \in Stored :
       LET before == TranslatedTests(scenarios[s])
           after  == TranslatedTests(scenarios'[s])
       IN  SelectSeq(before, LAMBDA id : id \in ToSet(after))
             = SelectSeq(after, LAMBDA id : id \in ToSet(before))]_vars

\* A drop moves the dragged row alone, and leaves every scenario alone whose
\* row is gone: a hydration during the drag does not redirect the move.
DragMovesDragged ==
  [][Dropped => \A s \in Stored :
       SelectSeq(scenarios[s].tests, LAMBDA id : id # activeTestId)
         = SelectSeq(scenarios'[s].tests, LAMBDA id : id # activeTestId)]_vars

\* A step runs after the steps it explicitly depends on.
DependencyFirst ==
  \A s \in Listed : NeedsFirst(TranslatedTests(scenarios[s]))
=============================================================================
