--------------------------- MODULE WorkflowBundle ---------------------------
(***************************************************************************)
(* The portable bundle of a workflow: what export writes, what import and  *)
(* clone accept and what they make of it.  A workflow is                   *)
(*   [name, nodes : service -> [label, registry], edges : id -> edge,      *)
(*    scenarios : Seq([tests : Seq(test), order : Seq(id)])]               *)
(* and a bundle is a workflow with a schema version.  A label is the name  *)
(* the label is sanitized to.  A test keeps its id, name, dependencies,    *)
(* target service and retry policy; its settings are TestForm's.           *)
(*                                                                         *)
(* A name is a sequence of words: <<"w">>, <<"w", "Copy">>, <<"w", "2">>.  *)
(* generateId is a counter: the n-th id given out is n.                    *)
(***************************************************************************)
EXTENDS Sequences, SequencesExt, EdgeModel

CONSTANT
  NameSuffixes \* <<"2", "3", ...>>: what is tried after a name, in this order

TestIds(tests) == {tests[i].id : i \in DOMAIN tests}

-----------------------------------------------------------------------------
(* Validation *)

\* The edges that make one service wait for another, as pairs of labels.
ReadinessPairs(w) ==
  LET Label(n) == w.nodes[n].label
      attached == {e \in DOMAIN w.edges :
                     {w.edges[e].source, w.edges[e].target} \subseteq DOMAIN w.nodes}
      Waits(e) == NormalizeEdge(w.edges[e])
  IN  {<<Label(Waits(e).source), Label(Waits(e).target)>> :
         e \in {f \in attached : Waits(f).readiness = "source_requires_target"}}
      \cup
      {<<Label(Waits(e).target), Label(Waits(e).source)>> :
         e \in {f \in attached : Waits(f).readiness = "target_requires_source"}}

\* A set of services each of which waits for another of the set: a cycle.
HasCycle(pairs) ==
  \E S \in SUBSET {p[1] : p \in pairs} :
     S # {} /\ \A a \in S : \E b \in S : <<a, b>> \in pairs

ValidateWorkflowGraph(w) ==
  DOMAIN w.nodes # {} /\ ~HasCycle(ReadinessPairs(w))

\* the scenario as such: every test once in the order, retry policies that fit
ValidateBundleScenario(sc) ==
  /\ sc.tests # <<>>
  /\ Cardinality(TestIds(sc.tests)) = Len(sc.tests)
  /\ IsInjective(sc.order)
  /\ ToSet(sc.order) = TestIds(sc.tests)
  /\ \A i \in DOMAIN sc.tests : sc.tests[i].retry \in {None, "transient", "never", "confirmed"}

\* the scenario against the services: targets and dependencies that exist
ValidateScenario(w, sc) ==
  \A i \in DOMAIN sc.tests :
    /\ sc.tests[i].target \in {w.nodes[n].label : n \in DOMAIN w.nodes}
    /\ sc.tests[i].needs \subseteq TestIds(sc.tests)

ValidateWorkflowBundle(b) ==
  /\ b.version \in {1, 2}
  /\ \A e \in DOMAIN b.edges :
       /\ b.edges[e].relation \in EdgeRelations \cup {None}
       /\ b.edges[e].readiness \in EdgeReadinessOptions \cup {None}
  /\ b.scenarios # <<>>
  /\ ValidateWorkflowGraph(b)
  /\ \A i \in DOMAIN b.scenarios :
       /\ ValidateBundleScenario(b.scenarios[i])
       /\ ValidateScenario(b, b.scenarios[i])

-----------------------------------------------------------------------------
(* Export *)

\* every service without its registry
SanitizeNodesForBundle(nodes) ==
  [n \in DOMAIN nodes |-> [nodes[n] EXCEPT !.registry = None]]

\* edges normalized, without the routes the layout computed
SanitizeEdgesForBundle(edges) ==
  [e \in DOMAIN edges |-> [NormalizeEdge(edges[e]) EXCEPT !.route = FALSE]]

\* the bundle; export fails when it is not valid
CreateWorkflowBundle(w) ==
  [version |-> 2, name |-> w.name,
   nodes |-> SanitizeNodesForBundle(w.nodes),
   edges |-> SanitizeEdgesForBundle(w.edges),
   scenarios |-> w.scenarios]

-----------------------------------------------------------------------------
(* Import *)

\* a version 1 edge needs review whatever it says
NormalizeForVersion(b) ==
  [e \in DOMAIN b.edges |->
     [NormalizeEdge(b.edges[e]) EXCEPT !.review = @ \/ b.version = 1]]

NormalizeWorkflowBundle(b) ==
  [b EXCEPT !.version = 2, !.edges = NormalizeForVersion(b)]

GetUniqueWorkflowName(base, existing) ==
  IF base \notin existing THEN base
  ELSE LET free == {i \in DOMAIN NameSuffixes : Append(base, NameSuffixes[i]) \notin existing}
       IN  Append(base, NameSuffixes[CHOOSE i \in free : \A j \in free : i <= j])

\* Mutant: the tests get new ids and the dependencies keep the old ones
CloneKeepsNeeds(sc, next) ==
  LET Fresh(id) == next + (CHOOSE i \in DOMAIN sc.tests : sc.tests[i].id = id)
  IN  [tests |-> [i \in DOMAIN sc.tests |-> [sc.tests[i] EXCEPT !.id = Fresh(@)]],
       order |-> [i \in DOMAIN sc.order |-> Fresh(sc.order[i])]]

\* every test gets the next id, the dependencies and the order follow
CloneScenarioForImport(sc, next) ==
  LET Fresh(id) == next + (CHOOSE i \in DOMAIN sc.tests : sc.tests[i].id = id)
  IN  [tests |-> [i \in DOMAIN sc.tests |->
                    [sc.tests[i] EXCEPT !.id = Fresh(@),
                                        !.needs = {Fresh(id) : id \in @ \cap TestIds(sc.tests)}]],
       order |-> [i \in DOMAIN sc.order |-> Fresh(sc.order[i])]]

\* how many ids the scenarios before the i-th take
IdsBefore(scenarios, i) ==
  FoldLeft(LAMBDA n, sc : n + Len(sc.tests), 0, SubSeq(scenarios, 1, i - 1))

MaterializeWorkflowBundle(b, existing, next) ==
  [name |-> GetUniqueWorkflowName(b.name, existing),
   nodes |-> SanitizeNodesForBundle(b.nodes),
   edges |-> NormalizeForVersion(b),
   scenarios |-> [i \in DOMAIN b.scenarios |->
                    CloneScenarioForImport(b.scenarios[i], next + IdsBefore(b.scenarios, i))]]

CreateClonedWorkflowBundle(w, existing, next) ==
  [MaterializeWorkflowBundle(CreateWorkflowBundle(w), existing, next)
     EXCEPT !.name = GetUniqueWorkflowName(Append(w.name, "Copy"), existing)]

-----------------------------------------------------------------------------
(* The runner's own validation of a bundle (pkg/workflowbundle), which the *)
(* browser's import does not ask                                           *)
RunnerAccepts(w) ==
  /\ \A n, k \in DOMAIN w.nodes : w.nodes[n].label = w.nodes[k].label => n = k
  /\ \A e \in DOMAIN w.edges :
       /\ {w.edges[e].source, w.edges[e].target} \subseteq DOMAIN w.nodes
       /\ w.edges[e].source # w.edges[e].target
  /\ ~HasCycle(ReadinessPairs(w))
  /\ \A i \in DOMAIN w.scenarios :
       LET tests == w.scenarios[i].tests
       IN  /\ \A j, k \in DOMAIN tests : tests[j].name = tests[k].name => j = k
           /\ ~HasCycle(UNION {{<<t.id, id>> : id \in t.needs} : t \in ToSet(tests)})

=============================================================================
