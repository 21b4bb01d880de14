--------------------------- MODULE MCWorkflowList ---------------------------
(* Small instances of the list of workflows and of bundles (BundleTrip).   *)
(* A behaviour is about one of them and leaves the other alone:            *)
(*   list     three workflows (two when not alone) with two kinds of data  *)
(*   trip     one export, import or clone of each small workflow and file  *)
EXTENDS WorkflowList

VARIABLES
  setting,
  \* of BundleTrip
  source, bundle, copy, phase, next

tripVars == <<source, bundle, copy, phase, next>>
mcVars == <<vars, tripVars, setting>>

\* the file and the template have the same name
MCFileName == <<"w">>
MCTemplateName == <<"w">>
MCBlankName == <<"New Workflow">>
MCSuffixes == <<"2", "3", "4", "5">>
MCMaxWorkflows == [b \in BOOLEAN |-> IF b THEN 3 ELSE 2]

\* which id a workflow gets and which slot a clone takes makes no difference
Symmetry == Permutations(Ids) \cup Permutations(CloneSlots)

-----------------------------------------------------------------------------
(* Two services, one edge, scenarios of one or two tests; the files that   *)
(* come from elsewhere also hold what the builder never writes.            *)

Test(id, name, needs, retry, target) ==
  [id |-> id, name |-> name, needs |-> needs, retry |-> retry, target |-> target]

First == Test(1, "a", {}, None, "api")

\* scenarios of the builder: any order, a name may come twice
Built ==
  {[tests |-> <<First>>, order |-> <<1>>]} \cup
  {[tests |-> <<First, Test(2, name, needs, retry, "db")>>, order |-> order] :
     name \in {"a", "b"}, needs \in {{}, {1}}, retry \in {None, "confirmed"},
     order \in {<<1, 2>>, <<2, 1>>}}

\* scenarios only a file can hold: a broken order, policy, target or dependency
Odd ==
  {[tests |-> <<First, Test(2, "b", needs, retry, target)>>, order |-> order] :
     needs \in {{}, {2}, {9}}, retry \in {None, "never_confirmed"},
     target \in {"db", "nowhere"}, order \in {<<1, 2>>, <<1>>, <<1, 1>>}}

Graph(registry, second, edges) ==
  [name |-> <<"w">>,
   nodes |-> [n \in {"n1", "n2"} |->
                IF n = "n1" THEN [label |-> "api", registry |-> registry]
                            ELSE [label |-> second, registry |-> None]],
   edges |-> edges]

Edge(target, relation, readiness) ==
  [source |-> "n1", target |-> target, relation |-> relation, readiness |-> readiness,
   review |-> FALSE, route |-> TRUE, handles |-> FALSE]

\* the edge as the builder keeps it, and as an earlier version kept it
Edges ==
  {[e \in {"e1"} |-> Edge("n2", "calls", readiness)] : readiness \in EdgeReadinessOptions}
  \cup {[e \in {"e1"} |-> Edge("n2", None, None)]}

\* to a service that is not there, and back to itself
OddEdges == {[e \in {"e1"} |-> Edge(target, "calls", "none")] : target \in {"n1", "n9"}}

With(graph, scenarios) ==
  [name |-> graph.name, nodes |-> graph.nodes, edges |-> graph.edges, scenarios |-> scenarios]

BuiltWorkflows ==
  {With(Graph(registry, "db", edges), scenarios) :
     registry \in {None, "private"}, edges \in Edges,
     scenarios \in {<<>>} \cup {<<sc>> : sc \in Built}
                          \cup {<<sc, [tests |-> <<First>>, order |-> <<1>>]>> : sc \in Built}}

WrittenFiles ==
  {[version |-> v, name |-> w.name, nodes |-> w.nodes, edges |-> w.edges,
    scenarios |-> w.scenarios] :
     v \in {1, 2, 3},
     w \in {With(Graph(None, second, edges), <<sc>>) :
              second \in {"db", "api"}, edges \in Edges \cup OddEdges, sc \in Built \cup Odd}}

Trip == INSTANCE BundleTrip WITH
  Workflows <- BuiltWorkflows, HandWritten <- WrittenFiles,
  Existing <- {<<"w">>, <<"w", "2">>, <<"w", "Copy">>}

-----------------------------------------------------------------------------
MCInit ==
  \/ /\ setting = "list" /\ Init
     /\ source = None /\ bundle = None /\ copy = None /\ phase = "source" /\ next = 10
  \/ setting = "trip" /\ Init /\ alone /\ Trip!Init

MCNext ==
  \/ setting = "list" /\ Next /\ UNCHANGED <<setting, tripVars>>
  \/ setting = "trip" /\ Trip!Next /\ UNCHANGED <<setting, vars>>

MCSpec == MCInit /\ [][MCNext]_mcVars

\* BundleTrip: a copy runs as its source does, under ids and a name of its own, with old
\* edges marked for review, and can be exported again.
CopyIsFaithful ==
  /\ Trip!BundleTypeOK /\ Trip!CopyRunsAlike /\ Trip!CopyHasOwnIds /\ Trip!CopyHasOwnName
  /\ Trip!OldEdgesReviewed /\ Trip!CopyIsExportable
=============================================================================
