------------------------------ MODULE CycleWalk ------------------------------
(***************************************************************************)
(* detectCycles of scenario-translator.ts: the depth-first search behind   *)
(* "Circular dependencies detected", call by call.  Each of the frames     *)
(* is one activation of dfs: its node and the neighbours its loop has left *)
(* to visit.  The nodes of the frames are the `path' of the activation on  *)
(* top.  The order of the keys and of the neighbours is the order in which *)
(* nodes and edges were drawn, so that any order may occur.                *)
(***************************************************************************)
EXTENDS ServiceGraph, Sequences, SequencesExt

CONSTANT Nodes

VARIABLES
  graph,     \* the dependency graph
  roots,     \* the keys the outer loop has still to visit
  frames,    \* the activations of dfs
  visiting,
  finished,  \* the Set `visited': nodes whose dfs has returned
  cycles     \* the cycles found, each a path that ends where it begins

walkVars == <<graph, roots, frames, visiting, finished, cycles>>

Path == [i \in DOMAIN frames |-> frames[i].node]
Top == Last(frames)

WalkInit ==
  /\ graph \in [Nodes -> SUBSET Nodes]
  /\ roots = Nodes
  /\ frames = <<>>
  /\ visiting = {} /\ finished = {} /\ cycles = {}

\* path.slice(path.indexOf(node)).concat(node)
CycleAt(node) ==
  LET start == CHOOSE i \in DOMAIN Path : Path[i] = node /\ \A j \in 1 .. i - 1 : Path[j] # node
  IN  Append(SubSeq(Path, start, Len(Path)), node)

\* Mutant: a service that waits for itself is no cycle.
EnterUnlessSelf(node, under) ==
  IF node \in visiting
  THEN /\ cycles' = IF node = Top.node THEN cycles ELSE cycles \cup {CycleAt(node)}
       /\ frames' = under
       /\ UNCHANGED visiting
  ELSE IF node \in finished
  THEN frames' = under /\ UNCHANGED <<visiting, cycles>>
  ELSE /\ visiting' = visiting \cup {node}
       /\ frames' = Append(under, [node |-> node, left |-> graph[node]])
       /\ UNCHANGED cycles

\* dfs(node, path) up to its loop; `under' are the frames of the caller.
Enter(node, under) ==
  IF node \in visiting
  THEN /\ cycles' = cycles \cup {CycleAt(node)}
       /\ frames' = under
       /\ UNCHANGED visiting
  ELSE IF node \in finished
  THEN frames' = under /\ UNCHANGED <<visiting, cycles>>
  ELSE /\ visiting' = visiting \cup {node}
       /\ frames' = Append(under, [node |-> node, left |-> graph[node]])
       /\ UNCHANGED cycles

VisitRoot(node) ==
  /\ frames = <<>> /\ node \in roots
  /\ roots' = roots \ {node}
  /\ Enter(node, frames)
  /\ UNCHANGED <<graph, finished>>

VisitNeighbor(node) ==
  /\ frames # <<>> /\ node \in Top.left
  /\ Enter(node, [frames EXCEPT ![Len(frames)].left = @ \ {node}])
  /\ UNCHANGED <<graph, roots, finished>>

DfsReturns ==
  /\ frames # <<>> /\ Top.left = {}
  /\ frames' = Front(frames)
  /\ visiting' = visiting \ {Top.node}
  /\ finished' = finished \cup {Top.node}
  /\ UNCHANGED <<graph, roots, cycles>>

WalkNext == (\E node \in Nodes : VisitRoot(node) \/ VisitNeighbor(node)) \/ DfsReturns

WalkSpec == WalkInit /\ [][WalkNext]_walkVars /\ WF_walkVars(WalkNext)

WalkDone == roots = {} /\ frames = <<>>

-----------------------------------------------------------------------------

CycleWalkTypeOK ==
  /\ graph \in [Nodes -> SUBSET Nodes]
  /\ roots \cup visiting \cup finished \subseteq Nodes
  /\ \A i \in DOMAIN frames : frames[i].node \in Nodes /\ frames[i].left \subseteq Nodes
  /\ \A c \in cycles : Len(c) > 1 /\ \A i \in DOMAIN c : c[i] \in Nodes

\* The nodes being visited are those of the path, each once, and no finished node is among
\* them; that is what makes path.indexOf(node) find its node (scenario-translator.ts:697-698).
VisitingIsPath ==
  /\ visiting = {Path[i] : i \in DOMAIN Path}
  /\ \A i, j \in DOMAIN Path : Path[i] = Path[j] => i = j
  /\ visiting \cap finished = {}

\* Every cycle in the message is one: each service in it waits for the next, and it ends
\* where it began (scenario-translator.ts:151-156 prints them).
ReportedCyclesAreReal ==
  \A c \in cycles : c[1] = Last(c) /\ \A i \in 1 .. Len(c) - 1 : c[i + 1] \in graph[c[i]]

\* When the search is over, a graph with a cycle has been reported and one without has not.
CyclesFound == WalkDone => (cycles # {} <=> HasCycle(graph))

\* A service that is finished does not wait, at any distance, for a service that is not:
\* unless a cycle has been reported, everything it needs is finished (the reason that a
\* finished node is not walked again, scenario-translator.ts:701-703).
FinishedIsClosed ==
  cycles = {} => \A s \in finished : Reachable(graph, s) \subseteq finished

\* The report is right: there is one exactly when the graph has a cycle, and every cycle it
\* prints is a cycle of the graph.
CyclesReported == CyclesFound /\ ReportedCyclesAreReal

=============================================================================
