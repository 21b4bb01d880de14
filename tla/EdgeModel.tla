----------------------------- MODULE EdgeModel -----------------------------
(***************************************************************************)
(* The service graph of a workflow as the builder edits it: a function     *)
(* from service ids to nodes and one from edge ids to edges, and the pure  *)
(* operations the builder is made of.  A node keeps its place on the       *)
(* canvas ("free" where a person put it, "tidy" where the automatic layout *)
(* put it) and its configuration; an edge keeps its two ends, what flows   *)
(* along it, which end waits for the other, whether it still needs review, *)
(* whether it has a computed route and whether it was drawn by hand, from  *)
(* one handle to another.                                                  *)
(***************************************************************************)
EXTENDS Naturals, FiniteSets, Functions, TLC

CONSTANT None   \* an absent value

EdgeRelations == {"calls", "reads", "writes", "publishes", "consumes"}

EdgeReadinessOptions == {"none", "source_requires_target", "target_requires_source"}

QueueTypes == {"kafka", "rabbitmq"}

StoreTypes == {"postgres", "mysql", "mariadb", "redis", "memcached", "mongodb"}

ASSUME NoneAssumption == None \notin EdgeRelations \union EdgeReadinessOptions

ServiceTypes == {"generic", "nginx", "mockserver"} \union QueueTypes \union StoreTypes

DefaultReadiness(relation) ==
  IF relation \in {"reads", "consumes"} THEN "target_requires_source"
                                        ELSE "source_requires_target"

InferRelation(source, target) ==
  CASE source \in QueueTypes /\ target = "generic" -> "consumes"
    [] source = "generic" /\ target \in QueueTypes -> "publishes"
    [] source \in StoreTypes /\ target = "generic" -> "reads"
    [] source = "generic" /\ target \in StoreTypes -> "writes"
    [] OTHER -> "calls"

----------------------------------------------------------------------------

\* An edge stored by an earlier version lacks its relation or its readiness.
IsLegacy(edge) == edge.relation = None \/ edge.readiness = None

\* Mutant: the flag an edge already carries is not kept.
NormalizeLegacyOnly(edge) ==
  [edge EXCEPT !.relation = IF @ \in EdgeRelations THEN @ ELSE "calls",
               !.readiness = IF @ \in EdgeReadinessOptions THEN @ ELSE "source_requires_target",
               !.review = IsLegacy(edge)]

NormalizeEdge(edge) ==
  [edge EXCEPT !.relation = IF @ \in EdgeRelations THEN @ ELSE "calls",
               !.readiness = IF @ \in EdgeReadinessOptions THEN @ ELSE "source_requires_target",
               !.review = IsLegacy(edge) \/ @]

\* The function with the value for one more id, or another value for it.
Extend(f, id, value) == [x \in DOMAIN f \union {id} |-> IF x = id THEN value ELSE f[x]]

NormalizeEdges(edges) == [e \in DOMAIN edges |-> NormalizeEdge(edges[e])]

Touches(edge, services) == edge.source \in services \/ edge.target \in services

InvalidateRoutesForMovedNodes(edges, moved) ==
  [e \in DOMAIN edges |-> IF Touches(edges[e], moved)
                          THEN [edges[e] EXCEPT !.route = FALSE] ELSE edges[e]]

\* Mutant: the edges of a removed service stay.
RemoveNodeOnly(graph, service) ==
  [graph EXCEPT !.nodes = Restrict(@, DOMAIN @ \ {service})]

RemoveServiceFromGraph(graph, service) ==
  [nodes |-> Restrict(graph.nodes, DOMAIN graph.nodes \ {service}),
   edges |-> Restrict(graph.edges, {e \in DOMAIN graph.edges :
                                      ~Touches(graph.edges[e], {service})})]

\* React Flow's addEdge: a second edge between the same two ends is not added,
\* where an edge drawn from handle to handle and one without handles differ.
AddEdge(id, edge, edges) ==
  IF \E e \in DOMAIN edges : /\ edges[e].source = edge.source
                             /\ edges[e].target = edge.target
                             /\ edges[e].handles = edge.handles
  THEN edges ELSE Extend(edges, id, edge)

\* Every node gets a computed place; an edge gets a route when both ends exist.
LayoutArchitecture(graph) ==
  [nodes |-> [n \in DOMAIN graph.nodes |-> [graph.nodes[n] EXCEPT !.pos = "tidy"]],
   edges |-> [e \in DOMAIN graph.edges |->
                [graph.edges[e] EXCEPT
                   !.route = {graph.edges[e].source, graph.edges[e].target}
                               \subseteq DOMAIN graph.nodes]]]

\* Connections proposed to the author: of a service to those its configuration
\* names, and of a lone application to every dependency, unless there already.
SuggestConnections(graph, typeOf, references) ==
  LET services == DOMAIN graph.nodes
      applications == {n \in services : typeOf[n] = "generic"}
      likely == {p \in services \X services :
                   \/ p[2] \in references[p[1]]
                   \/ applications = {p[1]} /\ p[2] \notin applications}
  IN {p \in likely :
        /\ p[1] # p[2]
        /\ \A e \in DOMAIN graph.edges :
             ~ /\ graph.edges[e].source = p[1]
               /\ graph.edges[e].target = p[2]
               /\ graph.edges[e].relation = InferRelation(typeOf[p[1]], typeOf[p[2]])}

=============================================================================
