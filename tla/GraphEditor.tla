---------------------------- MODULE GraphEditor ----------------------------
(***************************************************************************)
(* The builder's service graph: the copy React Flow draws, the workflow in *)
(* the browser's store, and the handlers that change them.  A handler of   *)
(* useWorkflowGraph computes the next graph from the drawn one and, where  *)
(* the code says so, stores it; storing it makes the load effect draw the  *)
(* stored graph again.  React flushes those effects before the next click, *)
(* so an action includes them.  Three things happen between the clicks:    *)
(* the asynchronous layout, which takes the graph as it is when it starts  *)
(* and puts it back when it ends; a hydration that replaces the stored     *)
(* workflow; and a dialog that stays open with the copy it was opened on.  *)
(***************************************************************************)
EXTENDS EdgeModel

CONSTANTS
  TypeOf,        \* the service type of every possible service
  References,    \* the services each service's configuration names
  EdgeIds,       \* ids a new edge may get
  Configs,       \* configurations a service may have
  Blank,         \* the configuration an application starts with: no image yet
  Preset,        \* the configuration other services start with
  Choices,       \* relations the author may choose
  Openings,      \* the workflows the builder may be opened on
  Elsewhere,     \* the workflows a hydration may bring
  MaxEdits,      \* bound on user edits, with and without disturbances
  MaxLayouts     \* bound on layouts in flight

Services == DOMAIN TypeOf

Nodes == [pos : {"free", "tidy"}, cfg : Configs]

Edges == [source : Services, target : Services, relation : EdgeRelations \union {None},
          readiness : EdgeReadinessOptions \union {None}, review : BOOLEAN, route : BOOLEAN,
          handles : BOOLEAN]

Graphs == [nodes : UNION {[N -> Nodes] : N \in SUBSET Services},
           edges : UNION {[E -> Edges] : E \in SUBSET EdgeIds}]

\* Every edge joins two services of the graph.
Attached(g) ==
  \A e \in DOMAIN g.edges : {g.edges[e].source, g.edges[e].target} \subseteq DOMAIN g.nodes

\* Workflows are opened as a builder stored them, or as a bundle that was
\* validated: their edges are attached.
ASSUME GraphAssumption ==
  /\ {Blank, Preset} \subseteq Configs
  /\ Choices \subseteq EdgeRelations
  /\ \A g \in Openings \union Elsewhere : g \in Graphs /\ Attached(g)
  /\ MaxEdits \in [BOOLEAN -> Nat] /\ MaxLayouts \in Nat

VARIABLES
  alone,       \* a setting: there is one author, who waits for each layout and
               \* removes services with their buttons
  graph,       \* the nodes and edges drawn (and the refs that mirror them)
  store,       \* the workflow in the store
  layouts,     \* layouts being computed: the graph they started from, and whether to store
  autoLaid,    \* the first layout of this workflow has been started
  nodeDialog,  \* the service dialog: the node it was opened on, or None
  editing,     \* the id of the edge whose dialog is open, or None
  removal,     \* the service whose removal awaits confirmation, or None
  draft,       \* the guided connection form: None, "new" or an edge id
  wanted,      \* history: what the author's edits add up to
  confirmed,   \* history: edges whose meaning an author has confirmed
  edits        \* number of user edits so far

vars == <<alone, graph, store, layouts, autoLaid, nodeDialog, editing, removal, draft,
          wanted, confirmed, edits>>

\* What a graph says, without where it is drawn.
Meaning(g) ==
  [services |-> [n \in DOMAIN g.nodes |-> g.nodes[n].cfg],
   edges |-> [e \in DOMAIN g.edges |->
                LET edge == NormalizeEdge(g.edges[e])
                IN <<edge.source, edge.target, edge.relation>>]]

----------------------------------------------------------------------------
(* What follows every change.                                              *)

Loaded(g) == [g EXCEPT !.edges = NormalizeEdges(@)]

AutoLayoutDue(g) ==
  /\ ~autoLaid
  /\ DOMAIN g.nodes # {}
  /\ \A e \in DOMAIN g.edges : ~g.edges[e].route

\* The new graph is drawn; the first one with services is laid out, unstored.
Commit(g) ==
  /\ graph' = g
  /\ autoLaid' = (autoLaid \/ AutoLayoutDue(g))
  /\ layouts' = IF AutoLayoutDue(g) THEN layouts \union {[g |-> g, persist |-> FALSE]} ELSE layouts

\* updateWorkflowGraph and the effect that loads the stored workflow again.
Persist(g) ==
  /\ store' = g
  /\ Commit(Loaded(g))

Waited == alone => layouts = {}

Edit ==
  /\ edits < MaxEdits[alone]
  /\ Waited
  /\ edits' = edits + 1

\* The dialogs are modal: with one open the rest of the builder is out of reach.
NoDialog == nodeDialog = None /\ editing \notin DOMAIN graph.edges /\ removal = None

Still == UNCHANGED <<nodeDialog, editing, removal, draft>>

----------------------------------------------------------------------------
(* Services.                                                               *)

DefaultConfig(n) == IF TypeOf[n] = "generic" THEN Blank ELSE Preset

AddNode(n, node) == Persist([graph EXCEPT !.nodes = Extend(@, n, node)])

HandleAddNode(n) ==
  /\ Edit /\ NoDialog
  /\ n \in Services \ (DOMAIN graph.nodes \union DOMAIN store.nodes)
  /\ AddNode(n, [pos |-> "free", cfg |-> DefaultConfig(n)])
  /\ wanted' = [wanted EXCEPT !.services = Extend(@, n, DefaultConfig(n))]
  /\ Still /\ UNCHANGED confirmed

OpenNodeConfig(n) ==
  /\ NoDialog /\ Waited
  /\ n \in DOMAIN graph.nodes
  /\ nodeDialog' = [id |-> n, node |-> graph.nodes[n]]
  /\ UNCHANGED <<graph, store, layouts, autoLaid, editing, removal, draft, wanted, confirmed, edits>>

\* Mutant: the change is drawn and not stored.
UpdateNodeDrawn(node, id) ==
  /\ Commit([graph EXCEPT !.nodes = [n \in DOMAIN @ |-> IF n = id THEN node ELSE @[n]]])
  /\ UNCHANGED store

\* updateNode replaces the node by the whole copy the dialog was opened on.
UpdateNode(node, id) ==
  Persist([graph EXCEPT !.nodes = [n \in DOMAIN @ |-> IF n = id THEN node ELSE @[n]]])

SaveNodeConfig(cfg) ==
  /\ Edit /\ nodeDialog # None
  /\ TypeOf[nodeDialog.id] = "generic" => cfg # Blank
  /\ UpdateNode([nodeDialog.node EXCEPT !.cfg = cfg], nodeDialog.id)
  /\ wanted' = [wanted EXCEPT !.services =
                  [n \in DOMAIN @ |-> IF n = nodeDialog.id THEN cfg ELSE @[n]]]
  /\ nodeDialog' = None
  /\ UNCHANGED <<editing, removal, draft, confirmed>>

RequestRemoval(n) ==
  /\ NoDialog /\ n \in DOMAIN graph.nodes
  /\ removal' = n
  /\ UNCHANGED <<graph, store, layouts, autoLaid, nodeDialog, editing, draft, wanted, confirmed, edits>>

CloseDialogs ==
  /\ ~NoDialog \/ draft # None
  /\ nodeDialog' = None /\ editing' = None /\ removal' = None /\ draft' = None
  /\ UNCHANGED <<graph, store, layouts, autoLaid, wanted, confirmed, edits>>

WantRemoved(n) ==
  wanted' = [services |-> Restrict(wanted.services, DOMAIN wanted.services \ {n}),
             edges |-> Restrict(wanted.edges, {e \in DOMAIN wanted.edges :
                                                 n \notin {wanted.edges[e][1], wanted.edges[e][2]}})]

DeleteNode(n) == Persist(RemoveServiceFromGraph(graph, n)) /\ WantRemoved(n)

ConfirmServiceRemoval ==
  /\ Edit /\ removal # None
  /\ DeleteNode(removal)
  /\ removal' = None
  /\ UNCHANGED <<nodeDialog, editing, draft, confirmed>>

\* The trash button of a node on the canvas asks nothing.
DeleteOnCanvas(n) ==
  /\ Edit /\ NoDialog /\ n \in DOMAIN graph.nodes
  /\ DeleteNode(n)
  /\ Still /\ UNCHANGED confirmed

\* onEdgesChange with removals.
EdgesRemoved(gone) == Persist([graph EXCEPT !.edges = Restrict(@, DOMAIN @ \ gone)])

\* Delete or Backspace on a selected service: React Flow reports the removal of
\* its edges, which is stored with the nodes of before, and then the removal of
\* the node, which is only drawn; the load effect that follows a store restores it.
PressDelete(n) ==
  LET gone == {e \in DOMAIN graph.edges : Touches(graph.edges[e], {n})}
  IN /\ ~alone
     /\ Edit /\ NoDialog /\ n \in DOMAIN graph.nodes
     /\ IF gone # {}
        THEN EdgesRemoved(gone)
        ELSE /\ Commit([graph EXCEPT !.nodes = Restrict(@, DOMAIN @ \ {n})])
             /\ UNCHANGED store
     /\ WantRemoved(n)
     /\ Still /\ UNCHANGED confirmed

\* While a service is dragged its place changes on the canvas only; dropping it
\* stores the graph.
Drag(n, dropped) ==
  LET moved == [nodes |-> [graph.nodes EXCEPT ![n].pos = "free"],
                edges |-> InvalidateRoutesForMovedNodes(graph.edges, {n})]
  IN /\ NoDialog /\ n \in DOMAIN graph.nodes
     /\ IF dropped THEN Edit /\ Persist(moved)
                   ELSE Waited /\ Commit(moved) /\ UNCHANGED <<store, edits>>
     /\ Still /\ UNCHANGED <<wanted, confirmed>>

----------------------------------------------------------------------------
(* Connections.                                                            *)

EdgeBetween(source, target, relation, handles) ==
  [source |-> source, target |-> target, relation |-> relation,
   readiness |-> DefaultReadiness(relation), review |-> FALSE, route |-> FALSE,
   handles |-> handles]

WantEdge(id, edge, edges) ==
  wanted' = [wanted EXCEPT !.edges =
               IF edges = graph.edges THEN @
               ELSE Extend(@, id, <<edge.source, edge.target, edge.relation>>)]

FreshEdge(id) == id \in EdgeIds \ (DOMAIN graph.edges \union DOMAIN store.edges \union DOMAIN wanted.edges)

\* Drawing an arrow: the relation is inferred, and the edge's dialog opens.
ConnectNodes(source, target, id) ==
  LET relation == InferRelation(TypeOf[source], TypeOf[target])
      edge == EdgeBetween(source, target, relation, TRUE)
      edges == AddEdge(id, edge, graph.edges)
  IN /\ Edit /\ NoDialog /\ FreshEdge(id)
     /\ source # target /\ {source, target} \subseteq DOMAIN graph.nodes
     /\ Persist([graph EXCEPT !.edges = edges])
     /\ editing' = id
     /\ confirmed' = confirmed \union {id}
     /\ WantEdge(id, edge, edges)
     /\ UNCHANGED <<nodeDialog, removal, draft>>

OpenEdge(id) ==
  /\ NoDialog /\ id \in DOMAIN graph.edges
  /\ editing' = id
  /\ UNCHANGED <<graph, store, layouts, autoLaid, nodeDialog, removal, draft, wanted, confirmed, edits>>

UpdateEdge(id, relation) ==
  LET edge == [graph.edges[id] EXCEPT !.relation = relation, !.review = FALSE]
  IN /\ Persist([graph EXCEPT !.edges[id] = edge])
     /\ confirmed' = confirmed \union {id}
     /\ wanted' = [wanted EXCEPT !.edges =
                     [e \in DOMAIN @ |-> IF e = id THEN <<edge.source, edge.target, relation>> ELSE @[e]]]

ConfirmEdge(relation) ==
  /\ Edit /\ editing \in DOMAIN graph.edges
  /\ UpdateEdge(editing, relation)
  /\ editing' = None
  /\ UNCHANGED <<nodeDialog, removal, draft>>

\* The Confirm button of a guided connection that needs review.
ConfirmConnection(id) ==
  /\ Edit /\ NoDialog
  /\ id \in DOMAIN graph.edges /\ graph.edges[id].review
  /\ UpdateEdge(id, graph.edges[id].relation)
  /\ Still

\* deleteEdge, and Delete on a selected edge.
DeleteEdge(id) ==
  /\ Edit /\ NoDialog /\ id \in DOMAIN graph.edges
  /\ EdgesRemoved({id})
  /\ wanted' = [wanted EXCEPT !.edges = Restrict(@, DOMAIN @ \ {id})]
  /\ Still /\ UNCHANGED confirmed

OpenDraft(id) ==
  /\ NoDialog /\ draft = None
  /\ id = "new" \/ id \in DOMAIN graph.edges
  /\ draft' = id
  /\ UNCHANGED <<graph, store, layouts, autoLaid, nodeDialog, editing, removal, wanted, confirmed, edits>>

\* The edge a guided definition replaces: the one it was opened on, or one with
\* the same ends and relation.
Existing(id, source, target, relation) ==
  {e \in DOMAIN graph.edges :
     IF id = "new" THEN /\ graph.edges[e].source = source
                        /\ graph.edges[e].target = target
                        /\ graph.edges[e].relation = relation
                   ELSE e = id}

SaveGuidedEdge(id, source, target, relation, fresh) ==
  LET existing == Existing(id, source, target, relation)
  IN /\ Edit /\ NoDialog /\ FreshEdge(fresh)
     /\ source # target /\ {source, target} \subseteq DOMAIN graph.nodes
     /\ \E key \in IF existing = {} THEN {fresh} ELSE existing :
          LET edge == EdgeBetween(source, target, relation,
                                  existing # {} /\ graph.edges[key].handles)
              edges == IF existing = {} THEN AddEdge(fresh, edge, graph.edges)
                                        ELSE [graph.edges EXCEPT ![key] = edge]
          IN /\ Persist([graph EXCEPT !.edges = edges])
             /\ confirmed' = confirmed \union {key}
             /\ WantEdge(key, edge, edges)

SaveDraft(source, target, relation, fresh) ==
  /\ draft # None
  /\ SaveGuidedEdge(draft, source, target, relation, fresh)
  /\ draft' = None
  /\ UNCHANGED <<nodeDialog, editing, removal>>

AcceptSuggestion(source, target, fresh) ==
  /\ <<source, target>> \in SuggestConnections(graph, TypeOf, References)
  /\ SaveGuidedEdge("new", source, target, InferRelation(TypeOf[source], TypeOf[target]), fresh)
  /\ Still

----------------------------------------------------------------------------
(* What happens between the clicks.                                        *)

TidyLayout ==
  /\ Edit /\ NoDialog
  /\ Cardinality(layouts) < MaxLayouts
  /\ layouts' = layouts \union {[g |-> graph, persist |-> TRUE]}
  /\ Still /\ UNCHANGED <<graph, store, autoLaid, wanted, confirmed>>

LayoutDone(l) ==
  LET g == LayoutArchitecture(l.g)
  IN /\ l \in layouts
     /\ layouts' = layouts \ {l}
     /\ store' = IF l.persist THEN g ELSE store
     /\ graph' = IF l.persist THEN Loaded(g) ELSE g
     /\ UNCHANGED <<autoLaid, wanted, confirmed, edits>> /\ Still

\* A pull replaces the stored workflow by a newer version of it.
Hydrated(g) ==
  /\ ~alone /\ edits < MaxEdits[alone]
  /\ Persist(g)
  /\ wanted' = Meaning(g)
  /\ confirmed' = confirmed \union {e \in DOMAIN g.edges : ~NormalizeEdge(g.edges[e]).review}
  /\ edits' = edits + 1
  /\ Still

----------------------------------------------------------------------------

\* Both ends of a route stand where the layout that computed it put them.
RoutesLead(g) ==
  \A e \in DOMAIN g.edges :
    g.edges[e].route => \A n \in {g.edges[e].source, g.edges[e].target} : g.nodes[n].pos = "tidy"

Init ==
  /\ store \in Openings
  /\ alone \in BOOLEAN /\ (alone => RoutesLead(store))
  /\ graph = Loaded(store)
  /\ wanted = Meaning(store)
  /\ confirmed = {e \in DOMAIN store.edges : ~NormalizeEdge(store.edges[e]).review}
  /\ autoLaid = (DOMAIN store.nodes # {} /\ \A e \in DOMAIN store.edges : ~store.edges[e].route)
  /\ layouts = IF autoLaid THEN {[g |-> graph, persist |-> FALSE]} ELSE {}
  /\ nodeDialog = None /\ editing = None /\ removal = None /\ draft = None
  /\ edits = 0

Step ==
  \/ \E n \in Services : HandleAddNode(n) \/ OpenNodeConfig(n) \/ RequestRemoval(n)
                         \/ DeleteOnCanvas(n) \/ PressDelete(n)
  \/ \E n \in Services, dropped \in BOOLEAN : Drag(n, dropped)
  \/ \E cfg \in Configs : SaveNodeConfig(cfg)
  \/ CloseDialogs \/ ConfirmServiceRemoval
  \/ \E id \in EdgeIds : OpenEdge(id) \/ ConfirmConnection(id) \/ DeleteEdge(id)
  \/ \E id \in EdgeIds \union {"new"} : OpenDraft(id)
  \/ \E relation \in Choices : ConfirmEdge(relation)
  \/ \E s, t \in Services, id \in EdgeIds : ConnectNodes(s, t, id) \/ AcceptSuggestion(s, t, id)
  \/ \E s, t \in Services, id \in EdgeIds, relation \in Choices : SaveDraft(s, t, relation, id)
  \/ TidyLayout
  \/ \E l \in layouts : LayoutDone(l)
  \/ \E g \in Elsewhere : Hydrated(g)

Next == Step /\ UNCHANGED alone

Spec == Init /\ [][Next]_vars

----------------------------------------------------------------------------
(* Properties.                                                             *)

\* Type invariant; what is drawn is always normalized (edge-model.ts normalizeEdges).
GraphTypeOK ==
  /\ alone \in BOOLEAN
  /\ graph \in Graphs /\ store \in Graphs
  /\ \A e \in DOMAIN graph.edges : ~IsLegacy(graph.edges[e])
  /\ layouts \subseteq [g : Graphs, persist : BOOLEAN]
  /\ nodeDialog # None => nodeDialog.id \in Services /\ nodeDialog.node \in Nodes
  /\ editing \in EdgeIds \union {None}
  /\ removal \in Services \union {None}
  /\ draft \in EdgeIds \union {None, "new"}
  /\ autoLaid \in BOOLEAN /\ edits \in 0..MaxEdits[alone]

\* Whatever handlers, layouts and hydrations interleave, a stored edge joins two
\* services that are stored with it (useWorkflowGraph.tsx writes nodes and edges
\* from two refs that separate handlers update).
EdgesAttached == Attached(store)

\* An edge of an earlier version asks for review until an author has confirmed it:
\* no save of something else, no layout and no reload makes it look confirmed
\* (edge-model.ts normalizeEdge, needsReview).
ReviewedByAuthor ==
  \A e \in DOMAIN store.edges :
    e \notin confirmed => IsLegacy(store.edges[e]) \/ store.edges[e].review

\* The stored workflow says what the author's edits add up to: every service and
\* connection that was added and not removed, with its last configuration.
WantedSaved == Meaning(store) = wanted

\* A stored route leads to where its services are: both ends still stand where
\* the layout that computed the route put them (invalidateRoutesForMovedNodes).
RoutesMatch == RoutesLead(store)

\* Both, for one author who waits for each layout: edits made while a layout is
\* computed, the Delete key and other authors do break them.
UnhurriedIsSaved == GraphTypeOK /\ (alone => WantedSaved /\ RoutesMatch)

\* A service deleted on the canvas is gone from the stored workflow.
DeletedStaysDeleted == DOMAIN store.nodes \subseteq DOMAIN wanted.services

\* Saving the service dialog replaces the configuration it was opened on, never
\* one it has not shown.
StaleDialogRefused ==
  [][\A cfg \in Configs :
       SaveNodeConfig(cfg) /\ nodeDialog.id \in DOMAIN store.nodes =>
         store.nodes[nodeDialog.id].cfg = nodeDialog.node.cfg]_vars

\* A suggested connection that the author accepts is in the workflow afterwards.
AcceptedConnectionSaved ==
  [][\A s, t \in Services, id \in EdgeIds :
       AcceptSuggestion(s, t, id) =>
         \E e \in DOMAIN store'.edges :
            /\ store'.edges[e].source = s /\ store'.edges[e].target = t
            /\ store'.edges[e].relation = InferRelation(TypeOf[s], TypeOf[t])]_vars

=============================================================================
