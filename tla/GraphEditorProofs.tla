------------------------- MODULE GraphEditorProofs --------------------------
(***************************************************************************)
(* Theorems about the builder's graph, for any services, edges, opened     *)
(* workflows and number of edits, however layouts, hydrations, dialogs and *)
(* clicks interleave.                                                      *)
(*                                                                         *)
(* A handler writes the nodes and edges that are drawn, and a layout those *)
(* that were drawn when it began.  So what must never be stored must never *)
(* be drawn, nor be in the hands of a layout: the invariant says the same  *)
(* of all three (Storable, Drawable).  For one author who waits, the drawn *)
(* graph and the stored one say the same, and a layout or an open dialog   *)
(* holds what is drawn (NothingStale).                                     *)
(***************************************************************************)
EXTENDS GraphEditor, TLAPS

Normalized(g) == \A e \in DOMAIN g.edges : ~IsLegacy(g.edges[e])

Reviewed(g, authors) ==
  \A e \in DOMAIN g.edges : e \notin authors => IsLegacy(g.edges[e]) \/ g.edges[e].review

Storable(g, authors) == g \in Graphs /\ Attached(g) /\ Reviewed(g, authors)

Drawable(g, authors) == Storable(g, authors) /\ Normalized(g)

Layouts == [g : Graphs, persist : BOOLEAN]

DialogsTyped ==
  /\ nodeDialog # None => nodeDialog.id \in Services /\ nodeDialog.node \in Nodes
  /\ editing \in EdgeIds \union {None}
  /\ removal \in Services \union {None}
  /\ draft \in EdgeIds \union {None, "new"}

GraphsKept ==
  /\ Storable(store, confirmed)
  /\ Drawable(graph, confirmed)
  /\ layouts \subseteq Layouts /\ \A l \in layouts : Drawable(l.g, confirmed)
  /\ autoLaid \in BOOLEAN

\* What every handler, layout and hydration keeps.
EditorInv ==
  /\ alone \in BOOLEAN /\ edits \in 0..MaxEdits[alone]
  /\ DialogsTyped
  /\ GraphsKept

\* What one author who waits can rely on: the drawn graph says what was asked for, and the
\* layout or the dialog that will write to it holds it as it is.
NothingStale ==
  alone =>
    /\ Meaning(graph) = wanted /\ Meaning(store) = wanted
    /\ RoutesLead(graph) /\ RoutesLead(store)
    /\ \A l \in layouts : l.g = graph /\ \A m \in layouts : m = l
    /\ nodeDialog # None =>
         /\ layouts = {} /\ removal = None /\ editing \notin DOMAIN graph.edges
         /\ nodeDialog.id \in DOMAIN graph.nodes
         /\ graph.nodes[nodeDialog.id] = nodeDialog.node

-----------------------------------------------------------------------------
(* Graphs and their parts *)

\* A graph is its nodes and its edges, each a function on some of the ids.
LEMMA GraphParts ==
    ASSUME NEW g \in Graphs
    PROVE  /\ g = [nodes |-> g.nodes, edges |-> g.edges]
           /\ DOMAIN g.nodes \subseteq Services /\ g.nodes \in [DOMAIN g.nodes -> Nodes]
           /\ DOMAIN g.edges \subseteq EdgeIds /\ g.edges \in [DOMAIN g.edges -> Edges]
           /\ \A f : [g EXCEPT !.nodes = f] = [nodes |-> f, edges |-> g.edges]
           /\ \A f : [g EXCEPT !.edges = f] = [nodes |-> g.nodes, edges |-> f]
  <1>1. /\ g.nodes \in UNION {[N -> Nodes] : N \in SUBSET Services}
        /\ g.edges \in UNION {[E -> Edges] : E \in SUBSET EdgeIds}
        /\ g = [nodes |-> g.nodes, edges |-> g.edges]
    BY DEF Graphs
  <1>2. PICK N \in SUBSET Services : g.nodes \in [N -> Nodes]
    BY <1>1
  <1>3. PICK E \in SUBSET EdgeIds : g.edges \in [E -> Edges]
    BY <1>1
  <1>4. \A f : [g EXCEPT !.nodes = f] = [nodes |-> f, edges |-> g.edges]
    BY <1>1
  <1>5. \A f : [g EXCEPT !.edges = f] = [nodes |-> g.nodes, edges |-> f]
    BY <1>1
  <1> QED BY <1>1, <1>2, <1>3, <1>4, <1>5

\* Conversely, nodes and edges make a graph.
LEMMA PartsMakeGraph ==
    ASSUME NEW N \in SUBSET Services, NEW f \in [N -> Nodes],
           NEW E \in SUBSET EdgeIds, NEW h \in [E -> Edges]
    PROVE  [nodes |-> f, edges |-> h] \in Graphs
  <1>1. f \in UNION {[M -> Nodes] : M \in SUBSET Services}
    OBVIOUS
  <1>2. h \in UNION {[F -> Edges] : F \in SUBSET EdgeIds}
    OBVIOUS
  <1> QED BY <1>1, <1>2 DEF Graphs

\* A normalized edge has the ends and the flags it had, and asks for review if it was of an
\* earlier version.
LEMMA NormalizedEdge ==
    ASSUME NEW edge \in Edges
    PROVE  /\ NormalizeEdge(edge) \in Edges /\ ~IsLegacy(NormalizeEdge(edge))
           /\ NormalizeEdge(edge).source = edge.source /\ NormalizeEdge(edge).target = edge.target
           /\ NormalizeEdge(edge).route = edge.route
           /\ NormalizeEdge(edge).review = (IsLegacy(edge) \/ edge.review)
           /\ NormalizeEdge(edge).relation = IF edge.relation \in EdgeRelations
                                             THEN edge.relation ELSE "calls"
           /\ NormalizeEdge(edge).relation \in EdgeRelations
  <1>1. IsLegacy(edge) \in BOOLEAN
    BY DEF IsLegacy
  <1>2. /\ (IF edge.readiness \in EdgeReadinessOptions THEN edge.readiness
            ELSE "source_requires_target") \in EdgeReadinessOptions
        /\ (IF edge.relation \in EdgeRelations THEN edge.relation ELSE "calls") \in EdgeRelations
    BY DEF EdgeReadinessOptions, EdgeRelations
  <1>3. /\ NormalizeEdge(edge).source = edge.source /\ NormalizeEdge(edge).target = edge.target
        /\ NormalizeEdge(edge).route = edge.route /\ NormalizeEdge(edge).handles = edge.handles
    BY DEF NormalizeEdge, Edges
  <1>4. NormalizeEdge(edge).review = (IsLegacy(edge) \/ edge.review)
    BY DEF NormalizeEdge, Edges
  <1>5. NormalizeEdge(edge).relation = IF edge.relation \in EdgeRelations
                                       THEN edge.relation ELSE "calls"
    BY DEF NormalizeEdge, Edges
  <1>6. NormalizeEdge(edge).readiness = IF edge.readiness \in EdgeReadinessOptions
                                        THEN edge.readiness ELSE "source_requires_target"
    BY DEF NormalizeEdge, Edges
  <1>7. NormalizeEdge(edge) \in Edges
    BY <1>1, <1>2 DEF NormalizeEdge, Edges
  <1>8. ~IsLegacy(NormalizeEdge(edge))
    BY <1>2, <1>5, <1>6, NoneAssumption DEF IsLegacy
  <1> QED BY <1>2, <1>3, <1>4, <1>5, <1>7, <1>8

\* Loading what may be stored gives what may be drawn, and says the same.
LEMMA LoadedIsDrawable ==
    ASSUME NEW g, NEW authors, Storable(g, authors)
    PROVE  /\ Drawable(Loaded(g), authors)
           /\ Loaded(g).nodes = g.nodes
           /\ DOMAIN Loaded(g).edges = DOMAIN g.edges
           /\ \A e \in DOMAIN g.edges : Loaded(g).edges[e] = NormalizeEdge(g.edges[e])
  <1> DEFINE h == [e \in DOMAIN g.edges |-> NormalizeEdge(g.edges[e])]
  <1>1. /\ g \in Graphs /\ Attached(g) /\ Reviewed(g, authors)
        /\ DOMAIN g.nodes \subseteq Services /\ g.nodes \in [DOMAIN g.nodes -> Nodes]
        /\ DOMAIN g.edges \subseteq EdgeIds /\ \A e \in DOMAIN g.edges : g.edges[e] \in Edges
    BY GraphParts DEF Storable
  <1>2. Loaded(g) = [nodes |-> g.nodes, edges |-> h]
    BY <1>1, GraphParts DEF Loaded, NormalizeEdges
  <1>3. h \in [DOMAIN g.edges -> Edges]
    BY <1>1, NormalizedEdge
  <1>4. Loaded(g) \in Graphs /\ Loaded(g).nodes = g.nodes /\ Loaded(g).edges = h
    BY <1>1, <1>2, <1>3, PartsMakeGraph
  <1>5. Attached(Loaded(g))
    BY <1>1, <1>4, NormalizedEdge DEF Attached
  <1>6. Reviewed(Loaded(g), authors)
    <2> SUFFICES ASSUME NEW e \in DOMAIN g.edges, e \notin authors
                 PROVE  h[e].review
      BY <1>4 DEF Reviewed
    <2>1. IsLegacy(g.edges[e]) \/ g.edges[e].review
      BY <1>1 DEF Reviewed
    <2>2. h[e].review = (IsLegacy(g.edges[e]) \/ g.edges[e].review)
      BY <1>1, NormalizedEdge
    <2> QED BY <2>1, <2>2
  <1>7. Normalized(Loaded(g))
    BY <1>1, <1>4, NormalizedEdge DEF Normalized
  <1> QED BY <1>4, <1>5, <1>6, <1>7 DEF Drawable, Storable

\* A graph that was drawn can be drawn again with other nodes and edges: its edges join its
\* nodes, and an edge that no author has confirmed is one of before that asks for review.
LEMMA Redrawn ==
    ASSUME NEW g, NEW authors, Drawable(g, authors),
           NEW N \in SUBSET Services, NEW f \in [N -> Nodes],
           NEW E \in SUBSET EdgeIds, NEW h \in [E -> Edges], NEW also,
           \A e \in E : h[e].source \in N /\ h[e].target \in N,
           \A e \in E : h[e].relation \in EdgeRelations /\ h[e].readiness \in EdgeReadinessOptions,
           \A e \in E : e \in also \/ (e \in DOMAIN g.edges /\ h[e].review = g.edges[e].review)
    PROVE  Drawable([nodes |-> f, edges |-> h], authors \cup also)
  <1> DEFINE k == [nodes |-> f, edges |-> h]
  <1>1. k \in Graphs /\ k.nodes = f /\ k.edges = h
    BY PartsMakeGraph
  <1>2. DOMAIN f = N /\ DOMAIN h = E
    OBVIOUS
  <1>3. Attached(k)
    BY <1>1, <1>2 DEF Attached
  <1>4. Normalized(k)
    BY <1>1, <1>2, NoneAssumption DEF Normalized, IsLegacy
  <1>5. Reviewed(k, authors \cup also)
    <2> SUFFICES ASSUME NEW e \in E, e \notin authors, e \notin also
                 PROVE  h[e].review
      BY <1>1, <1>2 DEF Reviewed
    <2>1. e \in DOMAIN g.edges /\ h[e].review = g.edges[e].review
      OBVIOUS
    <2>2. g.edges[e].review
      BY <2>1 DEF Drawable, Storable, Reviewed, Normalized
    <2> QED BY <2>1, <2>2
  <1> QED BY <1>1, <1>3, <1>4, <1>5 DEF Drawable, Storable

\* A graph is drawable if its edges are attached, normalized, and edges of a drawable graph with
\* their review marks.
LEMMA RedrawnAlike ==
    ASSUME NEW g, NEW authors, Drawable(g, authors),
           NEW N \in SUBSET Services, NEW f \in [N -> Nodes],
           NEW E \in SUBSET EdgeIds, NEW h \in [E -> Edges],
           \A e \in E : h[e].source \in N /\ h[e].target \in N,
           \A e \in E : /\ h[e].relation \in EdgeRelations /\ h[e].readiness \in EdgeReadinessOptions
                       /\ e \in DOMAIN g.edges /\ h[e].review = g.edges[e].review
    PROVE  Drawable([nodes |-> f, edges |-> h], authors)
  <1>1. Drawable([nodes |-> f, edges |-> h], authors \cup {})
    BY Redrawn
  <1>2. authors \cup {} = authors
    OBVIOUS
  <1> QED BY <1>1, <1>2

\* What was right stays so when more edges are confirmed.
LEMMA MoreConfirmed ==
    ASSUME NEW g, NEW authors, NEW more, authors \subseteq more
    PROVE  /\ Storable(g, authors) => Storable(g, more)
           /\ Drawable(g, authors) => Drawable(g, more)
  BY DEF Storable, Drawable, Reviewed

\* Drawing a graph, and the layout this may start.
LEMMA CommitKeeps ==
    ASSUME EditorInv, NEW g, Commit(g), confirmed \subseteq confirmed',
           Drawable(g, confirmed'), Storable(store', confirmed')
    PROVE  GraphsKept'
  <1>1. Drawable(graph', confirmed') /\ Storable(store', confirmed') /\ autoLaid' \in BOOLEAN
    BY DEF Commit, EditorInv, GraphsKept, AutoLayoutDue
  <1>2. ASSUME NEW l \in layouts'
        PROVE  l \in Layouts /\ Drawable(l.g, confirmed')
    <2>1. CASE l \in layouts
      BY <2>1, MoreConfirmed DEF EditorInv, GraphsKept
    <2>2. CASE l = [g |-> g, persist |-> FALSE]
      BY <2>2 DEF Layouts, Drawable, Storable
    <2> QED BY <2>1, <2>2 DEF Commit
  <1> QED BY <1>1, <1>2 DEF GraphsKept

\* Storing a graph, and loading it again.
LEMMA PersistKeeps ==
    ASSUME EditorInv, NEW g, Persist(g), confirmed \subseteq confirmed', Storable(g, confirmed')
    PROVE  GraphsKept'
  <1>1. Commit(Loaded(g)) /\ store' = g
    BY DEF Persist
  <1>2. Drawable(Loaded(g), confirmed')
    BY LoadedIsDrawable
  <1> QED BY <1>1, <1>2, CommitKeeps

-----------------------------------------------------------------------------
(* What the operations of the builder make of a drawn graph: the result can be drawn, it *)
(* says what the operation was to say, and its routes lead where they did.               *)

\* The parts of what a graph says.
LEMMA MeaningParts ==
    ASSUME NEW g \in Graphs
    PROVE  /\ Meaning(g) = [services |-> Meaning(g).services, edges |-> Meaning(g).edges]
           /\ DOMAIN Meaning(g).services = DOMAIN g.nodes
           /\ DOMAIN Meaning(g).edges = DOMAIN g.edges
           /\ Meaning(g).services = [n \in DOMAIN g.nodes |-> g.nodes[n].cfg]
           /\ Meaning(g).edges = [e \in DOMAIN g.edges |->
                 <<g.edges[e].source, g.edges[e].target, NormalizeEdge(g.edges[e]).relation>>]
  <1>1. \A e \in DOMAIN g.edges : g.edges[e] \in Edges
    BY GraphParts
  <1>2. \A e \in DOMAIN g.edges : /\ NormalizeEdge(g.edges[e]).source = g.edges[e].source
                                 /\ NormalizeEdge(g.edges[e]).target = g.edges[e].target
    BY <1>1, NormalizedEdge
  <1> DEFINE new == [e \in DOMAIN g.edges |->
                 <<g.edges[e].source, g.edges[e].target, NormalizeEdge(g.edges[e]).relation>>]
  <1>3. Meaning(g).edges = new
    BY <1>2 DEF Meaning
  <1>4. /\ Meaning(g) = [services |-> Meaning(g).services, edges |-> Meaning(g).edges]
        /\ Meaning(g).services = [n \in DOMAIN g.nodes |-> g.nodes[n].cfg]
    BY DEF Meaning
  <1> QED BY <1>3, <1>4

\* Drawn edges already have their relation.
LEMMA DrawnMeaning ==
    ASSUME NEW g, NEW authors, Drawable(g, authors)
    PROVE  /\ \A e \in DOMAIN g.edges : /\ g.edges[e] \in Edges
                                       /\ g.edges[e].relation \in EdgeRelations
                                       /\ g.edges[e].readiness \in EdgeReadinessOptions
           /\ Meaning(g).edges = [e \in DOMAIN g.edges |->
                 <<g.edges[e].source, g.edges[e].target, g.edges[e].relation>>]
  <1>1. g \in Graphs /\ \A e \in DOMAIN g.edges : g.edges[e] \in Edges
    BY GraphParts DEF Drawable, Storable
  <1>2. \A e \in DOMAIN g.edges : /\ g.edges[e].relation \in EdgeRelations
                                 /\ g.edges[e].readiness \in EdgeReadinessOptions
    BY <1>1 DEF Drawable, Normalized, IsLegacy, Edges
  <1>3. \A e \in DOMAIN g.edges : NormalizeEdge(g.edges[e]).relation = g.edges[e].relation
    BY <1>1, <1>2, NormalizedEdge
  <1> QED BY <1>1, <1>2, <1>3, MeaningParts

\* Two graphs say the same if their services and edges do.
LEMMA SameMeaning ==
    ASSUME NEW g \in Graphs, NEW k \in Graphs,
           DOMAIN k.nodes = DOMAIN g.nodes,
           \A n \in DOMAIN g.nodes : k.nodes[n].cfg = g.nodes[n].cfg,
           DOMAIN k.edges = DOMAIN g.edges,
           \A e \in DOMAIN g.edges : /\ k.edges[e].source = g.edges[e].source
                                   /\ k.edges[e].target = g.edges[e].target
                                   /\ NormalizeEdge(k.edges[e]).relation = NormalizeEdge(g.edges[e]).relation
    PROVE  Meaning(k) = Meaning(g)
  <1>1. /\ Meaning(g).services = [n \in DOMAIN g.nodes |-> g.nodes[n].cfg]
        /\ Meaning(k).services = [n \in DOMAIN k.nodes |-> k.nodes[n].cfg]
    BY MeaningParts
  <1>2. /\ Meaning(g).edges = [e \in DOMAIN g.edges |->
              <<g.edges[e].source, g.edges[e].target, NormalizeEdge(g.edges[e]).relation>>]
        /\ Meaning(k).edges = [e \in DOMAIN k.edges |->
              <<k.edges[e].source, k.edges[e].target, NormalizeEdge(k.edges[e]).relation>>]
    BY MeaningParts
  <1>3. Meaning(k).services = Meaning(g).services
    BY <1>1
  <1>4. Meaning(k).edges = Meaning(g).edges
    BY <1>2
  <1>5. /\ Meaning(g) = [services |-> Meaning(g).services, edges |-> Meaning(g).edges]
        /\ Meaning(k) = [services |-> Meaning(k).services, edges |-> Meaning(k).edges]
    BY MeaningParts
  <1> QED BY <1>3, <1>4, <1>5

\* Loading a graph changes neither what it says nor where its routes lead.
LEMMA LoadedSaysTheSame ==
    ASSUME NEW g, NEW authors, Storable(g, authors)
    PROVE  Meaning(Loaded(g)) = Meaning(g) /\ (RoutesLead(g) => RoutesLead(Loaded(g)))
  <1>1. /\ g \in Graphs /\ Loaded(g) \in Graphs /\ Loaded(g).nodes = g.nodes
        /\ DOMAIN Loaded(g).edges = DOMAIN g.edges
        /\ \A e \in DOMAIN g.edges : Loaded(g).edges[e] = NormalizeEdge(g.edges[e])
    BY LoadedIsDrawable DEF Drawable, Storable
  <1>2. \A e \in DOMAIN g.edges : g.edges[e] \in Edges
    BY <1>1, GraphParts
  <1>3. ASSUME NEW e \in DOMAIN g.edges
        PROVE  NormalizeEdge(NormalizeEdge(g.edges[e])).relation = NormalizeEdge(g.edges[e]).relation
    BY <1>2, NormalizedEdge
  <1>4. Meaning(Loaded(g)) = Meaning(g)
    BY <1>1, <1>2, <1>3, NormalizedEdge, SameMeaning
  <1>5. RoutesLead(g) => RoutesLead(Loaded(g))
    BY <1>1, <1>2, NormalizedEdge DEF RoutesLead
  <1> QED BY <1>4, <1>5

\* Operations on the services leave alone what the edges say, and conversely.
LEMMA PartlyTheSame ==
    ASSUME NEW g \in Graphs, NEW k \in Graphs
    PROVE  /\ k.edges = g.edges => Meaning(k).edges = Meaning(g).edges
           /\ k.nodes = g.nodes => Meaning(k).services = Meaning(g).services
  BY DEF Meaning

\* A service is added (addNode).
LEMMA NodeAdded ==
    ASSUME NEW g, NEW authors, Drawable(g, authors),
           NEW n \in Services, n \notin DOMAIN g.nodes, NEW node \in Nodes,
           NEW f, f = Extend(g.nodes, n, node),
           NEW k, k = [nodes |-> f, edges |-> g.edges]
    PROVE  /\ Drawable(k, authors)
           /\ RoutesLead(g) => RoutesLead(k)
           /\ Meaning(k) = [services |-> Extend(Meaning(g).services, n, node.cfg),
                            edges |-> Meaning(g).edges]
  <1>1. /\ g \in Graphs /\ Attached(g)
        /\ DOMAIN g.nodes \subseteq Services /\ g.nodes \in [DOMAIN g.nodes -> Nodes]
        /\ DOMAIN g.edges \in SUBSET EdgeIds /\ g.edges \in [DOMAIN g.edges -> Edges]
    BY GraphParts DEF Drawable, Storable
  <1>2. PICK N : N = DOMAIN g.nodes \cup {n}
    OBVIOUS
  <1>3. /\ DOMAIN f = N /\ N \in SUBSET Services /\ f \in [N -> Nodes]
        /\ f[n] = node /\ \A m \in DOMAIN g.nodes : f[m] = g.nodes[m]
    BY <1>1, <1>2 DEF Extend
  <1>4. k \in Graphs /\ k.nodes = f /\ k.edges = g.edges
    BY <1>1, <1>3, PartsMakeGraph
  <1>5. Drawable(k, authors)
    <2>1. \A e \in DOMAIN g.edges : g.edges[e].source \in N /\ g.edges[e].target \in N
      BY <1>1, <1>2 DEF Attached
    <2>2. Drawable([nodes |-> f, edges |-> g.edges], authors)
      BY <1>1, <1>3, <2>1, DrawnMeaning, RedrawnAlike
    <2> QED BY <2>2
  <1>6. RoutesLead(g) => RoutesLead(k)
    BY <1>1, <1>3, <1>4 DEF RoutesLead, Attached
  <1>7. Meaning(k).edges = Meaning(g).edges
    BY <1>1, <1>4, PartlyTheSame
  <1>8. Meaning(k).services = Extend(Meaning(g).services, n, node.cfg)
    <2>1. Meaning(k).services = [m \in DOMAIN f |-> f[m].cfg]
      BY <1>4 DEF Meaning
    <2>2. Meaning(g).services = [m \in DOMAIN g.nodes |-> g.nodes[m].cfg]
      BY DEF Meaning
    <2>3. DOMAIN Meaning(g).services \cup {n} = DOMAIN f
      BY <1>2, <1>3, <2>2
    <2>4. \A m \in DOMAIN f : f[m].cfg = IF m = n THEN node.cfg ELSE Meaning(g).services[m]
      BY <1>2, <1>3, <2>2
    <2> QED BY <2>1, <2>3, <2>4 DEF Extend
  <1> QED BY <1>4, <1>5, <1>6, <1>7, <1>8, MeaningParts

\* A service is replaced by what its dialog holds (updateNode).
LEMMA NodeReplaced ==
    ASSUME NEW g, NEW authors, Drawable(g, authors), NEW id \in Services, NEW node \in Nodes,
           NEW f, f = [n \in DOMAIN g.nodes |-> IF n = id THEN node ELSE g.nodes[n]],
           NEW k, k = [nodes |-> f, edges |-> g.edges]
    PROVE  /\ Drawable(k, authors)
           /\ RoutesLead(g) /\ (id \in DOMAIN g.nodes => node.pos = g.nodes[id].pos) => RoutesLead(k)
           /\ Meaning(k) = [services |-> [n \in DOMAIN Meaning(g).services |->
                                            IF n = id THEN node.cfg ELSE Meaning(g).services[n]],
                            edges |-> Meaning(g).edges]
  <1>1. /\ g \in Graphs /\ Attached(g)
        /\ DOMAIN g.nodes \in SUBSET Services /\ g.nodes \in [DOMAIN g.nodes -> Nodes]
        /\ DOMAIN g.edges \in SUBSET EdgeIds /\ g.edges \in [DOMAIN g.edges -> Edges]
    BY GraphParts DEF Drawable, Storable
  <1>2. /\ DOMAIN f = DOMAIN g.nodes /\ f \in [DOMAIN g.nodes -> Nodes]
        /\ \A n \in DOMAIN g.nodes : f[n] = IF n = id THEN node ELSE g.nodes[n]
    BY <1>1
  <1>3. k \in Graphs /\ k.nodes = f /\ k.edges = g.edges
    BY <1>1, <1>2, PartsMakeGraph
  <1>4. Drawable(k, authors)
    <2>1. \A e \in DOMAIN g.edges : g.edges[e].source \in DOMAIN f /\ g.edges[e].target \in DOMAIN f
      BY <1>1, <1>2 DEF Attached
    <2>2. Drawable([nodes |-> f, edges |-> g.edges], authors)
      BY <1>1, <1>2, <2>1, DrawnMeaning, RedrawnAlike
    <2> QED BY <2>2
  <1>5. ASSUME RoutesLead(g), id \in DOMAIN g.nodes => node.pos = g.nodes[id].pos
        PROVE  RoutesLead(k)
    BY <1>1, <1>2, <1>3, <1>5 DEF RoutesLead, Attached
  <1>6. Meaning(k).edges = Meaning(g).edges
    BY <1>1, <1>3, PartlyTheSame
  <1>7. Meaning(k).services = [n \in DOMAIN Meaning(g).services |->
                                 IF n = id THEN node.cfg ELSE Meaning(g).services[n]]
    <2>1. Meaning(k).services = [m \in DOMAIN f |-> f[m].cfg]
      BY <1>3 DEF Meaning
    <2>2. Meaning(g).services = [m \in DOMAIN g.nodes |-> g.nodes[m].cfg]
      BY DEF Meaning
    <2>3. DOMAIN Meaning(g).services = DOMAIN f
      BY <1>2, <2>2
    <2>4. \A m \in DOMAIN f : f[m].cfg = IF m = id THEN node.cfg ELSE Meaning(g).services[m]
      BY <1>2, <2>2
    <2> QED BY <2>1, <2>3, <2>4
  <1> QED BY <1>3, <1>4, <1>5, <1>6, <1>7, MeaningParts

\* A service is removed with its edges (removeServiceFromGraph).
LEMMA ServiceRemoved ==
    ASSUME NEW g, NEW authors, Drawable(g, authors), NEW n,
           NEW k, k = RemoveServiceFromGraph(g, n)
    PROVE  /\ Drawable(k, authors)
           /\ RoutesLead(g) => RoutesLead(k)
           /\ Meaning(k) =
                [services |-> Restrict(Meaning(g).services, DOMAIN Meaning(g).services \ {n}),
                 edges |-> Restrict(Meaning(g).edges,
                             {e \in DOMAIN Meaning(g).edges :
                                n \notin {Meaning(g).edges[e][1], Meaning(g).edges[e][2]}})]
  <1>1. /\ g \in Graphs /\ Attached(g)
        /\ DOMAIN g.nodes \in SUBSET Services /\ g.nodes \in [DOMAIN g.nodes -> Nodes]
        /\ DOMAIN g.edges \in SUBSET EdgeIds /\ g.edges \in [DOMAIN g.edges -> Edges]
    BY GraphParts DEF Drawable, Storable
  <1>2. PICK N, f : N = DOMAIN g.nodes \ {n} /\ f = Restrict(g.nodes, N)
    OBVIOUS
  <1>3. PICK E, h : /\ E = {e \in DOMAIN g.edges : ~Touches(g.edges[e], {n})}
                    /\ h = Restrict(g.edges, E)
    OBVIOUS
  <1>4. /\ N \in SUBSET Services /\ f \in [N -> Nodes] /\ DOMAIN f = N
        /\ \A m \in N : f[m] = g.nodes[m]
    BY <1>1, <1>2 DEF Restrict
  <1>5. /\ E \in SUBSET EdgeIds /\ h \in [E -> Edges] /\ DOMAIN h = E
        /\ \A e \in E : h[e] = g.edges[e] /\ e \in DOMAIN g.edges
    BY <1>1, <1>3 DEF Restrict
  <1>6. k = [nodes |-> f, edges |-> h]
    BY <1>2, <1>3 DEF RemoveServiceFromGraph
  <1>7. k \in Graphs /\ k.nodes = f /\ k.edges = h
    BY <1>4, <1>5, <1>6, PartsMakeGraph
  <1>8. Drawable(k, authors)
    <2>1. \A e \in E : h[e].source \in N /\ h[e].target \in N
      BY <1>1, <1>2, <1>3, <1>5 DEF Attached, Touches
    <2>2. \A e \in E : /\ h[e].relation \in EdgeRelations /\ h[e].readiness \in EdgeReadinessOptions
                      /\ e \in DOMAIN g.edges /\ h[e].review = g.edges[e].review
      BY <1>5, DrawnMeaning
    <2>3. Drawable([nodes |-> f, edges |-> h], authors)
      BY <1>4, <1>5, <2>1, <2>2, RedrawnAlike
    <2> QED BY <1>6, <2>3
  <1>9. RoutesLead(g) => RoutesLead(k)
    <2> SUFFICES ASSUME RoutesLead(g), NEW e \in E, h[e].route, NEW m \in {h[e].source, h[e].target}
                 PROVE  f[m].pos = "tidy"
      BY <1>5, <1>7 DEF RoutesLead
    <2>1. m \in N
      BY <1>1, <1>2, <1>3, <1>5 DEF Attached, Touches
    <2>2. g.nodes[m].pos = "tidy"
      BY <1>5 DEF RoutesLead
    <2> QED BY <1>4, <2>1, <2>2
  <1>10. Meaning(k).services = Restrict(Meaning(g).services, DOMAIN Meaning(g).services \ {n})
    <2>1. Meaning(k).services = [m \in N |-> f[m].cfg]
      BY <1>4, <1>7 DEF Meaning
    <2>2. Meaning(g).services = [m \in DOMAIN g.nodes |-> g.nodes[m].cfg]
      BY DEF Meaning
    <2>3. DOMAIN Meaning(g).services \ {n} = N
      BY <1>2, <2>2
    <2>4. \A m \in N : f[m].cfg = Meaning(g).services[m]
      BY <1>2, <1>4, <2>2
    <2> QED BY <2>1, <2>3, <2>4 DEF Restrict
  <1>11. Meaning(k).edges = Restrict(Meaning(g).edges,
            {e \in DOMAIN Meaning(g).edges : n \notin {Meaning(g).edges[e][1], Meaning(g).edges[e][2]}})
    <2>1. Meaning(k).edges = [e \in E |-> <<h[e].source, h[e].target, h[e].relation>>]
      BY <1>5, <1>7, <1>8, DrawnMeaning
    <2>2. Meaning(g).edges = [e \in DOMAIN g.edges |->
                               <<g.edges[e].source, g.edges[e].target, g.edges[e].relation>>]
      BY DrawnMeaning
    <2>3. {e \in DOMAIN Meaning(g).edges : n \notin {Meaning(g).edges[e][1], Meaning(g).edges[e][2]}} = E
      BY <1>3, <2>2 DEF Touches
    <2>4. \A e \in E : <<h[e].source, h[e].target, h[e].relation>> = Meaning(g).edges[e]
      BY <1>5, <2>2
    <2> QED BY <2>1, <2>3, <2>4 DEF Restrict
  <1> QED BY <1>7, <1>8, <1>9, <1>10, <1>11, MeaningParts

\* Edges are removed (onEdgesChange, deleteEdge).
LEMMA EdgesGone ==
    ASSUME NEW g, NEW authors, Drawable(g, authors), NEW gone,
           NEW k, k = [nodes |-> g.nodes, edges |-> Restrict(g.edges, DOMAIN g.edges \ gone)]
    PROVE  /\ Drawable(k, authors)
           /\ RoutesLead(g) => RoutesLead(k)
           /\ Meaning(k) = [services |-> Meaning(g).services,
                            edges |-> Restrict(Meaning(g).edges, DOMAIN Meaning(g).edges \ gone)]
  <1>1. /\ g \in Graphs /\ Attached(g)
        /\ DOMAIN g.nodes \in SUBSET Services /\ g.nodes \in [DOMAIN g.nodes -> Nodes]
        /\ DOMAIN g.edges \in SUBSET EdgeIds /\ g.edges \in [DOMAIN g.edges -> Edges]
    BY GraphParts DEF Drawable, Storable
  <1>2. PICK N, f, E, h : /\ N = DOMAIN g.nodes /\ f = g.nodes
                          /\ E = DOMAIN g.edges \ gone /\ h = Restrict(g.edges, E)
    OBVIOUS
  <1>3. /\ N \in SUBSET Services /\ f \in [N -> Nodes]
        /\ E \in SUBSET EdgeIds /\ h \in [E -> Edges] /\ DOMAIN h = E
        /\ \A e \in E : h[e] = g.edges[e] /\ e \in DOMAIN g.edges
    BY <1>1, <1>2 DEF Restrict
  <1>4. k = [nodes |-> g.nodes, edges |-> h] /\ k \in Graphs /\ k.nodes = g.nodes /\ k.edges = h
    BY <1>1, <1>2, <1>3, PartsMakeGraph
  <1>5. Drawable(k, authors)
    <2>1. \A e \in E : h[e].source \in N /\ h[e].target \in N
      BY <1>1, <1>2, <1>3 DEF Attached
    <2>2. \A e \in E : /\ h[e].relation \in EdgeRelations /\ h[e].readiness \in EdgeReadinessOptions
                      /\ e \in DOMAIN g.edges /\ h[e].review = g.edges[e].review
      BY <1>3, DrawnMeaning
    <2>3. Drawable([nodes |-> f, edges |-> h], authors)
      BY <1>3, <2>1, <2>2, RedrawnAlike
    <2> QED BY <1>2, <1>4, <2>3
  <1>6. RoutesLead(g) => RoutesLead(k)
    <2> SUFFICES ASSUME RoutesLead(g), NEW e \in E, h[e].route, NEW m \in {h[e].source, h[e].target}
                 PROVE  g.nodes[m].pos = "tidy"
      BY <1>3, <1>4 DEF RoutesLead
    <2> QED BY <1>3 DEF RoutesLead
  <1>7. Meaning(k).services = Meaning(g).services
    BY <1>1, <1>4, PartlyTheSame
  <1>8. Meaning(k).edges = Restrict(Meaning(g).edges, DOMAIN Meaning(g).edges \ gone)
    <2>1. Meaning(k).edges = [e \in E |-> <<h[e].source, h[e].target, h[e].relation>>]
      <3>1. Meaning(k).edges = [e \in DOMAIN k.edges |->
                                  <<k.edges[e].source, k.edges[e].target, k.edges[e].relation>>]
        BY <1>5, DrawnMeaning
      <3> QED BY <1>3, <1>4, <3>1
    <2>2. Meaning(g).edges = [e \in DOMAIN g.edges |->
                               <<g.edges[e].source, g.edges[e].target, g.edges[e].relation>>]
      BY DrawnMeaning
    <2>3. DOMAIN Meaning(g).edges \ gone = E
      BY <1>2, <2>2
    <2>4. \A e \in E : <<h[e].source, h[e].target, h[e].relation>> = Meaning(g).edges[e]
      BY <1>3, <2>2
    <2> QED BY <2>1, <2>3, <2>4 DEF Restrict
  <1> QED BY <1>4, <1>5, <1>6, <1>7, <1>8, MeaningParts

\* A service without edges is only taken off the canvas.
LEMMA LoneNodeGone ==
    ASSUME NEW g, NEW authors, Drawable(g, authors), NEW n,
           \A e \in DOMAIN g.edges : ~Touches(g.edges[e], {n}),
           NEW k, k = [nodes |-> Restrict(g.nodes, DOMAIN g.nodes \ {n}), edges |-> g.edges]
    PROVE  Drawable(k, authors)
  <1>1. /\ g \in Graphs /\ Attached(g)
        /\ DOMAIN g.nodes \in SUBSET Services /\ g.nodes \in [DOMAIN g.nodes -> Nodes]
        /\ DOMAIN g.edges \in SUBSET EdgeIds /\ g.edges \in [DOMAIN g.edges -> Edges]
    BY GraphParts DEF Drawable, Storable
  <1>2. PICK N, f, E, h : /\ N = DOMAIN g.nodes \ {n} /\ f = Restrict(g.nodes, N)
                          /\ E = DOMAIN g.edges /\ h = g.edges
    OBVIOUS
  <1>3. /\ N \in SUBSET Services /\ f \in [N -> Nodes]
        /\ E \in SUBSET EdgeIds /\ h \in [E -> Edges]
    BY <1>1, <1>2 DEF Restrict
  <1>4. \A e \in E : h[e].source \in N /\ h[e].target \in N
    BY <1>1, <1>2 DEF Attached, Touches
  <1>5. \A e \in E : /\ h[e].relation \in EdgeRelations /\ h[e].readiness \in EdgeReadinessOptions
                    /\ e \in DOMAIN g.edges /\ h[e].review = g.edges[e].review
    BY <1>2, DrawnMeaning
  <1>6. Drawable([nodes |-> f, edges |-> h], authors)
    BY <1>3, <1>4, <1>5, RedrawnAlike
  <1> QED BY <1>2, <1>6

\* The same graph with other places and routes.
Alike(g, f, h) ==
  /\ f \in [DOMAIN g.nodes -> Nodes] /\ h \in [DOMAIN g.edges -> Edges]
  /\ \A n \in DOMAIN g.nodes : f[n].cfg = g.nodes[n].cfg
  /\ \A e \in DOMAIN g.edges :
       /\ h[e].source = g.edges[e].source /\ h[e].target = g.edges[e].target
       /\ h[e].relation = g.edges[e].relation /\ h[e].readiness = g.edges[e].readiness
       /\ h[e].review = g.edges[e].review

\* It can be drawn as well, and says the same.
LEMMA DrawnElsewhere ==
    ASSUME NEW g, NEW authors, Drawable(g, authors), NEW f, NEW h, Alike(g, f, h)
    PROVE  LET k == [nodes |-> f, edges |-> h]
           IN Drawable(k, authors) /\ Meaning(k) = Meaning(g)
  <1>1. g \in Graphs /\ Attached(g) /\ DOMAIN g.nodes \in SUBSET Services /\ DOMAIN g.edges \in SUBSET EdgeIds
    BY GraphParts DEF Drawable, Storable
  <1>2. PICK N, E : N = DOMAIN g.nodes /\ E = DOMAIN g.edges
    OBVIOUS
  <1>3. N \in SUBSET Services /\ f \in [N -> Nodes] /\ E \in SUBSET EdgeIds /\ h \in [E -> Edges]
    BY <1>1, <1>2 DEF Alike
  <1>4. \A e \in E : h[e].source \in N /\ h[e].target \in N
    BY <1>1, <1>2 DEF Attached, Alike
  <1>5. \A e \in E : /\ h[e].relation \in EdgeRelations /\ h[e].readiness \in EdgeReadinessOptions
                    /\ e \in DOMAIN g.edges /\ h[e].review = g.edges[e].review
    BY <1>2, DrawnMeaning DEF Alike
  <1>6. Drawable([nodes |-> f, edges |-> h], authors)
    BY <1>3, <1>4, <1>5, RedrawnAlike, Z3
  <1>7. PICK k : k = [nodes |-> f, edges |-> h]
    OBVIOUS
  <1>8. k \in Graphs /\ k.nodes = f /\ k.edges = h
    BY <1>6, <1>7 DEF Drawable, Storable
  <1>9. \A e \in DOMAIN g.edges : NormalizeEdge(h[e]).relation = NormalizeEdge(g.edges[e]).relation
    <2> TAKE e \in DOMAIN g.edges
    <2>1. h[e] \in Edges /\ g.edges[e] \in Edges /\ h[e].relation = g.edges[e].relation
      BY DrawnMeaning DEF Alike
    <2> QED BY <2>1, NormalizedEdge
  <1>10. /\ DOMAIN k.nodes = DOMAIN g.nodes /\ DOMAIN k.edges = DOMAIN g.edges
         /\ \A n \in DOMAIN g.nodes : k.nodes[n].cfg = g.nodes[n].cfg
         /\ \A e \in DOMAIN g.edges :
              /\ k.edges[e].source = g.edges[e].source /\ k.edges[e].target = g.edges[e].target
              /\ NormalizeEdge(k.edges[e]).relation = NormalizeEdge(g.edges[e]).relation
    BY <1>8, <1>9 DEF Alike
  <1>11. Meaning(k) = Meaning(g)
    BY <1>1, <1>8, <1>10, SameMeaning
  <1> QED BY <1>6, <1>7, <1>11

\* A service is moved, and the routes of its edges are dropped.
LEMMA NodeMoved ==
    ASSUME NEW g, NEW authors, Drawable(g, authors), NEW n \in DOMAIN g.nodes,
           NEW k, k = [nodes |-> [g.nodes EXCEPT ![n].pos = "free"],
                       edges |-> InvalidateRoutesForMovedNodes(g.edges, {n})]
    PROVE  /\ Drawable(k, authors)
           /\ RoutesLead(g) => RoutesLead(k)
           /\ Meaning(k) = Meaning(g)
  <1>1. /\ g \in Graphs /\ Attached(g)
        /\ g.nodes \in [DOMAIN g.nodes -> Nodes] /\ g.edges \in [DOMAIN g.edges -> Edges]
    BY GraphParts DEF Drawable, Storable
  <1>2. PICK f, h : /\ f = [g.nodes EXCEPT ![n].pos = "free"]
                    /\ h = InvalidateRoutesForMovedNodes(g.edges, {n})
    OBVIOUS
  <1>3. /\ f \in [DOMAIN g.nodes -> Nodes]
        /\ \A m \in DOMAIN g.nodes : f[m].cfg = g.nodes[m].cfg /\ (m # n => f[m] = g.nodes[m])
    <2>1. g.nodes[n] \in Nodes /\ f = [g.nodes EXCEPT ![n] = [g.nodes[n] EXCEPT !.pos = "free"]]
      BY <1>1, <1>2
    <2>2. /\ [g.nodes[n] EXCEPT !.pos = "free"] \in Nodes
          /\ [g.nodes[n] EXCEPT !.pos = "free"].cfg = g.nodes[n].cfg
      BY <2>1 DEF Nodes
    <2> QED BY <1>1, <1>2, <2>1, <2>2
  <1>4. /\ DOMAIN h = DOMAIN g.edges /\ h = [e \in DOMAIN g.edges |-> h[e]]
        /\ \A e \in DOMAIN g.edges :
             h[e] = IF Touches(g.edges[e], {n}) THEN [g.edges[e] EXCEPT !.route = FALSE]
                                                ELSE g.edges[e]
    BY <1>1, <1>2 DEF InvalidateRoutesForMovedNodes
  <1>5. ASSUME NEW e \in DOMAIN g.edges
        PROVE  /\ h[e] \in Edges
               /\ h[e].source = g.edges[e].source /\ h[e].target = g.edges[e].target
               /\ h[e].relation = g.edges[e].relation /\ h[e].readiness = g.edges[e].readiness
               /\ h[e].review = g.edges[e].review
               /\ h[e].route => g.edges[e].route /\ ~Touches(g.edges[e], {n})
    <2>1. g.edges[e] \in Edges
      BY <1>1
    <2>2. CASE Touches(g.edges[e], {n})
      <3>1. h[e] = [g.edges[e] EXCEPT !.route = FALSE]
        BY <1>4, <2>2
      <3> QED BY <2>1, <3>1 DEF Edges
    <2>3. CASE ~Touches(g.edges[e], {n})
      <3>1. h[e] = g.edges[e]
        BY <1>4, <2>3
      <3> QED BY <2>1, <2>3, <3>1
    <2> QED BY <2>2, <2>3
  <1>6. h \in [DOMAIN g.edges -> Edges]
    <2>1. h = [e \in DOMAIN g.edges |-> h[e]] /\ \A e \in DOMAIN g.edges : h[e] \in Edges
      BY <1>4, <1>5
    <2> QED BY <2>1
  <1>7. k = [nodes |-> f, edges |-> h] /\ DOMAIN h = DOMAIN g.edges
    BY <1>2, <1>4
  <1>8. Drawable(k, authors) /\ k.nodes = f /\ k.edges = h /\ Meaning(k) = Meaning(g)
    <2>1. Alike(g, f, h)
      BY <1>3, <1>5, <1>6 DEF Alike
    <2> QED BY <1>7, <2>1, DrawnElsewhere
  <1>9. RoutesLead(g) => RoutesLead(k)
    <2> SUFFICES ASSUME RoutesLead(g), NEW e \in DOMAIN g.edges, h[e].route,
                        NEW m \in {h[e].source, h[e].target}
                 PROVE  f[m].pos = "tidy"
      BY <1>7, <1>8 DEF RoutesLead
    <2>1. /\ g.edges[e].route
          /\ m \in {g.edges[e].source, g.edges[e].target} /\ m # n
      BY <1>5 DEF Touches
    <2>2. m \in DOMAIN g.nodes /\ g.nodes[m].pos = "tidy"
      BY <1>1, <2>1 DEF Attached, RoutesLead
    <2> QED BY <1>3, <2>1, <2>2
  <1> QED BY <1>8, <1>9

\* The layout gives every service a place, and every edge a route.
LEMMA LaidOut ==
    ASSUME NEW g, NEW authors, Drawable(g, authors), NEW k, k = LayoutArchitecture(g)
    PROVE  Drawable(k, authors) /\ RoutesLead(k) /\ Meaning(k) = Meaning(g)
  <1>1. /\ g \in Graphs /\ Attached(g)
        /\ g.nodes \in [DOMAIN g.nodes -> Nodes] /\ g.edges \in [DOMAIN g.edges -> Edges]
    BY GraphParts DEF Drawable, Storable
  <1>2. PICK f, h : /\ f = [n \in DOMAIN g.nodes |-> [g.nodes[n] EXCEPT !.pos = "tidy"]]
                    /\ h = [e \in DOMAIN g.edges |-> [g.edges[e] EXCEPT
                              !.route = {g.edges[e].source, g.edges[e].target} \subseteq DOMAIN g.nodes]]
    OBVIOUS
  <1>3. ASSUME NEW n \in DOMAIN g.nodes
        PROVE  f[n] \in Nodes /\ f[n].cfg = g.nodes[n].cfg /\ f[n].pos = "tidy"
    <2>1. g.nodes[n] \in Nodes /\ f[n] = [g.nodes[n] EXCEPT !.pos = "tidy"]
      BY <1>1, <1>2
    <2> QED BY <2>1 DEF Nodes
  <1>4. ASSUME NEW e \in DOMAIN g.edges
        PROVE  /\ h[e] \in Edges
               /\ h[e].source = g.edges[e].source /\ h[e].target = g.edges[e].target
               /\ h[e].relation = g.edges[e].relation /\ h[e].readiness = g.edges[e].readiness
               /\ h[e].review = g.edges[e].review
    <2>1. g.edges[e] \in Edges
      BY <1>1
    <2>2. PICK route \in BOOLEAN :
            route = ({g.edges[e].source, g.edges[e].target} \subseteq DOMAIN g.nodes)
      OBVIOUS
    <2>3. h[e] = [g.edges[e] EXCEPT !.route = route]
      BY <1>2, <2>2
    <2> QED BY <2>1, <2>3 DEF Edges
  <1>5. /\ f \in [DOMAIN g.nodes -> Nodes] /\ h \in [DOMAIN g.edges -> Edges]
        /\ k = [nodes |-> f, edges |-> h]
    <2>1. f = [n \in DOMAIN g.nodes |-> f[n]] /\ h = [e \in DOMAIN g.edges |-> h[e]]
      BY <1>2
    <2>2. f \in [DOMAIN g.nodes -> Nodes]
      BY <1>3, <2>1
    <2>3. h \in [DOMAIN g.edges -> Edges]
      BY <1>4, <2>1
    <2> QED BY <1>2, <2>2, <2>3 DEF LayoutArchitecture
  <1>6. Drawable(k, authors) /\ k.nodes = f /\ k.edges = h /\ Meaning(k) = Meaning(g)
    <2>1. Alike(g, f, h)
      BY <1>3, <1>4, <1>5 DEF Alike
    <2> QED BY <1>5, <2>1, DrawnElsewhere
  <1>7. RoutesLead(k)
    <2> SUFFICES ASSUME NEW e \in DOMAIN g.edges, NEW m \in {h[e].source, h[e].target}
                 PROVE  f[m].pos = "tidy"
      BY <1>5, <1>6 DEF RoutesLead
    <2>1. m \in DOMAIN g.nodes
      BY <1>1, <1>4 DEF Attached
    <2> QED BY <1>3, <2>1
  <1> QED BY <1>6, <1>7

\* An edge is added, or takes the place of one (addEdge, updateEdge, saveGuidedEdge).
LEMMA EdgePut ==
    ASSUME NEW g, NEW authors, Drawable(g, authors), NEW id \in EdgeIds, NEW edge \in Edges,
           edge.source \in DOMAIN g.nodes, edge.target \in DOMAIN g.nodes,
           edge.relation \in EdgeRelations, edge.readiness \in EdgeReadinessOptions,
           NEW k, k = [nodes |-> g.nodes, edges |-> Extend(g.edges, id, edge)]
    PROVE  /\ Drawable(k, authors \cup {id})
           /\ RoutesLead(g)
              /\ (edge.route => \A n \in {edge.source, edge.target} : g.nodes[n].pos = "tidy")
                => RoutesLead(k)
           /\ Meaning(k) = [services |-> Meaning(g).services,
                            edges |-> Extend(Meaning(g).edges, id,
                                             <<edge.source, edge.target, edge.relation>>)]
  <1>1. /\ g \in Graphs /\ Attached(g)
        /\ DOMAIN g.nodes \in SUBSET Services /\ g.nodes \in [DOMAIN g.nodes -> Nodes]
        /\ DOMAIN g.edges \in SUBSET EdgeIds /\ g.edges \in [DOMAIN g.edges -> Edges]
    BY GraphParts DEF Drawable, Storable
  <1>2. PICK N, f, E, h : /\ N = DOMAIN g.nodes /\ f = g.nodes
                          /\ E = DOMAIN g.edges \union {id} /\ h = Extend(g.edges, id, edge)
    OBVIOUS
  <1>3. /\ N \in SUBSET Services /\ f \in [N -> Nodes]
        /\ E \in SUBSET EdgeIds /\ h \in [E -> Edges] /\ DOMAIN h = E
    BY <1>1, <1>2 DEF Extend
  <1>4. h[id] = edge /\ \A e \in E : e # id => e \in DOMAIN g.edges /\ h[e] = g.edges[e]
    BY <1>2 DEF Extend
  <1>5. k = [nodes |-> g.nodes, edges |-> h] /\ k \in Graphs /\ k.nodes = g.nodes /\ k.edges = h
    BY <1>1, <1>2, <1>3, PartsMakeGraph
  <1>6. Drawable(k, authors \cup {id})
    <2>1. \A e \in E : h[e].source \in N /\ h[e].target \in N
      BY <1>1, <1>2, <1>4 DEF Attached
    <2>2. \A e \in E : h[e].relation \in EdgeRelations /\ h[e].readiness \in EdgeReadinessOptions
      BY <1>4, DrawnMeaning
    <2>3. \A e \in E : e \in {id} \/ (e \in DOMAIN g.edges /\ h[e].review = g.edges[e].review)
      BY <1>4
    <2>4. Drawable([nodes |-> f, edges |-> h], authors \cup {id})
      BY <1>3, <2>1, <2>2, <2>3, Redrawn
    <2> QED BY <1>2, <1>5, <2>4
  <1>7. ASSUME RoutesLead(g),
               edge.route => \A n \in {edge.source, edge.target} : g.nodes[n].pos = "tidy"
        PROVE  RoutesLead(k)
    <2> SUFFICES ASSUME NEW e \in E, h[e].route, NEW m \in {h[e].source, h[e].target}
                 PROVE  g.nodes[m].pos = "tidy"
      BY <1>3, <1>5 DEF RoutesLead
    <2>1. CASE e = id
      BY <1>4, <1>7, <2>1
    <2>2. CASE e # id
      BY <1>4, <1>7, <2>2 DEF RoutesLead
    <2> QED BY <2>1, <2>2
  <1>8. Meaning(k).services = Meaning(g).services
    BY <1>1, <1>5, PartlyTheSame
  <1>9. Meaning(k).edges = Extend(Meaning(g).edges, id, <<edge.source, edge.target, edge.relation>>)
    <2>1. Meaning(k).edges = [e \in E |-> <<h[e].source, h[e].target, h[e].relation>>]
      <3>1. Meaning(k).edges = [e \in DOMAIN k.edges |->
                                  <<k.edges[e].source, k.edges[e].target, k.edges[e].relation>>]
        BY <1>6, DrawnMeaning
      <3> QED BY <1>3, <1>5, <3>1
    <2>2. Meaning(g).edges = [e \in DOMAIN g.edges |->
                               <<g.edges[e].source, g.edges[e].target, g.edges[e].relation>>]
      BY DrawnMeaning
    <2>3. DOMAIN Meaning(g).edges \union {id} = E
      BY <1>2, <2>2
    <2>4. \A e \in E : <<h[e].source, h[e].target, h[e].relation>> =
                        IF e = id THEN <<edge.source, edge.target, edge.relation>>
                                  ELSE Meaning(g).edges[e]
      BY <1>4, <2>2
    <2> QED BY <2>1, <2>3, <2>4 DEF Extend
  <1> QED BY <1>5, <1>6, <1>7, <1>8, <1>9, MeaningParts

-----------------------------------------------------------------------------
(* Every action keeps the invariant.                                       *)

\* What the actions start from.
LEMMA DrawnNow ==
    ASSUME EditorInv
    PROVE  /\ Drawable(graph, confirmed) /\ Storable(graph, confirmed) /\ Storable(store, confirmed)
           /\ graph \in Graphs /\ store \in Graphs
           /\ DOMAIN graph.nodes \subseteq Services /\ DOMAIN graph.edges \subseteq EdgeIds
  <1>1. Drawable(graph, confirmed) /\ Storable(graph, confirmed) /\ Storable(store, confirmed)
    BY DEF EditorInv, GraphsKept, Drawable
  <1> QED BY <1>1, GraphParts DEF Storable

\* An edit that stores a graph: it must be one that may be stored and, for one author who
\* waits, say what is wanted.
LEMMA StoredKeeps ==
    ASSUME EditorInv, alone' = alone, NEW k, Persist(k), confirmed \subseteq confirmed',
           Storable(k, confirmed'), DialogsTyped', edits' \in 0..MaxEdits[alone],
           alone => /\ layouts = {} /\ nodeDialog' = None
                    /\ RoutesLead(k) /\ Meaning(k) = wanted'
    PROVE  EditorInv' /\ NothingStale'
  <1>1. GraphsKept'
    BY PersistKeeps
  <1>2. EditorInv'
    BY <1>1 DEF EditorInv
  <1>3. ASSUME alone
        PROVE  NothingStale'
    <2>1. /\ store' = k /\ graph' = Loaded(k) /\ nodeDialog' = None
          /\ \A l \in layouts' : l = [g |-> Loaded(k), persist |-> FALSE]
      BY <1>3 DEF Persist, Commit
    <2>2. /\ Meaning(Loaded(k)) = wanted' /\ Meaning(k) = wanted'
          /\ RoutesLead(k) /\ RoutesLead(Loaded(k))
      BY <1>3, LoadedSaysTheSame
    <2>3. Meaning(graph)' = wanted' /\ Meaning(store)' = wanted' /\ RoutesLead(graph)' /\ RoutesLead(store)'
      BY <2>1, <2>2 DEF Meaning, RoutesLead
    <2>4. ASSUME NEW l \in layouts'
          PROVE  l.g = graph' /\ \A m \in layouts' : m = l
      <3>1. l = [g |-> Loaded(k), persist |-> FALSE] /\ \A m \in layouts' : m = l
        BY <2>1
      <3> QED BY <2>1, <3>1
    <2> QED BY <2>1, <2>3, <2>4 DEF NothingStale
  <1> QED BY <1>2, <1>3 DEF NothingStale

\* A change that is only drawn.
LEMMA DrawnKeeps ==
    ASSUME EditorInv, NothingStale, alone' = alone, NEW k, Commit(k), store' = store,
           confirmed' = confirmed, Drawable(k, confirmed), DialogsTyped',
           edits' \in 0..MaxEdits[alone],
           alone => /\ layouts = {} /\ nodeDialog' = None /\ wanted' = wanted
                    /\ RoutesLead(k) /\ Meaning(k) = wanted
    PROVE  EditorInv' /\ NothingStale'
  <1>1. GraphsKept'
    BY CommitKeeps, DrawnNow
  <1>2. EditorInv'
    BY <1>1 DEF EditorInv
  <1>3. ASSUME alone
        PROVE  NothingStale'
    <2>1. /\ graph' = k /\ nodeDialog' = None
          /\ \A l \in layouts' : l = [g |-> k, persist |-> FALSE]
      BY <1>3 DEF Commit
    <2>2. Meaning(store) = wanted /\ RoutesLead(store)
      BY <1>3 DEF NothingStale
    <2>3. Meaning(graph)' = wanted' /\ Meaning(store)' = wanted' /\ RoutesLead(graph)' /\ RoutesLead(store)'
      BY <1>3, <2>1, <2>2 DEF Meaning, RoutesLead
    <2>4. ASSUME NEW l \in layouts'
          PROVE  l.g = graph' /\ \A m \in layouts' : m = l
      <3>1. l = [g |-> k, persist |-> FALSE] /\ \A m \in layouts' : m = l
        BY <2>1
      <3> QED BY <2>1, <3>1
    <2> QED BY <2>1, <2>3, <2>4 DEF NothingStale
  <1> QED BY <1>2, <1>3 DEF NothingStale

\* An edit counts, and an author who waits has no layout under way.
LEMMA EditCounts ==
    ASSUME EditorInv, Edit
    PROVE  edits' \in 0..MaxEdits[alone] /\ (alone => layouts = {})
  <1>1. MaxEdits[alone] \in Nat /\ edits \in 0..MaxEdits[alone]
    BY GraphAssumption DEF EditorInv
  <1> QED BY <1>1 DEF Edit, Waited

\* What one author who waits knows before an edit.
LEMMA Unhurried ==
    ASSUME EditorInv, NothingStale, alone
    PROVE  /\ Meaning(graph) = wanted /\ RoutesLead(graph)
           /\ wanted = [services |-> wanted.services, edges |-> wanted.edges]
           /\ \A f : [wanted EXCEPT !.services = f] = [services |-> f, edges |-> wanted.edges]
           /\ \A f : [wanted EXCEPT !.edges = f] = [services |-> wanted.services, edges |-> f]
  <1>1. Meaning(graph) = wanted /\ RoutesLead(graph)
    BY DEF NothingStale
  <1>2. wanted = [services |-> wanted.services, edges |-> wanted.edges]
    BY <1>1, DrawnNow, MeaningParts
  <1>3. \A f : [wanted EXCEPT !.services = f] = [services |-> f, edges |-> wanted.edges]
    BY <1>2
  <1>4. \A f : [wanted EXCEPT !.edges = f] = [services |-> wanted.services, edges |-> f]
    BY <1>2
  <1> QED BY <1>1, <1>2, <1>3, <1>4

\* Adding a service from the palette.
LEMMA HandleAddNodeKeeps ==
    ASSUME EditorInv, NothingStale, alone' = alone, NEW n \in Services, HandleAddNode(n)
    PROVE  EditorInv' /\ NothingStale'
  <1>1. PICK node : node = [pos |-> "free", cfg |-> DefaultConfig(n)]
    OBVIOUS
  <1>2. node \in Nodes /\ node.cfg = DefaultConfig(n)
    BY <1>1, GraphAssumption DEF Nodes, DefaultConfig
  <1>3. PICK k : k = [nodes |-> Extend(graph.nodes, n, node), edges |-> graph.edges]
    OBVIOUS
  <1>4. Edit /\ n \notin DOMAIN graph.nodes /\ confirmed' = confirmed /\ DialogsTyped' /\ nodeDialog' = None
    BY DEF HandleAddNode, Still, NoDialog, EditorInv, DialogsTyped
  <1>5. Persist(k)
    BY <1>1, <1>3, DrawnNow, GraphParts DEF HandleAddNode, AddNode
  <1>6. /\ Storable(k, confirmed)
        /\ RoutesLead(graph) => RoutesLead(k)
        /\ Meaning(k) = [services |-> Extend(Meaning(graph).services, n, node.cfg),
                         edges |-> Meaning(graph).edges]
    BY <1>2, <1>3, <1>4, DrawnNow, NodeAdded DEF Drawable
  <1>7. ASSUME alone
        PROVE  RoutesLead(k) /\ Meaning(k) = wanted'
    <2>1. wanted' = [services |-> Extend(wanted.services, n, DefaultConfig(n)), edges |-> wanted.edges]
      BY <1>7, Unhurried DEF HandleAddNode
    <2> QED BY <1>2, <1>6, <1>7, <2>1, Unhurried
  <1>8. edits' \in 0..MaxEdits[alone] /\ (alone => layouts = {})
    BY <1>4, EditCounts
  <1> QED BY <1>4, <1>5, <1>6, <1>7, <1>8, StoredKeeps

\* Saving the dialog of a service: for one author it still shows the node that is drawn.
LEMMA SaveNodeConfigKeeps ==
    ASSUME EditorInv, NothingStale, alone' = alone, NEW cfg \in Configs, SaveNodeConfig(cfg)
    PROVE  EditorInv' /\ NothingStale'
  <1>1. PICK id, node : id = nodeDialog.id /\ node = [nodeDialog.node EXCEPT !.cfg = cfg]
    OBVIOUS
  <1>2. id \in Services /\ nodeDialog.node \in Nodes /\ nodeDialog # None
    BY <1>1 DEF SaveNodeConfig, EditorInv, DialogsTyped
  <1>3. node \in Nodes /\ node.cfg = cfg /\ node.pos = nodeDialog.node.pos
    BY <1>1, <1>2 DEF Nodes
  <1>4. PICK f : f = [n \in DOMAIN graph.nodes |-> IF n = id THEN node ELSE graph.nodes[n]]
    OBVIOUS
  <1>5. PICK k : k = [nodes |-> f, edges |-> graph.edges]
    OBVIOUS
  <1>6. Edit /\ confirmed' = confirmed /\ DialogsTyped' /\ nodeDialog' = None
    BY DEF SaveNodeConfig, EditorInv, DialogsTyped
  <1>7. Persist(k)
    BY <1>1, <1>4, <1>5, DrawnNow, GraphParts DEF SaveNodeConfig, UpdateNode
  <1>8. /\ Storable(k, confirmed)
        /\ RoutesLead(graph) /\ (id \in DOMAIN graph.nodes => node.pos = graph.nodes[id].pos) => RoutesLead(k)
        /\ Meaning(k) = [services |-> [n \in DOMAIN Meaning(graph).services |->
                                         IF n = id THEN node.cfg ELSE Meaning(graph).services[n]],
                         edges |-> Meaning(graph).edges]
    BY <1>2, <1>3, <1>4, <1>5, DrawnNow, NodeReplaced DEF Drawable
  <1>9. ASSUME alone
        PROVE  RoutesLead(k) /\ Meaning(k) = wanted'
    <2>1. graph.nodes[id] = nodeDialog.node
      BY <1>1, <1>2, <1>9 DEF NothingStale
    <2>2. RoutesLead(k)
      BY <1>3, <1>8, <1>9, <2>1, Unhurried
    <2>3. wanted' = [services |-> [n \in DOMAIN wanted.services |->
                                     IF n = id THEN cfg ELSE wanted.services[n]],
                     edges |-> wanted.edges]
      BY <1>1, <1>9, Unhurried DEF SaveNodeConfig
    <2> QED BY <1>3, <1>8, <1>9, <2>2, <2>3, Unhurried
  <1> QED BY <1>6, <1>7, <1>8, <1>9, EditCounts, StoredKeeps

\* Removing a service and the edges that touch it, from either place that offers it.
LEMMA DeleteNodeKeeps ==
    ASSUME EditorInv, NothingStale, alone' = alone, NEW n \in Services, Edit, DeleteNode(n),
           confirmed' = confirmed, DialogsTyped', alone => nodeDialog' = None
    PROVE  EditorInv' /\ NothingStale'
  <1>1. PICK k : k = RemoveServiceFromGraph(graph, n)
    OBVIOUS
  <1>2. Persist(k) /\ WantRemoved(n)
    BY <1>1 DEF DeleteNode
  <1>3. /\ Storable(k, confirmed)
        /\ RoutesLead(graph) => RoutesLead(k)
        /\ Meaning(k) =
             [services |-> Restrict(Meaning(graph).services, DOMAIN Meaning(graph).services \ {n}),
              edges |-> Restrict(Meaning(graph).edges,
                          {e \in DOMAIN Meaning(graph).edges :
                             n \notin {Meaning(graph).edges[e][1], Meaning(graph).edges[e][2]}})]
    BY <1>1, DrawnNow, ServiceRemoved DEF Drawable
  <1>4. ASSUME alone
        PROVE  RoutesLead(k) /\ Meaning(k) = wanted'
    <2>1. wanted = Meaning(graph) /\ RoutesLead(graph)
      BY <1>4, Unhurried
    <2>2. Meaning(k) = wanted'
      BY <1>2, <1>3, <2>1 DEF WantRemoved
    <2> QED BY <1>3, <2>1, <2>2
  <1>5. edits' \in 0..MaxEdits[alone] /\ (alone => layouts = {})
    BY EditCounts
  <1> QED BY <1>2, <1>3, <1>4, <1>5, StoredKeeps

\* The two ways to a removal: the confirmation dialog and the button on the canvas.
LEMMA RemovalsKeep ==
    ASSUME EditorInv, NothingStale, alone' = alone,
           ConfirmServiceRemoval \/ \E n \in Services : DeleteOnCanvas(n)
    PROVE  EditorInv' /\ NothingStale'
  <1>1. CASE ConfirmServiceRemoval
    <2>1. removal \in Services /\ Edit /\ DeleteNode(removal) /\ confirmed' = confirmed /\ DialogsTyped'
      BY <1>1 DEF ConfirmServiceRemoval, EditorInv, DialogsTyped
    <2>2. alone => nodeDialog' = None
      BY <1>1 DEF ConfirmServiceRemoval, NothingStale
    <2> QED BY <2>1, <2>2, DeleteNodeKeeps
  <1>2. ASSUME NEW n \in Services, DeleteOnCanvas(n)
        PROVE  EditorInv' /\ NothingStale'
    <2>1. Edit /\ DeleteNode(n) /\ confirmed' = confirmed /\ DialogsTyped' /\ nodeDialog' = None
      BY <1>2 DEF DeleteOnCanvas, Still, NoDialog, EditorInv, DialogsTyped
    <2> QED BY <2>1, DeleteNodeKeeps
  <1> QED BY <1>1, <1>2

\* The Delete key changes the drawing and not the store; one author does not use it.
LEMMA PressDeleteKeeps ==
    ASSUME EditorInv, NothingStale, alone' = alone, NEW n \in Services, PressDelete(n)
    PROVE  EditorInv' /\ NothingStale'
  <1>1. PICK gone : gone = {e \in DOMAIN graph.edges : Touches(graph.edges[e], {n})}
    OBVIOUS
  <1>2. ~alone /\ Edit /\ confirmed' = confirmed /\ DialogsTyped'
    BY DEF PressDelete, Still, EditorInv, DialogsTyped
  <1>3. edits' \in 0..MaxEdits[alone]
    BY <1>2, EditCounts
  <1>4. CASE gone # {}
    <2>1. PICK k : k = [nodes |-> graph.nodes, edges |-> Restrict(graph.edges, DOMAIN graph.edges \ gone)]
      OBVIOUS
    <2>2. Persist(k)
      BY <1>1, <1>4, <2>1, DrawnNow, GraphParts DEF PressDelete, EdgesRemoved
    <2>3. Storable(k, confirmed)
      BY <2>1, DrawnNow, EdgesGone DEF Drawable
    <2> QED BY <1>2, <1>3, <2>2, <2>3, StoredKeeps
  <1>5. CASE gone = {}
    <2>1. PICK k : k = [nodes |-> Restrict(graph.nodes, DOMAIN graph.nodes \ {n}), edges |-> graph.edges]
      OBVIOUS
    <2>2. Commit(k) /\ store' = store
      <3>1. /\ Commit([graph EXCEPT !.nodes = Restrict(@, DOMAIN @ \ {n})])
            /\ store' = store
        BY <1>1, <1>5 DEF PressDelete
      <3> QED BY <2>1, <3>1, DrawnNow, GraphParts
    <2>3. \A e \in DOMAIN graph.edges : ~Touches(graph.edges[e], {n})
      BY <1>1, <1>5
    <2>4. Drawable(k, confirmed)
      BY <2>1, <2>3, DrawnNow, LoneNodeGone
    <2> QED BY <1>2, <1>3, <2>2, <2>4, DrawnKeeps
  <1> QED BY <1>4, <1>5

\* Dragging a service: its routes are dropped, and stored when the pointer is released.
LEMMA DragKeeps ==
    ASSUME EditorInv, NothingStale, alone' = alone,
           NEW n \in Services, NEW dropped \in BOOLEAN, Drag(n, dropped)
    PROVE  EditorInv' /\ NothingStale'
  <1>1. PICK k : k = [nodes |-> [graph.nodes EXCEPT ![n].pos = "free"],
                      edges |-> InvalidateRoutesForMovedNodes(graph.edges, {n})]
    OBVIOUS
  <1>2. /\ n \in DOMAIN graph.nodes /\ confirmed' = confirmed /\ wanted' = wanted
        /\ DialogsTyped' /\ nodeDialog' = None
    BY DEF Drag, NoDialog, Still, EditorInv, DialogsTyped
  <1>3. /\ Drawable(k, confirmed) /\ Storable(k, confirmed)
        /\ RoutesLead(graph) => RoutesLead(k)
        /\ Meaning(k) = Meaning(graph)
    BY <1>1, <1>2, DrawnNow, NodeMoved DEF Drawable
  <1>4. alone => RoutesLead(k) /\ Meaning(k) = wanted
    BY <1>3, Unhurried
  <1>5. CASE dropped
    <2>1. Edit /\ Persist(k)
      BY <1>1, <1>5 DEF Drag
    <2>2. edits' \in 0..MaxEdits[alone] /\ (alone => layouts = {})
      BY <2>1, EditCounts
    <2> QED BY <1>2, <1>3, <1>4, <2>1, <2>2, StoredKeeps
  <1>6. CASE ~dropped
    <2>1. Commit(k) /\ store' = store /\ edits' = edits /\ (alone => layouts = {})
      BY <1>1, <1>6 DEF Drag, Waited
    <2>2. edits' \in 0..MaxEdits[alone]
      BY <2>1 DEF EditorInv
    <2> QED BY <1>2, <1>3, <1>4, <2>1, <2>2, DrawnKeeps
  <1> QED BY <1>5, <1>6

\* A connection is added by addEdge or not at all, or it takes the place of one.
LEMMA EdgeAdded ==
    ASSUME NEW id, NEW edge, NEW edges
    PROVE  AddEdge(id, edge, edges) \in {edges, Extend(edges, id, edge)}
  BY DEF AddEdge

\* Replacing an edge that is drawn is adding it under its id.
LEMMA EdgeReplaced ==
    ASSUME EditorInv, NEW id \in DOMAIN graph.edges, NEW edge
    PROVE  [graph.edges EXCEPT ![id] = edge] = Extend(graph.edges, id, edge)
  <1>1. graph.edges \in [DOMAIN graph.edges -> Edges]
    BY DrawnNow, GraphParts
  <1>2. DOMAIN graph.edges \union {id} = DOMAIN graph.edges
    OBVIOUS
  <1> QED BY <1>1, <1>2 DEF Extend

\* Storing the graph with such an edge.
LEMMA EdgeStored ==
    ASSUME EditorInv, NothingStale, alone' = alone, Edit,
           NEW id \in EdgeIds, NEW edge \in Edges, NEW edges \in {graph.edges, Extend(graph.edges, id, edge)},
           edge.source \in DOMAIN graph.nodes, edge.target \in DOMAIN graph.nodes,
           edge.relation \in EdgeRelations, edge.readiness \in EdgeReadinessOptions,
           alone /\ edge.route => \A n \in {edge.source, edge.target} : graph.nodes[n].pos = "tidy",
           Persist([graph EXCEPT !.edges = edges]), confirmed' = confirmed \union {id},
           DialogsTyped', alone => nodeDialog' = None,
           alone => wanted' = [wanted EXCEPT !.edges =
                       IF edges = graph.edges THEN @
                       ELSE Extend(@, id, <<edge.source, edge.target, edge.relation>>)]
    PROVE  EditorInv' /\ NothingStale'
  <1>1. edits' \in 0..MaxEdits[alone] /\ (alone => layouts = {})
    BY EditCounts
  <1>2. PICK k : k = [nodes |-> graph.nodes, edges |-> edges]
    OBVIOUS
  <1>3. Persist(k)
    BY <1>2, DrawnNow, GraphParts
  <1>4. confirmed \subseteq confirmed'
    OBVIOUS
  <1>5. CASE edges = graph.edges
    <2>1. k = graph
      BY <1>2, <1>5, DrawnNow, GraphParts
    <2>2. Storable(k, confirmed')
      BY <1>4, <2>1, DrawnNow, MoreConfirmed
    <2>3. ASSUME alone
          PROVE  RoutesLead(k) /\ Meaning(k) = wanted'
      BY <1>5, <2>1, <2>3, Unhurried
    <2> QED BY <1>1, <1>3, <1>4, <2>2, <2>3, StoredKeeps
  <1>6. CASE edges # graph.edges
    <2>1. edges = Extend(graph.edges, id, edge)
      BY <1>6
    <2>2. /\ Storable(k, confirmed')
          /\ RoutesLead(graph)
             /\ (edge.route => \A n \in {edge.source, edge.target} : graph.nodes[n].pos = "tidy")
               => RoutesLead(k)
          /\ Meaning(k) = [services |-> Meaning(graph).services,
                           edges |-> Extend(Meaning(graph).edges, id,
                                            <<edge.source, edge.target, edge.relation>>)]
      BY <1>2, <2>1, DrawnNow, EdgePut DEF Drawable
    <2>3. ASSUME alone
          PROVE  RoutesLead(k) /\ Meaning(k) = wanted'
      <3>1. wanted' = [services |-> wanted.services,
                       edges |-> Extend(wanted.edges, id, <<edge.source, edge.target, edge.relation>>)]
        BY <1>6, <2>3, Unhurried
      <3> QED BY <2>2, <2>3, <3>1, Unhurried
    <2> QED BY <1>1, <1>3, <1>4, <2>2, <2>3, StoredKeeps
  <1> QED BY <1>5, <1>6

\* What is inferred from two types is a relation.
LEMMA InferredRelation ==
    ASSUME NEW source, NEW target
    PROVE  InferRelation(source, target) \in EdgeRelations
  BY DEF InferRelation, EdgeRelations

\* Drawing a connection between two handles.
LEMMA ConnectNodesKeeps ==
    ASSUME EditorInv, NothingStale, alone' = alone,
           NEW source \in Services, NEW target \in Services, NEW id \in EdgeIds,
           ConnectNodes(source, target, id)
    PROVE  EditorInv' /\ NothingStale'
  <1>1. PICK relation \in EdgeRelations : relation = InferRelation(TypeOf[source], TypeOf[target])
    BY InferredRelation
  <1>2. PICK edge : edge = EdgeBetween(source, target, relation, TRUE)
    OBVIOUS
  <1>3. PICK edges : edges = AddEdge(id, edge, graph.edges)
    OBVIOUS
  <1>4. /\ edge \in Edges /\ edge.source = source /\ edge.target = target
        /\ edge.relation = relation /\ edge.readiness \in EdgeReadinessOptions /\ ~edge.route
    BY <1>2 DEF EdgeBetween, Edges, DefaultReadiness, EdgeReadinessOptions
  <1>5. edges \in {graph.edges, Extend(graph.edges, id, edge)}
    BY <1>3, EdgeAdded
  <1>6. /\ Edit /\ source \in DOMAIN graph.nodes /\ target \in DOMAIN graph.nodes
        /\ Persist([graph EXCEPT !.edges = edges])
        /\ confirmed' = confirmed \union {id} /\ WantEdge(id, edge, edges)
    BY <1>1, <1>2, <1>3 DEF ConnectNodes
  <1>7. DialogsTyped' /\ nodeDialog' = None
    BY DEF ConnectNodes, NoDialog, EditorInv, DialogsTyped
  <1>8. wanted' = [wanted EXCEPT !.edges =
                     IF edges = graph.edges THEN @
                     ELSE Extend(@, id, <<edge.source, edge.target, edge.relation>>)]
    BY <1>6 DEF WantEdge
  <1> QED BY <1>4, <1>5, <1>6, <1>7, <1>8, EdgeStored

\* Confirming a relation writes it into the drawn edge and takes the review mark away.
LEMMA UpdateEdgeKeeps ==
    ASSUME EditorInv, NothingStale, alone' = alone, Edit,
           NEW id \in DOMAIN graph.edges, NEW relation \in EdgeRelations, UpdateEdge(id, relation),
           DialogsTyped', alone => nodeDialog' = None
    PROVE  EditorInv' /\ NothingStale'
  <1>1. PICK edge : edge = [graph.edges[id] EXCEPT !.relation = relation, !.review = FALSE]
    OBVIOUS
  <1>2. /\ id \in EdgeIds /\ graph.edges[id] \in Edges /\ Attached(graph)
        /\ graph.edges[id].readiness \in EdgeReadinessOptions
    BY DrawnNow, DrawnMeaning DEF Storable
  <1>3. /\ edge \in Edges /\ edge.relation = relation
        /\ edge.source = graph.edges[id].source /\ edge.target = graph.edges[id].target
        /\ edge.readiness = graph.edges[id].readiness /\ edge.route = graph.edges[id].route
    BY <1>1, <1>2 DEF Edges
  <1>4. edge.source \in DOMAIN graph.nodes /\ edge.target \in DOMAIN graph.nodes
    BY <1>2, <1>3 DEF Attached
  <1>5. alone /\ edge.route => \A n \in {edge.source, edge.target} : graph.nodes[n].pos = "tidy"
    BY <1>3, Unhurried DEF RoutesLead
  <1>6. PICK edges : edges = Extend(graph.edges, id, edge)
    OBVIOUS
  <1>7. Persist([graph EXCEPT !.edges = edges]) /\ confirmed' = confirmed \union {id}
    <2>1. Persist([graph EXCEPT !.edges[id] = edge]) /\ confirmed' = confirmed \union {id}
      BY <1>1 DEF UpdateEdge
    <2>2. [graph EXCEPT !.edges[id] = edge] = [graph EXCEPT !.edges = [graph.edges EXCEPT ![id] = edge]]
      BY DrawnNow, GraphParts
    <2>3. [graph.edges EXCEPT ![id] = edge] = edges
      BY <1>6, EdgeReplaced
    <2> QED BY <2>1, <2>2, <2>3
  <1>8. ASSUME alone
        PROVE  wanted' = [wanted EXCEPT !.edges =
                            IF edges = graph.edges THEN @
                            ELSE Extend(@, id, <<edge.source, edge.target, edge.relation>>)]
    <2>1. /\ DOMAIN wanted.edges = DOMAIN graph.edges
          /\ wanted.edges = [e \in DOMAIN graph.edges |->
                              <<graph.edges[e].source, graph.edges[e].target, graph.edges[e].relation>>]
      BY <1>8, Unhurried, DrawnNow, DrawnMeaning
    <2>2. PICK new : new = [e \in DOMAIN wanted.edges |->
                              IF e = id THEN <<edge.source, edge.target, relation>> ELSE wanted.edges[e]]
      OBVIOUS
    <2>3. wanted' = [wanted EXCEPT !.edges = new]
      BY <1>1, <2>2 DEF UpdateEdge
    <2>4. new = Extend(wanted.edges, id, <<edge.source, edge.target, edge.relation>>)
      <3>1. DOMAIN wanted.edges \union {id} = DOMAIN wanted.edges
        BY <2>1
      <3> QED BY <1>3, <2>2, <3>1 DEF Extend
    <2>5. CASE edges = graph.edges
      <3>1. graph.edges[id] = edge
        BY <1>6, <2>5 DEF Extend
      <3>2. wanted.edges[id] = <<edge.source, edge.target, relation>>
        BY <1>3, <2>1, <3>1
      <3>3. new = wanted.edges
        BY <2>1, <2>2, <3>2
      <3> QED BY <2>3, <2>5, <3>3
    <2>6. CASE edges # graph.edges
      BY <2>3, <2>4, <2>6
    <2> QED BY <2>5, <2>6
  <1> QED BY <1>2, <1>3, <1>4, <1>5, <1>6, <1>7, <1>8, EdgeStored

\* The two dialogs that confirm a connection.
LEMMA ConfirmationsKeep ==
    ASSUME EditorInv, NothingStale, alone' = alone,
           (\E relation \in Choices : ConfirmEdge(relation)) \/ \E id \in EdgeIds : ConfirmConnection(id)
    PROVE  EditorInv' /\ NothingStale'
  <1>1. ASSUME NEW relation \in Choices, ConfirmEdge(relation)
        PROVE  EditorInv' /\ NothingStale'
    <2>1. Edit /\ editing \in DOMAIN graph.edges /\ UpdateEdge(editing, relation) /\ DialogsTyped'
      BY <1>1 DEF ConfirmEdge, EditorInv, DialogsTyped
    <2>2. relation \in EdgeRelations
      BY GraphAssumption
    <2>3. alone => nodeDialog' = None
      BY <1>1 DEF ConfirmEdge, NothingStale
    <2> QED BY <2>1, <2>2, <2>3, UpdateEdgeKeeps
  <1>2. ASSUME NEW id \in EdgeIds, ConfirmConnection(id)
        PROVE  EditorInv' /\ NothingStale'
    <2>1. /\ Edit /\ id \in DOMAIN graph.edges /\ UpdateEdge(id, graph.edges[id].relation)
          /\ DialogsTyped' /\ nodeDialog' = None
      BY <1>2 DEF ConfirmConnection, Still, NoDialog, EditorInv, DialogsTyped
    <2>2. graph.edges[id].relation \in EdgeRelations
      BY <2>1, DrawnNow, DrawnMeaning
    <2> QED BY <2>1, <2>2, UpdateEdgeKeeps
  <1> QED BY <1>1, <1>2

\* Deleting one edge.
LEMMA DeleteEdgeKeeps ==
    ASSUME EditorInv, NothingStale, alone' = alone, NEW id \in EdgeIds, DeleteEdge(id)
    PROVE  EditorInv' /\ NothingStale'
  <1>1. PICK gone : gone = {id}
    OBVIOUS
  <1>2. PICK k : k = [nodes |-> graph.nodes, edges |-> Restrict(graph.edges, DOMAIN graph.edges \ gone)]
    OBVIOUS
  <1>3. /\ Edit /\ DialogsTyped' /\ nodeDialog' = None /\ confirmed' = confirmed
        /\ EdgesRemoved(gone)
        /\ wanted' = [wanted EXCEPT !.edges = Restrict(@, DOMAIN @ \ gone)]
    BY <1>1 DEF DeleteEdge, Still, NoDialog, EditorInv, DialogsTyped
  <1>4. Persist(k)
    BY <1>2, <1>3, DrawnNow, GraphParts DEF EdgesRemoved
  <1>5. /\ Storable(k, confirmed)
        /\ RoutesLead(graph) => RoutesLead(k)
        /\ Meaning(k) = [services |-> Meaning(graph).services,
                         edges |-> Restrict(Meaning(graph).edges, DOMAIN Meaning(graph).edges \ gone)]
    BY <1>2, DrawnNow, EdgesGone DEF Drawable
  <1>6. ASSUME alone
        PROVE  RoutesLead(k) /\ Meaning(k) = wanted'
    <2>1. wanted' = [services |-> wanted.services,
                     edges |-> Restrict(wanted.edges, DOMAIN wanted.edges \ gone)]
      BY <1>3, <1>6, Unhurried
    <2> QED BY <1>5, <1>6, <2>1, Unhurried
  <1>7. edits' \in 0..MaxEdits[alone] /\ (alone => layouts = {})
    BY <1>3, EditCounts
  <1> QED BY <1>3, <1>4, <1>5, <1>6, <1>7, StoredKeeps

\* The guided stage saves a connection: over an edge that exists, or as a new one.
LEMMA SaveGuidedEdgeKeeps ==
    ASSUME EditorInv, NothingStale, alone' = alone,
           NEW id, NEW source \in Services, NEW target \in Services, NEW relation \in EdgeRelations,
           NEW fresh \in EdgeIds, SaveGuidedEdge(id, source, target, relation, fresh),
           DialogsTyped', nodeDialog' = nodeDialog
    PROVE  EditorInv' /\ NothingStale'
  <1>1. PICK existing : existing = Existing(id, source, target, relation)
    OBVIOUS
  <1>2. PICK key \in IF existing = {} THEN {fresh} ELSE existing :
          LET edge == EdgeBetween(source, target, relation, existing # {} /\ graph.edges[key].handles)
              edges == IF existing = {} THEN AddEdge(fresh, edge, graph.edges)
                                        ELSE [graph.edges EXCEPT ![key] = edge]
          IN /\ Persist([graph EXCEPT !.edges = edges])
             /\ confirmed' = confirmed \union {key}
             /\ WantEdge(key, edge, edges)
    BY <1>1 DEF SaveGuidedEdge
  <1>3. PICK edge : edge = EdgeBetween(source, target, relation, existing # {} /\ graph.edges[key].handles)
    OBVIOUS
  <1>4. PICK edges : edges = IF existing = {} THEN AddEdge(fresh, edge, graph.edges)
                                              ELSE [graph.edges EXCEPT ![key] = edge]
    OBVIOUS
  <1>5. /\ edge \in Edges /\ edge.source = source /\ edge.target = target
        /\ edge.relation = relation /\ edge.readiness \in EdgeReadinessOptions /\ ~edge.route
    <2>1. (existing # {} /\ graph.edges[key].handles) \in BOOLEAN
      OBVIOUS
    <2> QED BY <1>3, <2>1 DEF EdgeBetween, Edges, DefaultReadiness, EdgeReadinessOptions
  <1>6. /\ Persist([graph EXCEPT !.edges = edges]) /\ confirmed' = confirmed \union {key}
        /\ WantEdge(key, edge, edges)
    BY <1>2, <1>3, <1>4
  <1>7. /\ key \in EdgeIds
        /\ edges \in {graph.edges, Extend(graph.edges, key, edge)}
    <2>1. existing \subseteq DOMAIN graph.edges
      BY <1>1 DEF Existing
    <2>2. CASE existing = {}
      BY <1>2, <1>4, <2>2, EdgeAdded
    <2>3. CASE existing # {}
      <3>1. key \in DOMAIN graph.edges /\ key \in EdgeIds
        BY <1>2, <2>1, <2>3, DrawnNow
      <3> QED BY <1>4, <2>3, <3>1, EdgeReplaced
    <2> QED BY <2>2, <2>3
  <1>8. Edit /\ source \in DOMAIN graph.nodes /\ target \in DOMAIN graph.nodes /\ nodeDialog' = None
    BY DEF SaveGuidedEdge, NoDialog
  <1>9. wanted' = [wanted EXCEPT !.edges =
                     IF edges = graph.edges THEN @
                     ELSE Extend(@, key, <<edge.source, edge.target, edge.relation>>)]
    BY <1>6 DEF WantEdge
  <1> QED BY <1>5, <1>6, <1>7, <1>8, <1>9, EdgeStored

\* The two places of the guided stage that save a connection.
LEMMA GuidedKeeps ==
    ASSUME EditorInv, NothingStale, alone' = alone,
           NEW source \in Services, NEW target \in Services, NEW fresh \in EdgeIds,
           AcceptSuggestion(source, target, fresh)
             \/ \E relation \in Choices : SaveDraft(source, target, relation, fresh)
    PROVE  EditorInv' /\ NothingStale'
  <1>1. CASE AcceptSuggestion(source, target, fresh)
    <2>1. PICK relation \in EdgeRelations : relation = InferRelation(TypeOf[source], TypeOf[target])
      BY InferredRelation
    <2>2. SaveGuidedEdge("new", source, target, relation, fresh) /\ DialogsTyped' /\ nodeDialog' = nodeDialog
      BY <1>1, <2>1 DEF AcceptSuggestion, Still, EditorInv, DialogsTyped
    <2> QED BY <2>2, SaveGuidedEdgeKeeps
  <1>2. ASSUME NEW relation \in Choices, SaveDraft(source, target, relation, fresh)
        PROVE  EditorInv' /\ NothingStale'
    <2>1. SaveGuidedEdge(draft, source, target, relation, fresh) /\ DialogsTyped' /\ nodeDialog' = nodeDialog
      BY <1>2 DEF SaveDraft, EditorInv, DialogsTyped
    <2>2. relation \in EdgeRelations
      BY GraphAssumption
    <2> QED BY <2>1, <2>2, SaveGuidedEdgeKeeps
  <1> QED BY <1>1, <1>2

\* Asking for a layout captures the drawn graph; one author asks for one at a time.
LEMMA TidyLayoutKeeps ==
    ASSUME EditorInv, NothingStale, alone' = alone, TidyLayout
    PROVE  EditorInv' /\ NothingStale'
  <1>1. /\ Edit /\ layouts' = layouts \union {[g |-> graph, persist |-> TRUE]} /\ nodeDialog' = None
        /\ UNCHANGED <<graph, store, autoLaid, wanted, confirmed>> /\ DialogsTyped'
    BY DEF TidyLayout, NoDialog, Still, EditorInv, DialogsTyped
  <1>2. edits' \in 0..MaxEdits[alone] /\ (alone => layouts = {})
    BY <1>1, EditCounts
  <1>3. ASSUME NEW l \in layouts'
        PROVE  l \in Layouts /\ Drawable(l.g, confirmed)
    <2>1. CASE l \in layouts
      BY <2>1 DEF EditorInv, GraphsKept
    <2>2. CASE l = [g |-> graph, persist |-> TRUE]
      BY <2>2, DrawnNow DEF Layouts
    <2> QED BY <1>1, <2>1, <2>2
  <1>4. GraphsKept'
    <2>1. autoLaid' \in BOOLEAN /\ layouts' \subseteq Layouts
      BY <1>1, <1>3 DEF EditorInv, GraphsKept
    <2> QED BY <1>1, <1>3, <2>1, DrawnNow DEF GraphsKept
  <1>5. EditorInv'
    BY <1>1, <1>2, <1>4 DEF EditorInv
  <1>6. ASSUME alone
        PROVE  NothingStale'
    <2>1. \A l \in layouts' : l = [g |-> graph, persist |-> TRUE]
      BY <1>1, <1>2, <1>6
    <2>2. ASSUME NEW l \in layouts'
          PROVE  l.g = graph' /\ \A m \in layouts' : m = l
      <3>1. l = [g |-> graph, persist |-> TRUE] /\ \A m \in layouts' : m = l
        BY <2>1
      <3> QED BY <1>1, <3>1
    <2>3. Meaning(graph)' = wanted' /\ Meaning(store)' = wanted' /\ RoutesLead(graph)' /\ RoutesLead(store)'
      BY <1>1, <1>6 DEF NothingStale, Meaning, RoutesLead
    <2> QED BY <1>1, <2>2, <2>3 DEF NothingStale
  <1> QED BY <1>5, <1>6 DEF NothingStale

\* A layout that was awaited puts back the graph it captured, which for one author is the drawn one.
LEMMA LayoutDoneKeeps ==
    ASSUME EditorInv, NothingStale, alone' = alone, NEW l \in layouts, LayoutDone(l)
    PROVE  EditorInv' /\ NothingStale'
  <1>1. PICK k : k = LayoutArchitecture(l.g)
    OBVIOUS
  <1>2. /\ layouts' = layouts \ {l}
        /\ store' = IF l.persist THEN k ELSE store
        /\ graph' = IF l.persist THEN Loaded(k) ELSE k
        /\ UNCHANGED <<autoLaid, wanted, confirmed, edits>>
        /\ UNCHANGED <<nodeDialog, editing, removal, draft>>
    BY <1>1 DEF LayoutDone, Still
  <1>3. Drawable(l.g, confirmed)
    BY DEF EditorInv, GraphsKept
  <1>4. Drawable(k, confirmed) /\ Storable(k, confirmed) /\ RoutesLead(k) /\ Meaning(k) = Meaning(l.g)
    BY <1>1, <1>3, LaidOut DEF Drawable
  <1>5. Drawable(Loaded(k), confirmed) /\ RoutesLead(Loaded(k)) /\ Meaning(Loaded(k)) = Meaning(l.g)
    BY <1>4, LoadedIsDrawable, LoadedSaysTheSame
  <1>6. Storable(store', confirmed) /\ Drawable(graph', confirmed)
    BY <1>2, <1>4, <1>5, DrawnNow
  <1>7. GraphsKept'
    <2>1. autoLaid' \in BOOLEAN /\ layouts' \subseteq Layouts /\ \A m \in layouts' : Drawable(m.g, confirmed)
      BY <1>2 DEF EditorInv, GraphsKept
    <2> QED BY <1>2, <1>6, <2>1 DEF GraphsKept
  <1>8. EditorInv'
    <2>1. DialogsTyped' /\ alone' \in BOOLEAN /\ edits' \in 0..MaxEdits[alone]
      BY <1>2 DEF EditorInv, DialogsTyped
    <2> QED BY <1>7, <2>1 DEF EditorInv
  <1>9. ASSUME alone
        PROVE  NothingStale'
    <2>1. /\ l.g = graph /\ layouts = {l} /\ nodeDialog = None
          /\ Meaning(graph) = wanted /\ Meaning(store) = wanted /\ RoutesLead(store)
      BY <1>9 DEF NothingStale
    <2>2. layouts' = {} /\ nodeDialog' = None
      BY <1>2, <2>1
    <2>3. PICK s, g : s = store' /\ g = graph'
      OBVIOUS
    <2>4. Meaning(s) = wanted /\ RoutesLead(s) /\ Meaning(g) = wanted /\ RoutesLead(g)
      BY <1>2, <1>4, <1>5, <2>1, <2>3
    <2>5. Meaning(graph)' = wanted' /\ Meaning(store)' = wanted' /\ RoutesLead(graph)' /\ RoutesLead(store)'
      BY <1>2, <2>3, <2>4 DEF Meaning, RoutesLead
    <2> QED BY <2>2, <2>5 DEF NothingStale
  <1> QED BY <1>8, <1>9 DEF NothingStale

\* A workflow that was opened, or that a hydration brings, may be stored; an edge that asks for
\* no review counts as confirmed elsewhere.
LEMMA OpenedIsStorable ==
    ASSUME NEW g \in Openings \union Elsewhere, NEW authors,
           {e \in DOMAIN g.edges : ~NormalizeEdge(g.edges[e]).review} \subseteq authors
    PROVE  Storable(g, authors)
  <1>1. g \in Graphs /\ Attached(g) /\ \A e \in DOMAIN g.edges : g.edges[e] \in Edges
    BY GraphAssumption, GraphParts
  <1>2. ASSUME NEW e \in DOMAIN g.edges, e \notin authors
        PROVE  IsLegacy(g.edges[e]) \/ g.edges[e].review
    <2>1. NormalizeEdge(g.edges[e]).review
      BY <1>2
    <2>2. NormalizeEdge(g.edges[e]).review = (IsLegacy(g.edges[e]) \/ g.edges[e].review)
      BY <1>1, NormalizedEdge
    <2> QED BY <2>1, <2>2
  <1> QED BY <1>1, <1>2 DEF Storable, Reviewed

\* A hydration replaces what is stored; one author has none.
LEMMA HydratedKeeps ==
    ASSUME EditorInv, NothingStale, alone' = alone, NEW g \in Elsewhere, Hydrated(g)
    PROVE  EditorInv' /\ NothingStale'
  <1>1. ~alone /\ edits < MaxEdits[alone] /\ edits' = edits + 1 /\ Persist(g) /\ DialogsTyped'
    BY DEF Hydrated, Still, EditorInv, DialogsTyped
  <1>2. MaxEdits[alone] \in Nat /\ edits \in 0..MaxEdits[alone]
    BY GraphAssumption DEF EditorInv
  <1>3. edits' \in 0..MaxEdits[alone]
    BY <1>1, <1>2
  <1>4. /\ confirmed \subseteq confirmed'
        /\ {e \in DOMAIN g.edges : ~NormalizeEdge(g.edges[e]).review} \subseteq confirmed'
    BY DEF Hydrated
  <1>5. Storable(g, confirmed')
    BY <1>4, OpenedIsStorable
  <1> QED BY <1>1, <1>3, <1>4, <1>5, StoredKeeps

\* Opening and closing dialogs.
LEMMA DialogsKeep ==
    ASSUME EditorInv, NothingStale, alone' = alone,
           \/ CloseDialogs
           \/ \E n \in Services : OpenNodeConfig(n) \/ RequestRemoval(n)
           \/ \E id \in EdgeIds : OpenEdge(id)
           \/ \E id \in EdgeIds \union {"new"} : OpenDraft(id)
    PROVE  EditorInv' /\ NothingStale'
  <1>1. UNCHANGED <<graph, store, layouts, autoLaid, wanted, confirmed, edits>>
    BY DEF CloseDialogs, OpenNodeConfig, RequestRemoval, OpenEdge, OpenDraft
  <1>2. GraphsKept' /\ edits' \in 0..MaxEdits[alone]
    BY <1>1 DEF EditorInv, GraphsKept
  <1>3. ASSUME NEW n \in Services, OpenNodeConfig(n)
        PROVE  DialogsTyped' /\ (alone => NothingStale')
    <2>1. /\ n \in DOMAIN graph.nodes /\ nodeDialog' = [id |-> n, node |-> graph.nodes[n]]
          /\ graph.nodes[n] \in Nodes /\ UNCHANGED <<editing, removal, draft>>
          /\ removal = None /\ editing \notin DOMAIN graph.edges /\ (alone => layouts = {})
      BY <1>3, DrawnNow, GraphParts DEF OpenNodeConfig, NoDialog, Waited
    <2>2. nodeDialog'.id = n /\ nodeDialog'.node = graph.nodes[n]
      BY <2>1
    <2>3. DialogsTyped'
      BY <2>1, <2>2 DEF EditorInv, DialogsTyped
    <2>4. alone => NothingStale'
      BY <1>1, <2>1, <2>2 DEF NothingStale, Meaning, RoutesLead
    <2> QED BY <2>3, <2>4
  <1>4. CASE CloseDialogs
    <2>1. DialogsTyped' /\ nodeDialog' = None
      BY <1>4 DEF CloseDialogs, DialogsTyped
    <2>2. alone => NothingStale'
      BY <1>1, <2>1 DEF NothingStale, Meaning, RoutesLead
    <2> QED BY <1>2, <2>1, <2>2 DEF EditorInv, NothingStale
  <1>5. CASE (\E n \in Services : RequestRemoval(n)) \/ \E id \in EdgeIds : OpenEdge(id)
    <2>1. DialogsTyped' /\ nodeDialog' = None
      BY <1>5 DEF RequestRemoval, OpenEdge, NoDialog, EditorInv, DialogsTyped
    <2>2. alone => NothingStale'
      BY <1>1, <2>1 DEF NothingStale, Meaning, RoutesLead
    <2> QED BY <1>2, <2>1, <2>2 DEF EditorInv, NothingStale
  <1>6. CASE \E id \in EdgeIds \union {"new"} : OpenDraft(id)
    <2>1. DialogsTyped' /\ nodeDialog' = None
      BY <1>6 DEF OpenDraft, NoDialog, EditorInv, DialogsTyped
    <2>2. alone => NothingStale'
      BY <1>1, <2>1 DEF NothingStale, Meaning, RoutesLead
    <2> QED BY <1>2, <2>1, <2>2 DEF EditorInv, NothingStale
  <1>7. CASE \E n \in Services : OpenNodeConfig(n)
    BY <1>2, <1>3, <1>7 DEF EditorInv, NothingStale
  <1> QED BY <1>4, <1>5, <1>6, <1>7

-----------------------------------------------------------------------------
(* The theorems.                                                           *)

\* The builder opens on a workflow whose edges are attached, with nothing stale.
LEMMA EditorStarts ==
    ASSUME Init
    PROVE  EditorInv /\ NothingStale
  <1>1. Storable(store, confirmed) /\ Drawable(graph, confirmed)
    <2>1. store \in Openings \union Elsewhere /\ graph = Loaded(store)
          /\ {e \in DOMAIN store.edges : ~NormalizeEdge(store.edges[e]).review} \subseteq confirmed
      BY DEF Init
    <2> QED BY <2>1, OpenedIsStorable, LoadedIsDrawable
  <1>2. \A l \in layouts : l = [g |-> graph, persist |-> FALSE]
    BY DEF Init
  <1>3. ASSUME NEW l \in layouts
        PROVE  l \in Layouts /\ l.g = graph /\ \A m \in layouts : m = l
    <2>1. l = [g |-> graph, persist |-> FALSE] /\ \A m \in layouts : m = l
      BY <1>2
    <2> QED BY <1>1, <2>1 DEF Layouts, Drawable, Storable
  <1>4. GraphsKept
    <2>1. autoLaid \in BOOLEAN /\ layouts \subseteq Layouts
      BY <1>3 DEF Init
    <2> QED BY <1>1, <1>3, <2>1 DEF GraphsKept
  <1>5. EditorInv
    <2>1. alone \in BOOLEAN /\ edits = 0 /\ DialogsTyped
      BY DEF Init, DialogsTyped
    <2>2. MaxEdits[alone] \in Nat
      BY <2>1, GraphAssumption
    <2> QED BY <1>4, <2>1, <2>2 DEF EditorInv
  <1>6. NothingStale
    <2>1. Meaning(graph) = Meaning(store) /\ (RoutesLead(store) => RoutesLead(graph))
      BY <1>1, LoadedSaysTheSame DEF Init
    <2>2. wanted = Meaning(store) /\ (alone => RoutesLead(store)) /\ nodeDialog = None
      BY DEF Init
    <2> QED BY <1>3, <2>1, <2>2 DEF NothingStale
  <1> QED BY <1>5, <1>6

\* Every handler, layout and hydration keeps the invariant.
LEMMA EditorStays ==
    ASSUME EditorInv, NothingStale, [Next]_vars
    PROVE  EditorInv' /\ NothingStale'
  <1>1. CASE UNCHANGED vars
    BY <1>1 DEF vars, EditorInv, DialogsTyped, GraphsKept, NothingStale, Meaning, RoutesLead
  <1>2. CASE Next
    <2>1. alone' = alone /\ Step
      BY <1>2 DEF Next
    <2>2. ASSUME NEW n \in Services, HandleAddNode(n)
          PROVE  EditorInv' /\ NothingStale'
      BY <2>1, <2>2, HandleAddNodeKeeps
    <2>3. ASSUME NEW n \in Services, OpenNodeConfig(n) \/ RequestRemoval(n)
          PROVE  EditorInv' /\ NothingStale'
      BY <2>1, <2>3, DialogsKeep
    <2>4. ASSUME NEW n \in Services, DeleteOnCanvas(n)
          PROVE  EditorInv' /\ NothingStale'
      BY <2>1, <2>4, RemovalsKeep
    <2>5. ASSUME NEW n \in Services, PressDelete(n)
          PROVE  EditorInv' /\ NothingStale'
      BY <2>1, <2>5, PressDeleteKeeps
    <2>6. ASSUME NEW n \in Services, NEW dropped \in BOOLEAN, Drag(n, dropped)
          PROVE  EditorInv' /\ NothingStale'
      BY <2>1, <2>6, DragKeeps
    <2>7. ASSUME NEW cfg \in Configs, SaveNodeConfig(cfg)
          PROVE  EditorInv' /\ NothingStale'
      BY <2>1, <2>7, SaveNodeConfigKeeps
    <2>8. CASE CloseDialogs
      BY <2>1, <2>8, DialogsKeep
    <2>9. CASE ConfirmServiceRemoval
      BY <2>1, <2>9, RemovalsKeep
    <2>10. ASSUME NEW id \in EdgeIds, OpenEdge(id)
           PROVE  EditorInv' /\ NothingStale'
      BY <2>1, <2>10, DialogsKeep
    <2>11. ASSUME NEW id \in EdgeIds, ConfirmConnection(id)
           PROVE  EditorInv' /\ NothingStale'
      BY <2>1, <2>11, ConfirmationsKeep
    <2>12. ASSUME NEW id \in EdgeIds, DeleteEdge(id)
           PROVE  EditorInv' /\ NothingStale'
      BY <2>1, <2>12, DeleteEdgeKeeps
    <2>13. ASSUME NEW id \in EdgeIds \union {"new"}, OpenDraft(id)
           PROVE  EditorInv' /\ NothingStale'
      BY <2>1, <2>13, DialogsKeep
    <2>14. ASSUME NEW relation \in Choices, ConfirmEdge(relation)
           PROVE  EditorInv' /\ NothingStale'
      BY <2>1, <2>14, ConfirmationsKeep
    <2>15. ASSUME NEW s \in Services, NEW t \in Services, NEW id \in EdgeIds, ConnectNodes(s, t, id)
           PROVE  EditorInv' /\ NothingStale'
      BY <2>1, <2>15, ConnectNodesKeeps
    <2>16. ASSUME NEW s \in Services, NEW t \in Services, NEW id \in EdgeIds,
                  AcceptSuggestion(s, t, id) \/ \E relation \in Choices : SaveDraft(s, t, relation, id)
           PROVE  EditorInv' /\ NothingStale'
      BY <2>1, <2>16, GuidedKeeps
    <2>17. CASE TidyLayout
      BY <2>1, <2>17, TidyLayoutKeeps
    <2>18. ASSUME NEW l \in layouts, LayoutDone(l)
           PROVE  EditorInv' /\ NothingStale'
      BY <2>1, <2>18, LayoutDoneKeeps
    <2>19. ASSUME NEW g \in Elsewhere, Hydrated(g)
           PROVE  EditorInv' /\ NothingStale'
      BY <2>1, <2>19, HydratedKeeps
    <2> QED
      BY <2>1, <2>2, <2>3, <2>4, <2>5, <2>6, <2>7, <2>8, <2>9, <2>10, <2>11, <2>12, <2>13, <2>14,
         <2>15, <2>16, <2>17, <2>18, <2>19 DEF Step
  <1> QED BY <1>1, <1>2

\* Both invariants hold in every state.
LEMMA EditorCorrect == Spec => [](EditorInv /\ NothingStale)
  BY EditorStarts, EditorStays, PTL DEF Spec

\* Whatever is clicked, laid out or hydrated, the drawn graph, the stored one and the ones being
\* laid out stay graphs, and what is drawn is normalized.
THEOREM GraphTypeCorrect == Spec => []GraphTypeOK
  <1>1. EditorInv => GraphTypeOK
    BY DrawnNow DEF EditorInv, DialogsTyped, GraphsKept, GraphTypeOK, Layouts, Drawable, Normalized
  <1> QED BY <1>1, EditorCorrect, PTL

\* A stored edge joins two stored services, however removals, layouts that began before them,
\* the Delete key, stale dialogs and hydrations interleave (useWorkflowGraph.tsx).
THEOREM EdgesStayAttached == Spec => []EdgesAttached
  <1>1. EditorInv => EdgesAttached
    BY DEF EditorInv, GraphsKept, Storable, EdgesAttached
  <1> QED BY <1>1, EditorCorrect, PTL

\* No save, layout or reload makes an edge of an earlier version look confirmed before an author
\* has confirmed it (edge-model.ts normalizeEdge).
THEOREM ReviewStaysDue == Spec => []ReviewedByAuthor
  <1>1. EditorInv => ReviewedByAuthor
    BY DEF EditorInv, GraphsKept, Storable, Reviewed, ReviewedByAuthor
  <1> QED BY <1>1, EditorCorrect, PTL

\* For one author who waits for each layout and uses the builder's buttons, the stored workflow
\* says what the edits add up to and its routes lead to where the services are.
THEOREM UnhurriedEditsAreSaved == Spec => []UnhurriedIsSaved
  <1>1. NothingStale => (alone => WantedSaved /\ RoutesMatch)
    BY DEF NothingStale, WantedSaved, RoutesMatch
  <1>2. GraphTypeOK /\ NothingStale => UnhurriedIsSaved
    BY <1>1 DEF UnhurriedIsSaved
  <1> QED BY <1>2, EditorCorrect, GraphTypeCorrect, PTL

=============================================================================
