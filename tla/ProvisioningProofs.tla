------------------------- MODULE ProvisioningProofs -------------------------
(***************************************************************************)
(* Theorems about how the services of a workflow are chosen, ordered and   *)
(* started, for any services and any dependencies between them.  The parts *)
(* follow each other from the closure that all of them speak about to the  *)
(* orchestrator: ServiceGraph, CycleWalk, ServiceSubset, Provisioning.     *)
(***************************************************************************)
EXTENDS CycleWalk, ServiceSubset, Provisioning, FiniteSetTheorems, TLAPS

-----------------------------------------------------------------------------
(***************************************************************************)
(* What the closure of ServiceGraph is, for any dependencies: the lemmas   *)
(* behind the proofs about the two searches that walk it.                  *)
(***************************************************************************)

\* The closure holds the services it starts with and the dependencies of all its members.
LEMMA ClosureIsClosed ==
    ASSUME NEW N, NEW needs \in [N -> SUBSET N], NEW S \in SUBSET N
    PROVE  /\ Closure(needs, S) \subseteq N
           /\ S \subseteq Closure(needs, S)
           /\ \A s \in Closure(needs, S) : needs[s] \subseteq Closure(needs, S)
  <1> DEFINE all == S \cup DOMAIN needs \cup UNION {needs[s] : s \in DOMAIN needs}
             IsClosed(C) == S \subseteq C /\ \A s \in C : DependenciesOf(needs, s) \subseteq C
  <1>1. all = N
    OBVIOUS
  <1>2. Closure(needs, S) = {s \in all : \A C \in SUBSET all : IsClosed(C) => s \in C}
    BY DEF Closure
  <1>3. ASSUME NEW s \in Closure(needs, S), NEW d \in needs[s]
        PROVE  d \in Closure(needs, S)
    <2>1. s \in N /\ d \in N /\ DependenciesOf(needs, s) = needs[s]
      BY <1>1, <1>2, <1>3 DEF DependenciesOf
    <2>2. ASSUME NEW C \in SUBSET all, IsClosed(C)
          PROVE  d \in C
      BY <1>2, <1>3, <2>1, <2>2
    <2> QED BY <1>1, <1>2, <2>1, <2>2
  <1> QED BY <1>1, <1>2, <1>3

\* It is the least such set.
LEMMA ClosureIsLeast ==
    ASSUME NEW N, NEW needs \in [N -> SUBSET N], NEW S \in SUBSET N,
           NEW C \in SUBSET N, S \subseteq C, \A s \in C : needs[s] \subseteq C
    PROVE  Closure(needs, S) \subseteq C
  BY DEF Closure, DependenciesOf

\* Everything that a service needs is reachable from it, step by step.
LEMMA ReachableIsClosed ==
    ASSUME NEW N, NEW needs \in [N -> SUBSET N], NEW s \in N
    PROVE  /\ Reachable(needs, s) \subseteq N
           /\ needs[s] \subseteq Reachable(needs, s)
           /\ \A t \in Reachable(needs, s) : needs[t] \subseteq Reachable(needs, s)
  <1>1. Reachable(needs, s) = Closure(needs, needs[s]) /\ needs[s] \in SUBSET N
    BY DEF Reachable, DependenciesOf
  <1> QED BY <1>1, ClosureIsClosed

\* Nothing else is: a set that holds what a service needs, and what its members need,
\* holds all that is reachable from it.
LEMMA ReachableIsLeast ==
    ASSUME NEW N, NEW needs \in [N -> SUBSET N], NEW s \in N,
           NEW C \in SUBSET N, needs[s] \subseteq C, \A t \in C : needs[t] \subseteq C
    PROVE  Reachable(needs, s) \subseteq C
  <1>1. Reachable(needs, s) = Closure(needs, needs[s]) /\ needs[s] \in SUBSET N
    BY DEF Reachable, DependenciesOf
  <1> QED BY <1>1, ClosureIsLeast

-----------------------------------------------------------------------------
(***************************************************************************)
(* Theorems about detectCycles, for any set of services and any            *)
(* dependencies between them: what it prints are cycles, and it prints one *)
(* exactly when there is one.                                              *)
(*                                                                         *)
(* The invariant follows the two sets and the path of the search.  The     *)
(* path goes from each service to one it waits for (PathIsWalk), so that   *)
(* every service is reachable from those below it (ReachedFromBelow): a    *)
(* service met again on the path waits for itself.  As long as no cycle    *)
(* was met, what a finished service waits for is finished and what a       *)
(* service on the path waits for is finished, the next on the path, or     *)
(* left to visit (NothingSkipped): a service that is finished waits for    *)
(* finished ones only, at any distance, and not for itself.                *)
(***************************************************************************)

Frame == [node : Nodes, left : SUBSET Nodes]

WalkTypes ==
  /\ graph \in [Nodes -> SUBSET Nodes]
  /\ roots \in SUBSET Nodes /\ visiting \in SUBSET Nodes /\ finished \in SUBSET Nodes
  /\ frames \in Seq(Frame) /\ cycles \in SUBSET Seq(Nodes)

PathIsWalk ==
  /\ \A i \in DOMAIN frames : frames[i].left \subseteq graph[frames[i].node]
  /\ \A i, j \in DOMAIN frames : j = i + 1 => frames[j].node \in graph[frames[i].node]

ReachedFromBelow ==
  \A i, j \in DOMAIN frames : i < j => frames[j].node \in Reachable(graph, frames[i].node)

NothingSkipped ==
  cycles = {} =>
    /\ \A s \in finished : graph[s] \subseteq finished /\ s \notin Reachable(graph, s)
    /\ \A i \in DOMAIN frames : \A d \in graph[frames[i].node] :
         \/ d \in frames[i].left \cup finished
         \/ \E j \in DOMAIN frames : j = i + 1 /\ d = frames[j].node

WalkInv ==
  /\ WalkTypes
  /\ VisitingIsPath
  /\ PathIsWalk
  /\ ReachedFromBelow
  /\ ReportedCyclesAreReal /\ \A c \in cycles : Len(c) > 1
  /\ cycles # {} => HasCycle(graph)
  /\ NothingSkipped
  /\ Nodes \subseteq roots \cup visiting \cup finished

\* The path is what the frames say.
LEMMA PathOfStack ==
    ASSUME WalkTypes
    PROVE  /\ Path \in Seq(Nodes) /\ Len(Path) = Len(frames) /\ DOMAIN Path = DOMAIN frames
           /\ DOMAIN frames = 1..Len(frames) /\ Len(frames) \in Nat
           /\ \A i \in DOMAIN frames : Path[i] = frames[i].node /\ frames[i] \in Frame
  <1>1. DOMAIN frames = 1..Len(frames) /\ Len(frames) \in Nat /\ \A i \in DOMAIN frames : frames[i] \in Frame
    BY DEF WalkTypes
  <1>2. \A i \in 1..Len(frames) : frames[i].node \in Nodes
    BY <1>1 DEF Frame
  <1>3. Path = [i \in 1..Len(frames) |-> frames[i].node]
    BY <1>1 DEF Path
  <1> QED BY <1>1, <1>2, <1>3

\* The last items of a sequence, from the k-th on, and then one more.
LEMMA SliceThenItem ==
    ASSUME NEW S, NEW p \in Seq(S), NEW k \in 1..Len(p), NEW x \in S
    PROVE  LET c == Append(SubSeq(p, k, Len(p)), x)
               m == Len(p) - k + 1
           IN  /\ c \in Seq(S) /\ Len(c) = m + 1 /\ c[m + 1] = x
               /\ \A i \in 1..m : c[i] = p[k + i - 1]
  <1> DEFINE m == Len(p) - k + 1
             t == SubSeq(p, k, Len(p))
  <1>1. Len(p) \in Nat /\ m \in Nat
    OBVIOUS
  <1>2. t \in Seq(S) /\ Len(t) = m
    BY <1>1
  <1>3. \A i \in 1..m : t[i] = p[k + i - 1]
    BY <1>1
  <1> HIDE DEF t, m
  <1>4. Append(t, x) \in Seq(S) /\ Len(Append(t, x)) = m + 1 /\ Append(t, x)[m + 1] = x
    BY <1>1, <1>2
  <1>5. \A i \in 1..m : Append(t, x)[i] = t[i]
    BY <1>1, <1>2
  <1> QED BY <1>3, <1>4, <1>5 DEF t, m

\* A service that is met again on the path closes a cycle, and the slice of the path from
\* there on, with the service once more, is that cycle.
LEMMA CycleOnPath ==
    ASSUME WalkInv, NEW node \in visiting, frames # <<>>, node \in graph[Top.node]
    PROVE  /\ CycleAt(node) \in Seq(Nodes) /\ Len(CycleAt(node)) > 1
           /\ CycleAt(node)[1] = Last(CycleAt(node))
           /\ \A i \in 1 .. Len(CycleAt(node)) - 1 :
                CycleAt(node)[i + 1] \in graph[CycleAt(node)[i]]
           /\ HasCycle(graph)
  <1> USE DEF WalkInv
  <1> DEFINE n == Len(frames)
             IsStart(i) == Path[i] = node /\ \A j \in 1 .. i - 1 : Path[j] # node
             start == CHOOSE i \in DOMAIN Path : IsStart(i)
             m == n - start + 1
  <1>1. /\ Path \in Seq(Nodes) /\ Len(Path) = n /\ DOMAIN Path = 1..n /\ n \in Nat
        /\ DOMAIN frames = 1..n /\ \A i \in 1..n : Path[i] = frames[i].node
    BY PathOfStack
  <1>2. PICK k \in 1..n : Path[k] = node
    BY <1>1 DEF VisitingIsPath
  <1>3. IsStart(k)
    BY <1>1, <1>2 DEF VisitingIsPath
  <1>4. start \in 1..n /\ Path[start] = node
    BY <1>1, <1>2, <1>3
  <1>5. n \in 1..n /\ Top = frames[n]
    BY <1>1, <1>4 DEF Top, Last
  <1>6. node \in Nodes /\ node \in graph[Path[n]]
    BY <1>1, <1>4, <1>5 DEF WalkTypes
  <1>7. CycleAt(node) = Append(SubSeq(Path, start, Len(Path)), node)
    BY DEF CycleAt
  <1> HIDE DEF start
  <1>8. CycleAt(node) \in Seq(Nodes) /\ Len(CycleAt(node)) = m + 1 /\ CycleAt(node)[m + 1] = node
    BY <1>1, <1>4, <1>6, <1>7, SliceThenItem
  <1>9. \A i \in 1..m : CycleAt(node)[i] = Path[start + i - 1]
    BY <1>1, <1>4, <1>6, <1>7, SliceThenItem
  <1>10. \A i \in 1..(n - 1) : Path[i + 1] \in graph[Path[i]]
    BY <1>1 DEF PathIsWalk
  <1>11. ASSUME NEW i \in 1 .. Len(CycleAt(node)) - 1
         PROVE  CycleAt(node)[i + 1] \in graph[CycleAt(node)[i]]
    <2>1. m \in 1..n /\ i \in 1..m /\ CycleAt(node)[i] = Path[start + i - 1]
      BY <1>1, <1>4, <1>8, <1>9
    <2>2. CASE i = m
      <3>1. start + i - 1 = n
        BY <1>1, <1>4, <2>2
      <3> QED BY <1>6, <1>8, <2>1, <2>2, <3>1
    <2>3. CASE i < m
      <3>1. /\ i + 1 \in 1..m /\ start + i - 1 \in 1..(n - 1)
            /\ start + (i + 1) - 1 = (start + i - 1) + 1
        BY <1>1, <1>4, <2>1, <2>3
      <3>2. CycleAt(node)[i + 1] = Path[(start + i - 1) + 1]
        BY <1>9, <3>1
      <3> QED BY <1>10, <2>1, <3>1, <3>2
    <2> QED BY <2>1, <2>2, <2>3
  <1>12. CycleAt(node)[1] = node
    <2>1. 1 \in 1..m /\ start + 1 - 1 = start
      BY <1>1, <1>4
    <2> QED BY <1>4, <1>9, <2>1
  <1>13. HasCycle(graph)
    <2>1. graph \in [Nodes -> SUBSET Nodes]
      BY DEF WalkTypes
    <2>2. Path[n] = node \/ Path[n] \in Reachable(graph, node)
      BY <1>1, <1>4, <1>5 DEF ReachedFromBelow
    <2>3. node \in Reachable(graph, node)
      BY <1>6, <2>1, <2>2, ReachableIsClosed
    <2> QED BY <1>6, <2>1, <2>3 DEF HasCycle
  <1> QED BY <1>1, <1>4, <1>8, <1>11, <1>12, <1>13 DEF Last

\* A call of dfs keeps the invariant, whichever loop makes it: `under' are the frames without
\* what the loop has just taken.
LEMMA EnterKeepsInv ==
    ASSUME WalkInv, NEW node \in Nodes, NEW under \in Seq(Frame),
           frames # <<>> => node \in graph[Top.node],
           Len(under) = Len(frames),
           \A i \in DOMAIN frames : /\ under[i].node = frames[i].node
                                    /\ under[i].left \subseteq frames[i].left
                                    /\ frames[i].left \subseteq under[i].left \cup {node}
                                    /\ i # Len(frames) => under[i] = frames[i],
           roots' \in SUBSET Nodes, roots \subseteq roots' \cup {node},
           Enter(node, under), UNCHANGED <<graph, finished>>
    PROVE  WalkInv'
  <1> USE DEF WalkInv
  <1> DEFINE n == Len(frames)
  <1>1. /\ Path \in Seq(Nodes) /\ DOMAIN Path = 1..n /\ n \in Nat
        /\ DOMAIN frames = 1..n /\ \A i \in 1..n : Path[i] = frames[i].node /\ frames[i] \in Frame
        /\ DOMAIN under = 1..n /\ \A i \in 1..n : under[i] \in Frame
    BY PathOfStack
  <1>2. n # 0 => n \in 1..n /\ Top = frames[n] /\ node \in graph[frames[n].node]
    BY <1>1 DEF Top, Last
  <1>3. WalkTypes
    OBVIOUS
  <1>4. CASE node \in visiting
    <2>1. frames' = under /\ visiting' = visiting /\ cycles' = cycles \cup {CycleAt(node)}
      BY <1>4 DEF Enter
    <2>2. n # 0
      BY <1>1, <1>4 DEF VisitingIsPath
    <2>3. /\ CycleAt(node) \in Seq(Nodes) /\ Len(CycleAt(node)) > 1 /\ HasCycle(graph)
          /\ CycleAt(node)[1] = Last(CycleAt(node))
          /\ \A i \in 1 .. Len(CycleAt(node)) - 1 :
               CycleAt(node)[i + 1] \in graph[CycleAt(node)[i]]
      BY <1>1, <1>2, <1>4, <2>2, CycleOnPath
    <2>4. WalkTypes'
      BY <1>3, <2>1, <2>3 DEF WalkTypes
    <2>5. VisitingIsPath'
      BY <1>1, <2>1 DEF VisitingIsPath, Path
    <2>6. PathIsWalk' /\ ReachedFromBelow'
      BY <1>1, <2>1 DEF PathIsWalk, ReachedFromBelow
    <2>7. (ReportedCyclesAreReal /\ \A c \in cycles : Len(c) > 1)'
      BY <2>1, <2>3 DEF ReportedCyclesAreReal
    <2> QED BY <1>3, <1>4, <2>1, <2>3, <2>4, <2>5, <2>6, <2>7 DEF NothingSkipped, WalkTypes
  <1>5. CASE node \notin visiting /\ node \in finished
    <2>1. frames' = under /\ visiting' = visiting /\ cycles' = cycles
      BY <1>5 DEF Enter
    <2>2. WalkTypes'
      BY <1>3, <2>1 DEF WalkTypes
    <2>3. VisitingIsPath'
      BY <1>1, <2>1 DEF VisitingIsPath, Path
    <2>4. PathIsWalk' /\ ReachedFromBelow'
      BY <1>1, <2>1 DEF PathIsWalk, ReachedFromBelow
    <2>5. NothingSkipped'
      BY <1>1, <1>5, <2>1 DEF NothingSkipped
    <2>6. ReportedCyclesAreReal'
      BY <2>1 DEF ReportedCyclesAreReal
    <2> QED BY <1>3, <1>5, <2>1, <2>2, <2>3, <2>4, <2>5, <2>6 DEF WalkTypes
  <1>6. CASE node \notin visiting /\ node \notin finished
    <2> DEFINE frame == [node |-> node, left |-> graph[node]]
    <2>1. frames' = Append(under, frame) /\ visiting' = visiting \cup {node} /\ cycles' = cycles
      BY <1>6 DEF Enter
    <2>2. frame \in Frame
      BY <1>3 DEF WalkTypes, Frame
    <2>3. /\ DOMAIN frames' = 1..(n + 1) /\ Len(frames') = n + 1 /\ frames' \in Seq(Frame)
          /\ \A i \in 1..n : frames'[i] = under[i]
          /\ frames'[n + 1] = frame
      BY <1>1, <2>1, <2>2
    <2>4. /\ \A i \in 1..n : frames'[i].node = frames[i].node
          /\ frames'[n + 1].node = node /\ frames'[n + 1].left = graph[node]
      BY <1>1, <2>3
    <2>5. WalkTypes'
      BY <1>3, <2>1, <2>3 DEF WalkTypes
    <2>6. VisitingIsPath'
      <3>1. (Path' = [i \in DOMAIN frames' |-> frames'[i].node]) /\ Path = [i \in DOMAIN frames |-> frames[i].node]
        BY DEF Path
      <3>2. \A i \in 1..n : Path'[i] = Path[i] /\ Path[i] \in visiting /\ Path[i] # node
        <4>1. \A i \in 1..n : i \in DOMAIN frames' /\ Path'[i] = frames'[i].node
          BY <1>1, <2>3, <3>1
        <4>2. \A i \in 1..n : Path[i] \in visiting
          BY <1>1 DEF VisitingIsPath
        <4> QED BY <1>1, <1>6, <2>4, <4>1, <4>2
      <3>3. DOMAIN Path' = 1..(n + 1) /\ Path'[n + 1] = node
        BY <1>1, <2>3, <2>4, <3>1
      <3>4. \A i, j \in DOMAIN Path' : Path'[i] = Path'[j] => i = j
        BY <1>1, <3>2, <3>3 DEF VisitingIsPath
      <3>5. visiting' = {Path'[i] : i \in DOMAIN Path'}
        BY <1>1, <2>1, <3>2, <3>3 DEF VisitingIsPath
      <3> QED BY <1>6, <2>1, <3>4, <3>5 DEF VisitingIsPath
    <2>7. PathIsWalk'
      <3>1. ASSUME NEW i \in 1..(n + 1)
            PROVE  frames'[i].left \subseteq graph[frames'[i].node]
        <4>1. CASE i \in 1..n
          BY <1>1, <2>3, <4>1 DEF PathIsWalk
        <4>2. CASE i = n + 1
          BY <2>4, <4>2
        <4> QED BY <1>1, <4>1, <4>2
      <3>2. ASSUME NEW i \in 1..(n + 1), NEW j \in 1..(n + 1), j = i + 1
            PROVE  frames'[j].node \in graph[frames'[i].node]
        <4>1. CASE j \in 1..n
          <5>1. i \in 1..n
            BY <1>1, <3>2, <4>1
          <5>2. frames[j].node \in graph[frames[i].node]
            BY <1>1, <3>2, <4>1, <5>1 DEF PathIsWalk
          <5> QED BY <2>4, <4>1, <5>1, <5>2
        <4>2. CASE j = n + 1
          <5>1. n \in Nat
            BY <1>1
          <5>2. i = n /\ n # 0
            BY <3>2, <4>2, <5>1
          <5> QED BY <1>2, <2>4, <4>2, <5>2
        <4>3. n \in Nat
          BY <1>1
        <4>4. j \in 1..n \/ j = n + 1
          BY <3>2, <4>3
        <4> QED BY <4>1, <4>2, <4>4
      <3>3. UNCHANGED graph /\ DOMAIN frames' = 1..(n + 1)
        BY <2>3
      <3> QED BY <3>1, <3>2, <3>3 DEF PathIsWalk
    <2>8. ReachedFromBelow'
      <3> SUFFICES ASSUME NEW i \in 1..(n + 1), NEW j \in 1..(n + 1), i < j
                   PROVE  frames'[j].node \in Reachable(graph, frames'[i].node)
        BY <2>3 DEF ReachedFromBelow
      <3>1. CASE j \in 1..n
        BY <1>1, <2>4, <3>1 DEF ReachedFromBelow
      <3>2. CASE j = n + 1
        <4>1. i \in 1..n /\ n # 0 /\ frames[i].node \in Nodes /\ graph \in [Nodes -> SUBSET Nodes]
          BY <1>1, <1>3, <3>2 DEF WalkTypes, Frame
        <4>2. i = n \/ frames[n].node \in Reachable(graph, frames[i].node)
          <5>1. n \in Nat /\ DOMAIN frames = 1..n
            BY <1>1
          <5>2. i = n \/ (i < n /\ n \in DOMAIN frames /\ i \in DOMAIN frames)
            BY <4>1, <5>1
          <5> QED BY <5>2 DEF ReachedFromBelow
        <4> QED BY <1>2, <2>4, <3>2, <4>1, <4>2, ReachableIsClosed
      <3>3. n \in Nat
        BY <1>1
      <3>4. j \in 1..n \/ j = n + 1
        BY <3>3
      <3> QED BY <3>1, <3>2, <3>4
    <2>9. NothingSkipped'
      <3> SUFFICES ASSUME cycles = {}, NEW i \in 1..(n + 1), NEW d \in graph[frames'[i].node]
                   PROVE  \/ d \in frames'[i].left \cup finished
                          \/ \E j \in 1..(n + 1) : j = i + 1 /\ d = frames'[j].node
        BY <2>1, <2>3 DEF NothingSkipped
      <3>1. CASE i = n + 1
        BY <2>4, <3>1
      <3>2. CASE i \in 1..n
        <4>1. \/ d \in frames[i].left \cup finished
              \/ \E j \in 1..n : j = i + 1 /\ d = frames[j].node
          BY <1>1, <2>4, <3>2 DEF NothingSkipped
        <4>2. CASE d \in finished
          BY <4>2
        <4>3. CASE d \in frames[i].left
          <5>1. d \in under[i].left \/ (i = n /\ d = node)
            BY <1>1, <3>2, <4>3
          <5>2. frames'[i] = under[i] /\ n + 1 \in 1..(n + 1) /\ frames'[n + 1].node = node
            BY <1>1, <2>3, <2>4, <3>2
          <5> QED BY <5>1, <5>2
        <4>4. CASE \E j \in 1..n : j = i + 1 /\ d = frames[j].node
          BY <1>1, <2>4, <4>4
        <4> QED BY <4>1, <4>2, <4>3, <4>4
      <3> QED BY <1>1, <3>1, <3>2
    <2>10. ReportedCyclesAreReal'
      BY <2>1 DEF ReportedCyclesAreReal
    <2> QED BY <1>3, <2>1, <2>5, <2>6, <2>7, <2>8, <2>9, <2>10 DEF WalkTypes
  <1> QED BY <1>4, <1>5, <1>6

\* So does the return from dfs.
LEMMA ReturnKeepsInv ==
    ASSUME WalkInv, DfsReturns
    PROVE  WalkInv'
  <1> USE DEF WalkInv
  <1> DEFINE n == Len(frames)
             done == frames[n].node
  <1>1. /\ Path \in Seq(Nodes) /\ DOMAIN Path = 1..n /\ n \in Nat /\ n # 0
        /\ DOMAIN frames = 1..n /\ \A i \in 1..n : Path[i] = frames[i].node /\ frames[i] \in Frame
    BY PathOfStack DEF DfsReturns
  <1>2. /\ frames' = SubSeq(frames, 1, n - 1) /\ frames[n].left = {}
        /\ visiting' = visiting \ {done} /\ finished' = finished \cup {done}
        /\ UNCHANGED <<graph, roots, cycles>>
    BY DEF DfsReturns, Top, Last, Front
  <1>3. WalkTypes /\ done \in Nodes
    BY <1>1 DEF Frame
  <1>4. /\ frames' \in Seq(Frame) /\ Len(frames') = n - 1 /\ DOMAIN frames' = 1..(n - 1)
        /\ \A i \in 1..(n - 1) : frames'[i] = frames[i]
    BY <1>1, <1>2 DEF WalkTypes
  <1>5. WalkTypes'
    BY <1>2, <1>3, <1>4 DEF WalkTypes
  <1>6. VisitingIsPath'
    <2>1. (Path' = [i \in DOMAIN frames' |-> frames'[i].node]) /\ Path = [i \in DOMAIN frames |-> frames[i].node]
      BY DEF Path
    <2>2. DOMAIN Path' = 1..(n - 1) /\ \A i \in 1..(n - 1) : Path'[i] = Path[i] /\ Path[i] # done
      <3>1. DOMAIN Path' = 1..(n - 1) /\ \A i \in 1..(n - 1) : Path'[i] = frames[i].node
        BY <1>4, <2>1
      <3>2. ASSUME NEW i \in 1..(n - 1)
            PROVE  Path'[i] = Path[i] /\ Path[i] # done
        <4>1. i \in 1..n /\ n \in 1..n /\ i # n
          <5>1. n \in Nat /\ n \in 1..n
            BY <1>1
          <5> HIDE DEF WalkInv, n
          <5> QED BY <5>1
        <4>2. i \in DOMAIN Path /\ n \in DOMAIN Path /\ i # n /\ Path[n] = done
          BY <1>1, <4>1
        <4>3. Path[i] # Path[n]
          BY <4>2 DEF VisitingIsPath
        <4> QED BY <1>1, <3>1, <4>2, <4>3
      <3> QED BY <3>1, <3>2
    <2>3. Path[n] = done
      BY <1>1
    <2>4. visiting' = {Path'[i] : i \in DOMAIN Path'}
      BY <1>1, <1>2, <2>2, <2>3 DEF VisitingIsPath
    <2>5. \A i, j \in DOMAIN Path' : Path'[i] = Path'[j] => i = j
      BY <1>1, <2>2 DEF VisitingIsPath
    <2> QED BY <1>2, <2>4, <2>5 DEF VisitingIsPath
  <1>7. PathIsWalk' /\ ReachedFromBelow'
    BY <1>1, <1>2, <1>4 DEF PathIsWalk, ReachedFromBelow
  <1>8. NothingSkipped'
    <2> SUFFICES ASSUME cycles = {}
                 PROVE  NothingSkipped'
      BY <1>2 DEF NothingSkipped
    <2>1. done \in visiting /\ done \notin finished
      BY <1>1 DEF VisitingIsPath
    <2>2. \A s \in finished : graph[s] \subseteq finished /\ s \notin Reachable(graph, s)
      BY DEF NothingSkipped
    <2>3. graph[done] \subseteq finished
      BY <1>1, <1>2 DEF NothingSkipped
    <2>4. done \notin Reachable(graph, done)
      BY <1>3, <2>1, <2>2, <2>3, ReachableIsLeast DEF WalkTypes
    <2>5. ASSUME NEW i \in 1..(n - 1), NEW d \in graph[frames[i].node]
          PROVE  \/ d \in frames[i].left \cup finished \cup {done}
                 \/ \E j \in 1..(n - 1) : j = i + 1 /\ d = frames[j].node
      BY <1>1 DEF NothingSkipped
    <2> QED BY <1>2, <1>4, <2>2, <2>3, <2>4, <2>5 DEF NothingSkipped
  <1>9. ReportedCyclesAreReal'
    BY <1>2 DEF ReportedCyclesAreReal
  <1> QED BY <1>2, <1>3, <1>5, <1>6, <1>7, <1>8, <1>9 DEF WalkTypes

\* The invariant holds in every state of the search.
THEOREM WalkInvariant == WalkSpec => []WalkInv
  <1>1. WalkInit => WalkInv
    <2> SUFFICES ASSUME WalkInit PROVE WalkInv
      OBVIOUS
    <2>1. frames = <<>> /\ DOMAIN frames = {} /\ frames \in Seq(Frame)
      BY DEF WalkInit
    <2>2. WalkTypes
      BY <2>1 DEF WalkInit, WalkTypes
    <2>3. VisitingIsPath
      BY <2>1 DEF WalkInit, VisitingIsPath, Path
    <2> QED BY <2>1, <2>2, <2>3 DEF WalkInit, WalkInv, PathIsWalk, ReachedFromBelow,
                                    ReportedCyclesAreReal, NothingSkipped
  <1>2. WalkInv /\ [WalkNext]_walkVars => WalkInv'
    <2> SUFFICES ASSUME WalkInv, [WalkNext]_walkVars PROVE WalkInv'
      OBVIOUS
    <2>1. ASSUME NEW node \in Nodes, VisitRoot(node)
          PROVE  WalkInv'
      <3>1. frames \in Seq(Frame) /\ DOMAIN frames = {} /\ roots' \in SUBSET Nodes
        BY <2>1 DEF VisitRoot, WalkInv, WalkTypes
      <3> QED BY <2>1, <3>1, EnterKeepsInv DEF VisitRoot
    <2>2. ASSUME NEW node \in Nodes, VisitNeighbor(node)
          PROVE  WalkInv'
      <3> DEFINE n == Len(frames)
                 under == [frames EXCEPT ![n].left = @ \ {node}]
      <3>1. /\ frames # <<>> /\ node \in Top.left /\ Enter(node, under)
            /\ UNCHANGED <<graph, roots, finished>>
        BY <2>2 DEF VisitNeighbor
      <3>2. /\ DOMAIN frames = 1..n /\ n \in Nat /\ n # 0 /\ frames \in Seq(Frame)
            /\ \A i \in 1..n : frames[i] \in Frame
        BY <3>1, PathOfStack DEF WalkInv, WalkTypes
      <3>3. n \in 1..n /\ Top = frames[n]
        BY <3>2 DEF Top, Last
      <3>4. under \in Seq(Frame) /\ Len(under) = n
        BY <3>2, <3>3 DEF Frame
      <3>5. \A i \in 1..n : /\ under[i].node = frames[i].node
                            /\ under[i].left \subseteq frames[i].left
                            /\ frames[i].left \subseteq under[i].left \cup {node}
                            /\ i # n => under[i] = frames[i]
        BY <3>2, <3>3 DEF Frame
      <3>6. node \in graph[Top.node]
        BY <3>1, <3>2, <3>3 DEF WalkInv, PathIsWalk
      <3>7. roots' \in SUBSET Nodes /\ roots \subseteq roots' \cup {node}
        BY <3>1 DEF WalkInv, WalkTypes
      <3> HIDE DEF under
      <3> QED BY <3>1, <3>2, <3>4, <3>5, <3>6, <3>7, EnterKeepsInv
    <2>3. CASE DfsReturns
      BY <2>3, ReturnKeepsInv
    <2>4. CASE UNCHANGED walkVars
      BY <2>4 DEF walkVars, WalkInv, WalkTypes, VisitingIsPath, Path, PathIsWalk, ReachedFromBelow,
                  ReportedCyclesAreReal, NothingSkipped
    <2> QED BY <2>1, <2>2, <2>3, <2>4 DEF WalkNext
  <1> QED BY <1>1, <1>2, PTL DEF WalkSpec

\* detectCycles reports a cycle exactly when the graph has one, and every cycle that it
\* prints is a cycle of the graph (scenario-translator.ts:151-156 and 676-722).
THEOREM CyclesAreReported == WalkSpec => []CyclesReported
  <1>1. WalkInv => CyclesReported
    <2> SUFFICES ASSUME WalkInv, WalkDone, HasCycle(graph)
                 PROVE  cycles # {}
      BY DEF CyclesReported, CyclesFound, WalkInv
    <2>1. visiting = {}
      BY DEF WalkDone, WalkInv, VisitingIsPath, Path
    <2>2. PICK s \in Nodes : s \in Reachable(graph, s)
      BY DEF HasCycle, WalkInv, WalkTypes
    <2>3. s \in finished
      BY <2>1, <2>2 DEF WalkDone, WalkInv
    <2> QED BY <2>2, <2>3 DEF WalkInv, NothingSkipped
  <1> QED BY <1>1, WalkInvariant, PTL

\* What a finished service needs, at any distance, is finished, unless a cycle was reported:
\* the reason that a finished service is not walked again (scenario-translator.ts:701-703).
THEOREM FinishedServicesAreClosed == WalkSpec => []FinishedIsClosed
  <1>1. WalkInv => FinishedIsClosed
    <2> SUFFICES ASSUME WalkInv, cycles = {}, NEW s \in finished
                 PROVE  Reachable(graph, s) \subseteq finished
      BY DEF FinishedIsClosed
    <2> QED BY ReachableIsLeast DEF WalkInv, WalkTypes, NothingSkipped
  <1> QED BY <1>1, WalkInvariant, PTL

-----------------------------------------------------------------------------
(***************************************************************************)
(* Theorems about expandScenarioServiceSubset, for any set of services and *)
(* any dependencies between them, circular ones included.                  *)
(*                                                                         *)
(* The invariant says where what is still missing can be: every frame of   *)
(* the stack holds dependencies of services that are already required      *)
(* (Asked), every target is required or left for the outer loop, and every *)
(* dependency of a required service is required or in a frame              *)
(* (NothingForgotten).  So nothing superfluous is added, and nothing is    *)
(* missing when the stack and the targets are used up.                     *)
(***************************************************************************)

Asked == \A i \in DOMAIN stack : \A s \in stack[i] : \E r \in required : s \in deps[r]

WellFormed ==
  /\ deps \in [Names -> SUBSET Names] /\ targets \in SUBSET Names
  /\ left \in SUBSET targets /\ required \in SUBSET Names
  /\ stack \in Seq(SUBSET Names) /\ returned \in BOOLEAN

SubsetInv ==
  /\ WellFormed
  /\ Asked
  /\ targets \subseteq required \cup left
  /\ NothingForgotten
  /\ returned => stack = <<>> /\ left = {}

\* A visit keeps the invariant, whichever loop makes it: `under' is the stack
\* and `rest' are the targets it leaves behind.
LEMMA VisitKeepsInv ==
    ASSUME SubsetInv, ~returned,
           NEW under \in Seq(SUBSET Names), NEW rest \in SUBSET left,
           NEW s \in Names, Visit(s, under),
           s \in targets \/ \E r \in required : s \in deps[r],
           Len(under) = Len(stack),
           \A i \in DOMAIN stack : under[i] \subseteq stack[i] /\ stack[i] \subseteq under[i] \cup {s},
           left \subseteq rest \cup {s},
           left' = rest, UNCHANGED <<deps, targets, returned>>
    PROVE  SubsetInv'
  <1> USE DEF SubsetInv, WellFormed
  <1>1. DOMAIN under = DOMAIN stack /\ DOMAIN stack = 1..Len(stack)
    OBVIOUS
  <1>2. CASE s \in required
    <2>1. stack' = under /\ required' = required
      BY <1>2 DEF Visit
    <2>2. WellFormed'
      BY <2>1
    <2>3. Asked'
      BY <1>1, <2>1 DEF Asked
    <2>4. NothingForgotten'
      <3> SUFFICES ASSUME NEW r \in required, NEW d \in deps[r], d \notin required, d \notin rest
                   PROVE  \E i \in DOMAIN under : d \in under[i]
        BY <2>1 DEF NothingForgotten
      <3>1. PICK i \in DOMAIN stack : d \in stack[i]
        BY <1>2 DEF NothingForgotten
      <3> QED BY <1>1, <1>2, <3>1
    <2> QED BY <1>2, <2>1, <2>2, <2>3, <2>4
  <1>3. CASE s \notin required
    <2>1. stack' = Append(under, deps[s]) /\ required' = required \cup {s}
      BY <1>3 DEF Visit
    <2>2. /\ DOMAIN stack' = 1..(Len(stack) + 1)
          /\ stack'[Len(stack) + 1] = deps[s]
          /\ \A i \in DOMAIN stack : stack'[i] = under[i]
      BY <1>1, <2>1
    <2>3. WellFormed'
      BY <2>1
    <2>4. Asked'
      <3> SUFFICES ASSUME NEW i \in DOMAIN stack', NEW d \in stack'[i]
                   PROVE  \E r \in required' : d \in deps[r]
        BY DEF Asked
      <3>1. CASE i = Len(stack) + 1
        BY <2>1, <2>2, <3>1
      <3>2. CASE i \in DOMAIN stack
        BY <1>1, <2>1, <2>2, <3>2 DEF Asked
      <3> QED BY <1>1, <2>2, <3>1, <3>2
    <2>5. NothingForgotten'
      <3> SUFFICES ASSUME NEW r \in required', NEW d \in deps[r],
                          d \notin required', d \notin rest
                   PROVE  \E i \in DOMAIN stack' : d \in stack'[i]
        BY DEF NothingForgotten
      <3>1. CASE r = s
        BY <2>2, <3>1
      <3>2. CASE r \in required
        <4>1. PICK i \in DOMAIN stack : d \in stack[i]
          BY <2>1, <3>2 DEF NothingForgotten
        <4> QED BY <1>1, <2>1, <2>2, <4>1
      <3> QED BY <2>1, <3>1, <3>2
    <2> QED BY <2>1, <2>3, <2>4, <2>5
  <1> QED BY <1>2, <1>3

\* The loop of an activation makes such a visit.
LEMMA DependencyIsVisited ==
    ASSUME SubsetInv, NEW s \in Names, VisitDependency(s)
    PROVE  /\ ~returned
           /\ \E r \in required : s \in deps[r]
           /\ \E under \in Seq(SUBSET Names) :
                /\ Visit(s, under) /\ Len(under) = Len(stack)
                /\ \A i \in DOMAIN stack : /\ under[i] \subseteq stack[i]
                                           /\ stack[i] \subseteq under[i] \cup {s}
  <1> USE DEF SubsetInv, WellFormed
  <1> DEFINE under == [stack EXCEPT ![Len(stack)] = @ \ {s}]
  <1>1. stack # <<>> /\ s \in stack[Len(stack)] /\ Len(stack) \in DOMAIN stack /\ Visit(s, under)
    BY DEF VisitDependency, Last
  <1>2. stack[Len(stack)] \in SUBSET Names
    BY <1>1
  <1>3. under \in Seq(SUBSET Names) /\ Len(under) = Len(stack)
    BY <1>1, <1>2
  <1>4. \A i \in DOMAIN stack : under[i] \subseteq stack[i] /\ stack[i] \subseteq under[i] \cup {s}
    BY <1>1
  <1>5. ~returned /\ \E r \in required : s \in deps[r]
    BY <1>1 DEF Asked
  <1> QED BY <1>1, <1>3, <1>4, <1>5

\* The invariant of the recursion holds in every state.
LEMMA SubsetInvHolds == SubsetSpec => []SubsetInv
  <1>1. SubsetInit => SubsetInv
    <2> SUFFICES ASSUME SubsetInit PROVE SubsetInv
      OBVIOUS
    <2>1. stack = <<>> /\ stack \in Seq(SUBSET Names) /\ DOMAIN stack = {} /\ required = {}
      BY DEF SubsetInit
    <2>2. WellFormed
      BY <2>1 DEF SubsetInit, WellFormed
    <2> QED BY <2>1, <2>2 DEF SubsetInit, SubsetInv, Asked, NothingForgotten
  <1>2. SubsetInv /\ [SubsetNext]_subsetVars => SubsetInv'
    <2> SUFFICES ASSUME SubsetInv, [SubsetNext]_subsetVars PROVE SubsetInv'
      OBVIOUS
    <2>1. ASSUME NEW s \in Names, VisitTarget(s) PROVE SubsetInv'
      <3>1. /\ stack \in Seq(SUBSET Names) /\ left \ {s} \in SUBSET left
            /\ s \in targets /\ ~returned /\ Visit(s, stack)
            /\ left' = left \ {s} /\ UNCHANGED <<deps, targets, returned>>
        BY <2>1 DEF VisitTarget, SubsetInv, WellFormed
      <3> QED BY <3>1, VisitKeepsInv
    <2>2. ASSUME NEW s \in Names, VisitDependency(s) PROVE SubsetInv'
      <3>1. left' = left /\ UNCHANGED <<deps, targets, returned>>
        BY <2>2 DEF VisitDependency
      <3> QED BY <2>2, <3>1, DependencyIsVisited, VisitKeepsInv
    <2>3. CASE VisitReturns
      <3> USE DEF SubsetInv, WellFormed
      <3>0. UNCHANGED <<deps, targets, left, required, returned>>
        BY <2>3 DEF VisitReturns
      <3>1. /\ stack # <<>> /\ stack[Len(stack)] = {}
            /\ stack' = [i \in 1..(Len(stack) - 1) |-> stack[i]]
        BY <2>3 DEF VisitReturns, Last, Front
      <3>2. /\ DOMAIN stack = 1..Len(stack) /\ DOMAIN stack' = 1..(Len(stack) - 1)
            /\ Len(stack) \in Nat /\ Len(stack) > 0
            /\ \A i \in DOMAIN stack' : stack'[i] = stack[i]
        BY <3>1
      <3>3. WellFormed'
        BY <3>0, <3>1, <3>2
      <3>4. Asked'
        BY <3>0, <3>1, <3>2 DEF Asked
      <3>5. NothingForgotten'
        <4> SUFFICES ASSUME NEW r \in required, NEW d \in deps[r], d \notin required, d \notin left
                     PROVE  \E i \in DOMAIN stack' : d \in stack'[i]
          BY <3>0 DEF NothingForgotten
        <4>1. PICK i \in DOMAIN stack : d \in stack[i]
          BY DEF NothingForgotten
        <4> QED BY <3>1, <3>2, <4>1
      <3> QED BY <3>0, <3>1, <3>3, <3>4, <3>5
    <2>4. CASE ReturnRequired
      BY <2>4 DEF ReturnRequired, SubsetInv, WellFormed, Asked, NothingForgotten
    <2>5. CASE UNCHANGED subsetVars
      BY <2>5 DEF subsetVars, SubsetInv, WellFormed, Asked, NothingForgotten
    <2> QED BY <2>1, <2>2, <2>3, <2>4, <2>5 DEF SubsetNext
  <1> QED BY <1>1, <1>2, PTL DEF SubsetSpec

-----------------------------------------------------------------------------

\* Whatever the loops have still to do, a dependency of a required service is required,
\* or a target or a frame asks for it (expandScenarioServiceSubset).
THEOREM NothingIsForgotten == SubsetSpec => []NothingForgotten
  BY SubsetInvHolds, PTL DEF SubsetInv

\* The set that is returned is the least one with the targets and the dependencies of all
\* its members.
THEOREM ReturnedIsClosure == SubsetSpec => []SubsetIsClosure
  <1> DEFINE Bounded == required \subseteq Closure(deps, targets)
  <1>1. SubsetInv /\ Bounded /\ [SubsetNext]_subsetVars => Bounded'
    <2> SUFFICES ASSUME SubsetInv, Bounded, [SubsetNext]_subsetVars PROVE Bounded'
      OBVIOUS
    <2> USE DEF SubsetInv, WellFormed
    <2>1. /\ targets \subseteq Closure(deps, targets)
          /\ \A s \in Closure(deps, targets) : deps[s] \subseteq Closure(deps, targets)
      BY ClosureIsClosed
    <2>2. ASSUME NEW s \in Names, VisitTarget(s) PROVE Bounded'
      <3>1. s \in targets /\ required' \subseteq required \cup {s} /\ UNCHANGED <<deps, targets>>
        BY <2>2 DEF VisitTarget, Visit
      <3> QED BY <2>1, <3>1
    <2>3. ASSUME NEW s \in Names, VisitDependency(s) PROVE Bounded'
      <3>1. required' \subseteq required \cup {s} /\ UNCHANGED <<deps, targets>>
        BY <2>3 DEF VisitDependency, Visit
      <3>2. PICK r \in required : s \in deps[r]
        BY <2>3, DependencyIsVisited
      <3> QED BY <2>1, <3>1, <3>2
    <2>4. CASE VisitReturns \/ ReturnRequired \/ UNCHANGED subsetVars
      BY <2>4 DEF VisitReturns, ReturnRequired, subsetVars
    <2> QED BY <2>2, <2>3, <2>4 DEF SubsetNext
  <1>2. SubsetInit => Bounded
    BY DEF SubsetInit
  <1>3. SubsetInv /\ Bounded => SubsetIsClosure
    <2> SUFFICES ASSUME SubsetInv, Bounded, returned
                 PROVE  required = Closure(deps, targets)
      BY DEF SubsetIsClosure, ExpandScenarioServiceSubset
    <2> USE DEF SubsetInv, WellFormed
    <2>1. targets \subseteq required /\ \A s \in required : deps[s] \subseteq required
      BY DEF NothingForgotten
    <2> QED BY <2>1, ClosureIsLeast
  <1> QED BY <1>1, <1>2, <1>3, SubsetInvHolds, PTL DEF SubsetSpec

\* The recursion takes only steps that "test targets and their readiness closure" allows:
\* it implements the safety part of ServiceClosure.
THEOREM SubsetImplementsClosure == SubsetSpec => ImplementsClosure
  <1>1. SubsetInit => Closed!Init
    BY DEF SubsetInit, Closed!Init
  <1>2. SubsetInv /\ [SubsetNext]_subsetVars => [Closed!Next]_(Closed!vars)
    <2> SUFFICES ASSUME SubsetInv, [SubsetNext]_subsetVars PROVE [Closed!Next]_(Closed!vars)
      OBVIOUS
    <2> USE DEF SubsetInv, WellFormed
    <2>1. ASSUME NEW s \in Names, Visit(s, stack) \/ \E under : Visit(s, under),
                 s \in targets \/ \E r \in required : s \in deps[r],
                 ~returned, UNCHANGED <<deps, targets, returned>>
          PROVE  [Closed!Next]_(Closed!vars)
      <3>1. required' = required \/ (s \notin required /\ required' = required \cup {s})
        BY <2>1 DEF Visit
      <3>2. s \in Closed!Wanted
        BY <2>1 DEF Closed!Wanted
      <3> QED BY <2>1, <3>1, <3>2 DEF Closed!Next, Closed!Grow, Closed!vars
    <2>2. ASSUME NEW s \in Names, VisitTarget(s) PROVE [Closed!Next]_(Closed!vars)
      BY <2>1, <2>2 DEF VisitTarget
    <2>3. ASSUME NEW s \in Names, VisitDependency(s) PROVE [Closed!Next]_(Closed!vars)
      BY <2>1, <2>3, DependencyIsVisited DEF VisitDependency
    <2>4. CASE ReturnRequired
      BY <2>4 DEF ReturnRequired, NothingForgotten, Closed!Next, Closed!Announce, Closed!Wanted
    <2>5. CASE VisitReturns \/ UNCHANGED subsetVars
      BY <2>5 DEF VisitReturns, subsetVars, Closed!vars
    <2> QED BY <2>2, <2>3, <2>4, <2>5 DEF SubsetNext
  <1> QED BY <1>1, <1>2, SubsetInvHolds, PTL DEF SubsetSpec, ImplementsClosure, Closed!Safety

-----------------------------------------------------------------------------
(***************************************************************************)
(* Theorems about the orchestrator of Provisioning, for any lists of       *)
(* services with any dependencies, missing and circular ones included, any *)
(* order of its goroutines, and any failures of Docker.                    *)
(***************************************************************************)

-----------------------------------------------------------------------------
(* The inductive invariant *)

\* How far provisioning is: nothing has started before the levels, there is a network from the
\* sort on, and CleanUp is tried a limited number of times.
PhaseInv ==
  /\ phase \in {"submitted", "refused", "images", "network"} => network = "none"
  /\ phase \in {"sort", "levels"} => network = "up"
  /\ phase \notin {"terminating", "again", "cleaned"} => attempt = 0
  /\ phase = "again" => attempt < CleanupAttempts

\* Without a sorted graph, and without a network, nothing is started.
NothingStarted == \A s \in Services : pc[s] = "idle" /\ container[s] = "none"

StartInv ==
  /\ phase = "levels" => Resolvable
  /\ phase \in {"submitted", "refused", "images", "network", "sort"} => NothingStarted
  /\ ~Resolvable => NothingStarted
  /\ network = "none" => NothingStarted

\* The levels that are done are registered and closed under dependencies, and a goroutine runs
\* only for a service whose dependencies they hold.
LevelInv ==
  /\ visited \subseteq registry
  /\ \A s \in visited \cup level : DependsOn(s) \subseteq visited
  /\ \A s \in Services : pc[s] # "idle" => DependsOn(s) \subseteq visited
  /\ \A s \in Services : pc[s] = "ready" => s \in registry

\* What CleanUp has gone through without an error is gone.
CleanInv ==
  /\ phase = "terminating" /\ "cleanup" \notin failures =>
        \A s \in held \ todo : container[s] = "none"
  /\ CleanMeansStopped

ProvisioningInv ==
  /\ ProvisioningTypeOK
  /\ PhaseInv
  /\ StartInv
  /\ LevelInv
  /\ CleanInv

-----------------------------------------------------------------------------
(* Every step keeps it *)

\* Services and their dependencies are the request's, which no step changes.
LEMMA RequestFixed ==
  ASSUME [Next]_vars
  PROVE  /\ request' = request /\ Services' = Services
         /\ \A s : DependsOn(s)' = DependsOn(s)
         /\ Resolvable' = Resolvable
  <1>1. request' = request
    BY DEF Next, vars, Orchestrate, ValidateBundle, PrepareRegistryImages, CreateNetwork,
           TopologicalSort, StartLevel, LevelDone, Provisioned, CleanUp, RemoveNetwork, Goroutine,
           WaitForDependencies, InterpolateEnvVars, ProvisionService, Register, RegistryRace,
           TerminateContainer, ContainerExits
  <1> QED BY <1>1 DEF Services, Cfg, DependsOn, Resolvable

\* The steps before the levels.
LEMMA PreparationKeepsInv ==
  ASSUME ProvisioningInv, request' = request, Services' = Services, Resolvable' = Resolvable,
         \A s : DependsOn(s)' = DependsOn(s),
         ValidateBundle \/ PrepareRegistryImages \/ CreateNetwork \/ TopologicalSort
  PROVE  ProvisioningInv'
  <1> USE DEF ProvisioningInv, steps, cleaning
  <1>1. UNCHANGED <<level, visited, pc, registry, held, container, todo, attempt>>
    BY DEF ValidateBundle, PrepareRegistryImages, CreateNetwork, TopologicalSort
  <1>2. /\ phase \in {"submitted", "images", "network", "sort"}
        /\ phase' \in {"refused", "images", "network", "sort", "levels", "failed"}
        /\ phase' = "levels" => Resolvable
    BY DEF ValidateBundle, PrepareRegistryImages, CreateNetwork, TopologicalSort
  <1>3. ProvisioningTypeOK'
    BY <1>1, <1>2 DEF ProvisioningTypeOK, ValidateBundle, PrepareRegistryImages, CreateNetwork,
                      TopologicalSort
  <1>4. PhaseInv'
    BY <1>1, <1>2 DEF PhaseInv, ValidateBundle, PrepareRegistryImages, CreateNetwork, TopologicalSort
  <1>5. NothingStarted'
    BY <1>1, <1>2 DEF StartInv, NothingStarted
  <1>6. StartInv'
    BY <1>2, <1>5 DEF StartInv
  <1>7. LevelInv'
    BY <1>1 DEF LevelInv
  <1>8. CleanInv'
    BY <1>2 DEF CleanInv, CleanMeansStopped
  <1> QED BY <1>3, <1>4, <1>6, <1>7, <1>8

\* The levels.
LEMMA LevelsKeepInv ==
  ASSUME ProvisioningInv, request' = request, Services' = Services, Resolvable' = Resolvable,
         \A s : DependsOn(s)' = DependsOn(s),
         StartLevel \/ LevelDone \/ Provisioned \/ \E s, t \in Services : RegistryRace(s, t)
  PROVE  ProvisioningInv'
  <1> USE DEF ProvisioningInv, steps, cleaning
  <1>1. /\ UNCHANGED <<registry, held, container, network, failures, todo, attempt>>
        /\ phase = "levels" /\ phase' \in {"levels", "failed", "provisioned", "crashed"}
    BY DEF StartLevel, LevelDone, Provisioned, RegistryRace
  <1>2. ProvisioningTypeOK'
    <2>1. CASE StartLevel
      <3>1. level' \subseteq Services
        BY <2>1 DEF StartLevel, NextLevel
      <3>2. pc' \in [Services -> {"idle", "waiting", "interpolating", "provisioning", "registering",
                                  "ready", "failed"}]
        BY <2>1 DEF StartLevel, ProvisioningTypeOK
      <3> QED BY <1>1, <2>1, <3>1, <3>2 DEF StartLevel, ProvisioningTypeOK
    <2>2. CASE ~StartLevel
      BY <1>1, <2>2 DEF LevelDone, Provisioned, RegistryRace, ProvisioningTypeOK
    <2> QED BY <2>1, <2>2
  <1>3. PhaseInv'
    BY <1>1 DEF PhaseInv
  <1>4. StartInv'
    BY <1>1 DEF StartInv, PhaseInv
  <1>5. LevelInv'
    <2>1. CASE StartLevel
      <3>1. /\ level' = NextLevel(visited) /\ UNCHANGED visited
            /\ \A s \in Services : pc'[s] = IF s \in level' THEN "waiting" ELSE pc[s]
        BY <2>1 DEF StartLevel
      <3>2. \A s \in level' : DependsOn(s) \subseteq visited
        BY <3>1 DEF NextLevel
      <3> QED BY <1>1, <3>1, <3>2 DEF LevelInv
    <2>2. CASE LevelDone
      <3>1. UNCHANGED pc /\ level' = {} /\ \A s \in level : pc[s] \in {"ready", "failed"}
        BY <2>2 DEF LevelDone
      <3>2. \/ visited' = visited
            \/ visited' = visited \cup level /\ \A s \in level : pc[s] = "ready"
        BY <2>2, <3>1 DEF LevelDone
      <3>3. \A s \in level : pc[s] = "ready" => s \in registry
        BY DEF LevelInv, ProvisioningTypeOK
      <3> QED BY <1>1, <3>1, <3>2, <3>3 DEF LevelInv
    <2>3. CASE Provisioned \/ \E s, t \in Services : RegistryRace(s, t)
      BY <1>1, <2>3 DEF Provisioned, RegistryRace, LevelInv
    <2> QED BY <2>1, <2>2, <2>3
  <1>6. CleanInv'
    BY <1>1 DEF CleanInv, CleanMeansStopped
  <1> QED BY <1>2, <1>3, <1>4, <1>5, <1>6

\* The goroutines of a level.
LEMMA GoroutineKeepsInv ==
  ASSUME ProvisioningInv, request' = request, Services' = Services, Resolvable' = Resolvable,
         \A s : DependsOn(s)' = DependsOn(s),
         NEW s \in Services, phase = "levels", Goroutine(s)
  PROVE  ProvisioningInv'
  <1> USE DEF ProvisioningInv, steps, cleaning
  <1>1. UNCHANGED <<phase, level, visited, network, todo, attempt>>
    BY DEF Goroutine, WaitForDependencies, InterpolateEnvVars, ProvisionService, Register
  <1>2. /\ registry \subseteq registry' /\ registry' \subseteq Services
        /\ held' \subseteq Services /\ failures' \subseteq {"sort", "reference", "provider", "cleanup"}
        /\ container' \in [Services -> {"none", "running", "exited"}]
    BY DEF Goroutine, WaitForDependencies, InterpolateEnvVars, ProvisionService, Register,
           ProvisioningTypeOK
  <1>3. PICK to \in {"interpolating", "provisioning", "registering", "ready", "failed"} :
            /\ pc' = [pc EXCEPT ![s] = to] /\ pc[s] # "idle"
            /\ to = "ready" => s \in registry'
    BY DEF Goroutine, WaitForDependencies, InterpolateEnvVars, ProvisionService, Register, Goes
  <1>4. ProvisioningTypeOK'
    BY <1>1, <1>2, <1>3 DEF ProvisioningTypeOK
  <1>5. PhaseInv'
    BY <1>1 DEF PhaseInv
  <1>6. StartInv'
    BY <1>1 DEF StartInv, PhaseInv
  <1>7. LevelInv'
    <2>1. \A t \in Services : pc'[t] = pc[t] \/ (t = s /\ pc'[t] = to)
      <3>1. DOMAIN pc = Services
        BY DEF ProvisioningTypeOK
      <3> TAKE t \in Services
      <3>2. CASE t = s
        BY <1>3, <3>1, <3>2
      <3>3. CASE t # s
        BY <1>3, <3>1, <3>3
      <3> QED BY <3>2, <3>3
    <2> QED BY <1>1, <1>2, <1>3, <2>1 DEF LevelInv
  <1>8. CleanInv'
    BY <1>1 DEF CleanInv, CleanMeansStopped
  <1> QED BY <1>4, <1>5, <1>6, <1>7, <1>8

\* Cleaning up, and containers that end by themselves.
LEMMA CleaningKeepsInv ==
  ASSUME ProvisioningInv, request' = request, Services' = Services, Resolvable' = Resolvable,
         \A s : DependsOn(s)' = DependsOn(s),
         \/ CleanUp \/ RemoveNetwork
         \/ \E s \in Services : TerminateContainer(s) \/ ContainerExits(s)
  PROVE  ProvisioningInv'
  <1> USE DEF ProvisioningInv, steps, cleaning, CleanupAttempts
  <1>1. UNCHANGED <<level, visited, pc, registry, held>>
    BY DEF CleanUp, RemoveNetwork, TerminateContainer, ContainerExits
  <1>2. LevelInv'
    BY <1>1 DEF LevelInv
  <1>3. CASE CleanUp
    <2>1. /\ phase' = "terminating" /\ todo' = held /\ UNCHANGED <<container, network>>
          /\ attempt' = attempt + 1 /\ attempt < 3 /\ failures' \subseteq failures
      BY <1>3 DEF CleanUp, PhaseInv
    <2>2. ProvisioningTypeOK'
      <3>1. attempt' \in 0..3
        BY <2>1 DEF ProvisioningTypeOK
      <3> QED BY <1>1, <2>1, <3>1 DEF ProvisioningTypeOK
    <2>3. PhaseInv' /\ StartInv'
      BY <1>1, <2>1 DEF PhaseInv, StartInv, NothingStarted
    <2>4. CleanInv'
      BY <1>1, <2>1 DEF CleanInv, CleanMeansStopped
    <2> QED BY <1>2, <2>2, <2>3, <2>4
  <1>4. CASE RemoveNetwork
    <2>1. /\ phase = "terminating" /\ todo = {} /\ UNCHANGED <<container, todo, attempt>>
          /\ phase' = IF "cleanup" \in failures' /\ attempt < 3 THEN "again" ELSE "cleaned"
          /\ network' # "none" \/ network = "none"
      BY <1>4 DEF RemoveNetwork, NetworkRemoval
    <2>2. ProvisioningTypeOK'
      BY <1>1, <1>4, <2>1 DEF RemoveNetwork, NetworkRemoval, ProvisioningTypeOK
    <2>3. PhaseInv' /\ StartInv'
      BY <1>1, <2>1 DEF PhaseInv, StartInv, NothingStarted
    <2>4. ASSUME "cleanup" \notin failures'
          PROVE  /\ \A s \in Services : container[s] # "running"
                 /\ network' # "up" /\ "cleanup" \notin failures
      BY <1>4, <2>4 DEF RemoveNetwork, NetworkRemoval, StartInv, NothingStarted
    <2>5. CleanInv'
      BY <1>1, <2>1, <2>4 DEF CleanInv, CleanMeansStopped
    <2> QED BY <1>2, <2>2, <2>3, <2>5
  <1>5. ASSUME NEW s \in Services, TerminateContainer(s)
        PROVE  ProvisioningInv'
    <2>1. /\ phase = "terminating" /\ UNCHANGED <<phase, network, attempt>> /\ todo' = todo \ {s}
          /\ \/ container' = [container EXCEPT ![s] = "none"] /\ UNCHANGED failures
             \/ UNCHANGED container /\ failures' = failures \cup {"cleanup"}
      BY <1>5 DEF TerminateContainer
    <2>2. ProvisioningTypeOK'
      BY <1>1, <2>1 DEF ProvisioningTypeOK
    <2>3. \A t \in Services : container'[t] = container[t] \/ container'[t] = "none"
      BY <2>1 DEF ProvisioningTypeOK
    <2>4. PhaseInv' /\ StartInv'
      BY <1>1, <2>1, <2>3 DEF PhaseInv, StartInv, NothingStarted
    <2>5. CleanInv'
      <3>1. held \subseteq Services
        BY DEF ProvisioningTypeOK
      <3>2. CASE UNCHANGED failures /\ container' = [container EXCEPT ![s] = "none"]
        BY <1>1, <2>1, <2>3, <3>1, <3>2 DEF CleanInv, CleanMeansStopped, ProvisioningTypeOK
      <3>3. CASE failures' = failures \cup {"cleanup"}
        BY <2>1, <3>3 DEF CleanInv, CleanMeansStopped
      <3> QED BY <2>1, <3>2, <3>3
    <2> QED BY <1>2, <2>2, <2>4, <2>5
  <1>6. ASSUME NEW s \in Services, ContainerExits(s)
        PROVE  ProvisioningInv'
    <2>1. /\ phase # "cleaned" /\ container[s] = "running"
          /\ UNCHANGED <<phase, network, attempt, todo, failures>>
          /\ container' = [container EXCEPT ![s] = "exited"]
      BY <1>6 DEF ContainerExits
    <2>2. ProvisioningTypeOK'
      BY <1>1, <2>1 DEF ProvisioningTypeOK
    <2>3. \A t \in Services : container'[t] = container[t] \/ container[t] = "running"
      BY <2>1 DEF ProvisioningTypeOK
    <2>4. PhaseInv' /\ StartInv'
      BY <1>1, <2>1, <2>3 DEF PhaseInv, StartInv, NothingStarted
    <2>5. CleanInv'
      <3>1. held \subseteq Services
        BY DEF ProvisioningTypeOK
      <3> QED BY <1>1, <2>1, <2>3, <3>1 DEF CleanInv, CleanMeansStopped
    <2> QED BY <1>2, <2>2, <2>4, <2>5
  <1> QED BY <1>3, <1>4, <1>5, <1>6

\* Every step keeps the invariant.
LEMMA ProvisioningInvStep ==
  ASSUME ProvisioningInv, [Next]_vars
  PROVE  ProvisioningInv'
  <1>1. /\ request' = request /\ Services' = Services /\ Resolvable' = Resolvable
        /\ \A s : DependsOn(s)' = DependsOn(s)
    BY RequestFixed
  <1>2. CASE UNCHANGED vars
    BY <1>1, <1>2 DEF vars, ProvisioningInv, ProvisioningTypeOK, PhaseInv, StartInv, NothingStarted,
                      LevelInv, CleanInv, CleanMeansStopped
  <1>3. CASE Next
    BY <1>1, <1>3, PreparationKeepsInv, LevelsKeepInv, GoroutineKeepsInv, CleaningKeepsInv
       DEF Next, Orchestrate
  <1> QED BY <1>2, <1>3

\* The invariant holds in every state.
LEMMA ProvisioningInvariant == Spec => []ProvisioningInv
  <1>1. Init => ProvisioningInv
    <2> SUFFICES ASSUME Init PROVE ProvisioningInv
      OBVIOUS
    <2>1. PICK cfg, drawn : Fresh(cfg, drawn)
      BY DEF Init
    <2>2. Services = DOMAIN cfg
      BY <2>1 DEF Fresh, Services, Cfg
    <2>3. NothingStarted /\ phase \in {"images", "submitted"}
      BY <2>1, <2>2 DEF Fresh, NothingStarted
    <2>4. ProvisioningTypeOK
      <3>1. /\ pc \in [Services -> {"idle", "waiting", "interpolating", "provisioning", "registering",
                                    "ready", "failed"}]
            /\ container \in [Services -> {"none", "running", "exited"}]
        BY <2>1, <2>2 DEF Fresh
      <3>2. attempt \in 0..CleanupAttempts
        BY DEF Init, CleanupAttempts
      <3> QED BY <2>3, <3>1, <3>2 DEF Init, ProvisioningTypeOK
    <2>5. PhaseInv /\ StartInv
      BY <2>3 DEF Init, PhaseInv, StartInv
    <2>6. LevelInv
      BY <2>3 DEF Init, LevelInv, NothingStarted
    <2>7. CleanInv
      BY <2>3 DEF CleanInv, CleanMeansStopped
    <2> QED BY <2>4, <2>5, <2>6, <2>7 DEF ProvisioningInv
  <1> QED BY <1>1, ProvisioningInvStep, PTL DEF Spec

-----------------------------------------------------------------------------
(* What follows from it *)

\* The orchestrator's state keeps its type.
THEOREM ProvisioningTypeCorrect == Spec => []ProvisioningTypeOK
  <1>1. ProvisioningInv => ProvisioningTypeOK
    BY DEF ProvisioningInv
  <1> QED BY <1>1, ProvisioningInvariant, PTL

\* A service is started only after all it depends on, at whatever distance, is registered, and
\* nothing at all is started of a graph that cannot be sorted.
THEOREM ServicesStartInOrder == Spec => []StartedInOrder
  <1> SUFFICES ASSUME ProvisioningInv PROVE StartedInOrder
    BY ProvisioningInvariant, PTL
  <1> DEFINE below == [t \in Services |-> DependsOn(t)]
  <1>1. ASSUME NEW s \in Services, pc[s] # "idle"
        PROVE  Reachable(below, s) \subseteq registry
    <2>1. Resolvable
      BY <1>1 DEF ProvisioningInv, StartInv, NothingStarted
    <2>2. below \in [Services -> SUBSET Services]
      BY <2>1 DEF Resolvable
    <2>3. /\ visited \subseteq Services /\ visited \subseteq registry
          /\ below[s] \subseteq visited /\ \A t \in visited : below[t] \subseteq visited
      BY <1>1 DEF ProvisioningInv, ProvisioningTypeOK, LevelInv
    <2> HIDE DEF below
    <2>4. Reachable(below, s) \subseteq visited
      BY <2>2, <2>3, ReachableIsLeast
    <2> QED BY <2>3, <2>4
  <1>2. DependenciesReadyFirst
    BY <1>1 DEF DependenciesReadyFirst
  <1>3. ASSUME NEW s \in Services, ~(DependsOn(s) \subseteq Services) \/ s \in Reachable(below, s)
        PROVE  \A t \in Services : container[t] = "none"
    <2>1. ~Resolvable
      BY <1>3 DEF Resolvable, HasCycle
    <2> QED BY <2>1 DEF ProvisioningInv, StartInv, NothingStarted
  <1>4. BadGraphStartsNothing
    BY <1>3 DEF BadGraphStartsNothing
  <1> QED BY <1>2, <1>4 DEF StartedInOrder

\* When CleanUp reports no error, at whichever attempt, nothing of the scenario runs, all that
\* was handed to the orchestrator is removed and the network is gone.
THEOREM CleanIsStopped == Spec => []CleanMeansStopped
  <1>1. ProvisioningInv => CleanMeansStopped
    BY DEF ProvisioningInv, CleanInv
  <1> QED BY <1>1, ProvisioningInvariant, PTL

-----------------------------------------------------------------------------
(***************************************************************************)
(* Drawn workflows that the runner has accepted.  Cutting a workflow down  *)
(* to the services of a scenario leaves the dependencies of these services *)
(* as they were, at whatever distance: what the validation found out about *)
(* the whole workflow holds for the services that are provisioned.         *)
(***************************************************************************)

\* A part of a graph that holds what its members need reaches what the graph reaches.
LEMMA PartReachesTheSame ==
    ASSUME NEW N, NEW needs \in [N -> SUBSET N], NEW S \in SUBSET N,
           \A s \in S : needs[s] \subseteq S, NEW s \in S
    PROVE  Reachable([t \in S |-> needs[t]], s) = Reachable(needs, s)
  <1> DEFINE cut == [t \in S |-> needs[t]]
  <1>1. cut \in [S -> SUBSET S] /\ \A t \in S : cut[t] = needs[t]
    OBVIOUS
  <1> HIDE DEF cut
  <1>2. /\ Reachable(cut, s) \subseteq S /\ cut[s] \subseteq Reachable(cut, s)
        /\ \A t \in Reachable(cut, s) : cut[t] \subseteq Reachable(cut, s)
    BY <1>1, ReachableIsClosed
  <1>3. /\ Reachable(needs, s) \subseteq N /\ needs[s] \subseteq Reachable(needs, s)
        /\ \A t \in Reachable(needs, s) : needs[t] \subseteq Reachable(needs, s)
    BY ReachableIsClosed
  <1>4. Reachable(needs, s) \subseteq Reachable(cut, s)
    <2>1. /\ Reachable(cut, s) \in SUBSET N /\ needs[s] \subseteq Reachable(cut, s)
          /\ \A t \in Reachable(cut, s) : needs[t] \subseteq Reachable(cut, s)
      BY <1>1, <1>2
    <2> QED BY <2>1, ReachableIsLeast
  <1>5. Reachable(cut, s) \subseteq Reachable(needs, s)
    <2> DEFINE C == Reachable(needs, s) \cap S
    <2>1. C \in SUBSET S /\ cut[s] \subseteq C /\ \A t \in C : cut[t] \subseteq C
      BY <1>1, <1>3
    <2> HIDE DEF C
    <2>2. Reachable(cut, s) \subseteq C
      BY <1>1, <2>1, ReachableIsLeast
    <2> QED BY <2>2 DEF C
  <1> QED BY <1>4, <1>5 DEF cut

\* The dependencies of a workflow are between its services.
LEMMA DependenciesAreServices ==
    ASSUME NEW w
    PROVE  BuildServiceDependencies(w) \in [SanitizedNames(w) -> SUBSET SanitizedNames(w)]
  BY DEF BuildServiceDependencies, SanitizedNames

\* The services of a scenario are services of the workflow with all that they need, and each
\* has the dependencies of its name and the references of a node of that name.
CutFrom(cfg, w) ==
  /\ DOMAIN cfg \subseteq SanitizedNames(w)
  /\ \A s \in DOMAIN cfg :
       /\ cfg[s].dependsOn = BuildServiceDependencies(w)[s]
       /\ cfg[s].dependsOn \subseteq DOMAIN cfg
       /\ \E n \in w.nodes : w.name[n] = s /\ cfg[s].refs = NormalizeServiceReferences(w.refs[n])

\* What a scenario of a drawn workflow is given to provision is cut from the workflow.
LEMMA ScenarioIsCutFromWorkflow ==
    ASSUME NEW w, NEW wanted \in SUBSET SanitizedNames(w)
    PROVE  CutFrom(ConfigByName(TranslateScenarioToExecutionBundle(
                                  TranslateWorkflowGraphToServiceGraph(w), wanted)), w)
  <1> DEFINE needs == BuildServiceDependencies(w)
             closed == Closure(needs, wanted)
             all == TranslateServices(w)
             bundle == {c \in all : c.name \in closed}
             cfg == ConfigByName(bundle)
  <1>1. TranslateScenarioToExecutionBundle(TranslateWorkflowGraphToServiceGraph(w), wanted) = bundle
    BY DEF TranslateScenarioToExecutionBundle, TranslateWorkflowGraphToServiceGraph,
           ExpandScenarioServiceSubset
  <1>2. needs \in [SanitizedNames(w) -> SUBSET SanitizedNames(w)]
    BY DependenciesAreServices
  <1>3. ASSUME NEW c \in all
        PROVE  /\ c.name \in SanitizedNames(w) /\ c.dependsOn = needs[c.name]
               /\ \E n \in w.nodes : /\ w.name[n] = c.name
                                    /\ c.refs = NormalizeServiceReferences(w.refs[n])
    <2>1. PICK n \in w.nodes : c = [name |-> w.name[n], dependsOn |-> needs[w.name[n]],
                                    refs |-> NormalizeServiceReferences(w.refs[n])]
      BY DEF TranslateServices
    <2>2. /\ c.name = w.name[n] /\ c.dependsOn = needs[w.name[n]]
          /\ c.refs = NormalizeServiceReferences(w.refs[n])
      BY <2>1
    <2> QED BY <2>2 DEF SanitizedNames
  <1>4. \A s \in SanitizedNames(w) : \E c \in all : c.name = s
    <2> TAKE s \in SanitizedNames(w)
    <2>1. PICK n \in w.nodes : w.name[n] = s
      BY DEF SanitizedNames
    <2> DEFINE c == [name |-> w.name[n], dependsOn |-> needs[w.name[n]],
                     refs |-> NormalizeServiceReferences(w.refs[n])]
    <2>2. c \in all /\ c.name = s
      BY <2>1 DEF TranslateServices
    <2> QED BY <2>2
  <1> HIDE DEF needs, all
  <1>5. closed \subseteq SanitizedNames(w) /\ \A s \in closed : needs[s] \subseteq closed
    BY <1>2, ClosureIsClosed
  <1> HIDE DEF closed
  <1>6. DOMAIN cfg = closed
    BY <1>3, <1>4, <1>5 DEF ConfigByName
  <1>7. ASSUME NEW s \in closed PROVE cfg[s] \in all /\ cfg[s].name = s
    <2>1. \E c \in bundle : c.name = s
      BY <1>4, <1>5
    <2>2. cfg[s] = CHOOSE c \in bundle : c.name = s
      BY <1>6 DEF ConfigByName
    <2> QED BY <2>1, <2>2
  <1> HIDE DEF cfg, bundle
  <1>8. CutFrom(cfg, w)
    BY <1>3, <1>5, <1>6, <1>7 DEF CutFrom, needs
  <1> QED BY <1>1, <1>8 DEF cfg

\* What is provisioned of a drawn workflow was cut from it; what is past the validation has
\* passed it, sorts, and fails on no reference the validation has looked at.
DrawnInv ==
  request.drawn # None =>
    /\ request.drawn \in Workflows /\ CutFrom(Cfg, request.drawn)
    /\ phase \notin {"submitted", "refused"} => RunnerValidates(request.drawn)
    /\ DrawnWorkflowSorts /\ NamedReferencesResolve

\* Services cut from a workflow that the runner accepts can be sorted.
LEMMA AcceptedResolves ==
    ASSUME CutFrom(Cfg, request.drawn), RunnerValidates(request.drawn)
    PROVE  Resolvable
  <1> DEFINE w == request.drawn
             N == SanitizedNames(w)
             needs == BuildServiceDependencies(w)
             cut == [s \in Services |-> DependsOn(s)]
  <1>1. needs \in [N -> SUBSET N] /\ ~HasCycle(needs)
    BY DependenciesAreServices DEF RunnerValidates
  <1>2. /\ Services \subseteq N
        /\ \A s \in Services : DependsOn(s) = needs[s] /\ needs[s] \subseteq Services
    BY DEF CutFrom, Services, DependsOn
  <1>3. cut = [s \in Services |-> needs[s]]
    BY <1>2
  <1> HIDE DEF needs, N
  <1>4. ~HasCycle(cut)
    <2> SUFFICES ASSUME NEW s \in Services, s \in Reachable(cut, s) PROVE FALSE
      BY DEF HasCycle
    <2>1. Reachable([t \in Services |-> needs[t]], s) = Reachable(needs, s)
      BY <1>1, <1>2, PartReachesTheSame
    <2>2. s \in Reachable(needs, s) /\ s \in DOMAIN needs
      BY <1>1, <1>2, <1>3, <2>1
    <2> QED BY <1>1, <2>2 DEF HasCycle
  <1> QED BY <1>2, <1>4 DEF Resolvable

\* A reference of such a service that the validation looks at is registered when the
\* goroutine of the service looks it up.
LEMMA AcceptedReferenceResolves ==
    ASSUME ProvisioningInv, request.drawn \in Workflows, CutFrom(Cfg, request.drawn),
           RunnerValidates(request.drawn),
           NEW s \in Services, pc[s] # "idle", ~(EnvRefs(s) \subseteq registry)
    PROVE  \E n \in request.drawn.nodes : \E r \in request.drawn.refs[n] :
              \/ r.form = "mangled"
              \/ r.name \notin SanitizedNames(request.drawn)
              \/ r.name = request.drawn.name[n]
  <1> DEFINE w == request.drawn
             N == SanitizedNames(w)
             needs == BuildServiceDependencies(w)
  <1>1. PICK n \in w.nodes : w.name[n] = s /\ Cfg[s].refs = NormalizeServiceReferences(w.refs[n])
    BY DEF CutFrom, Services
  <1>2. PICK r \in w.refs[n] : r.name \notin registry
    <2>1. PICK x \in Cfg[s].refs : x.name \notin registry
      BY DEF EnvRefs
    <2> QED BY <1>1, <2>1 DEF NormalizeServiceReferences
  <1>3. r.form \in {"named", "spaced", "mangled"}
    BY <1>1, <1>2, WorkflowsAssumption DEF Forms
  <1>4. SUFFICES ASSUME r.form # "mangled", r.name \in N, r.name # w.name[n] PROVE FALSE
    BY <1>1, <1>2
  <1>5. r.name \in Reachable(needs, s)
    BY <1>1, <1>2, <1>3, <1>4 DEF RunnerValidates, AliasFinds
  <1>6. /\ needs \in [N -> SUBSET N] /\ Services \subseteq N
        /\ \A t \in Services : DependsOn(t) = needs[t]
    BY DependenciesAreServices DEF CutFrom, Services, DependsOn
  <1>7. /\ visited \in SUBSET N /\ visited \subseteq registry
        /\ needs[s] \subseteq visited /\ \A t \in visited : needs[t] \subseteq visited
    BY <1>6 DEF ProvisioningInv, ProvisioningTypeOK, LevelInv
  <1> HIDE DEF needs, N
  <1>8. Reachable(needs, s) \subseteq visited
    BY <1>6, <1>7, ReachableIsLeast
  <1> QED BY <1>2, <1>5, <1>7, <1>8

\* Only the validation lets a drawn workflow pass.
LEMMA OnlyTheAcceptedPass ==
    ASSUME [Next]_vars, phase \in {"submitted", "refused"},
           phase' \notin {"submitted", "refused"}
    PROVE  RunnerValidates(request.drawn)
  BY DEF Next, vars, Orchestrate, ValidateBundle, PrepareRegistryImages, CreateNetwork,
         TopologicalSort, StartLevel, LevelDone, Provisioned, CleanUp, RemoveNetwork, RegistryRace,
         TerminateContainer, ContainerExits, steps, cleaning

\* A failed sort and a failed reference have no other origin.
LEMMA WhereFailuresComeFrom ==
    ASSUME [Next]_vars
    PROVE  /\ "sort" \in failures' => "sort" \in failures \/ (phase = "sort" /\ ~Resolvable)
           /\ "reference" \in failures' =>
                \/ "reference" \in failures
                \/ phase = "levels" /\ \E s \in Services : /\ pc[s] = "interpolating"
                                                         /\ ~(EnvRefs(s) \subseteq registry)
  <1>1. CASE TopologicalSort
    BY <1>1 DEF TopologicalSort
  <1>2. ASSUME NEW s \in Services, phase = "levels", Goroutine(s)
        PROVE  /\ "sort" \in failures' => "sort" \in failures
               /\ "reference" \in failures' =>
                    "reference" \in failures \/ (pc[s] = "interpolating" /\ ~(EnvRefs(s) \subseteq registry))
    BY <1>2 DEF Goroutine, WaitForDependencies, InterpolateEnvVars, ProvisionService, Register
  <1>3. CASE ~TopologicalSort /\ ~(\E s \in Services : phase = "levels" /\ Goroutine(s))
    <2>1. failures' \subseteq failures \cup {"cleanup"}
      BY <1>3 DEF Next, vars, Orchestrate, ValidateBundle, PrepareRegistryImages, CreateNetwork,
                  StartLevel, LevelDone, Provisioned, CleanUp, RemoveNetwork, NetworkRemoval,
                  RegistryRace, TerminateContainer, ContainerExits
    <2> QED BY <2>1
  <1> QED BY <1>1, <1>2, <1>3

\* Every step keeps what is known of a drawn workflow.
LEMMA DrawnInvStep ==
    ASSUME ProvisioningInv, DrawnInv, [Next]_vars
    PROVE  DrawnInv'
  <1>1. request' = request /\ Services' = Services /\ Cfg' = Cfg
    BY RequestFixed DEF Cfg
  <1> SUFFICES ASSUME request.drawn # None PROVE DrawnInv'
    BY <1>1 DEF DrawnInv
  <1>2. /\ request.drawn \in Workflows /\ CutFrom(Cfg, request.drawn)
        /\ phase \notin {"submitted", "refused"} => RunnerValidates(request.drawn)
        /\ DrawnWorkflowSorts /\ NamedReferencesResolve
    BY DEF DrawnInv
  <1>3. phase' \notin {"submitted", "refused"} => RunnerValidates(request.drawn)
    BY <1>2, OnlyTheAcceptedPass
  <1>4. DrawnWorkflowSorts'
    BY <1>1, <1>2, WhereFailuresComeFrom, AcceptedResolves DEF DrawnWorkflowSorts
  <1>5. NamedReferencesResolve'
    <2> SUFFICES ASSUME "reference" \in failures', "reference" \notin failures
                 PROVE  NamedReferencesResolve'
      BY <1>1, <1>2 DEF NamedReferencesResolve
    <2>1. PICK s \in Services : /\ pc[s] = "interpolating" /\ ~(EnvRefs(s) \subseteq registry)
                               /\ phase = "levels"
      BY WhereFailuresComeFrom
    <2> QED BY <1>1, <1>2, <2>1, AcceptedReferenceResolves DEF NamedReferencesResolve
  <1> QED BY <1>1, <1>2, <1>3, <1>4, <1>5 DEF DrawnInv

\* A drawn workflow that the runner accepts is one the builder finds runnable, its services
\* can be brought into an order, and no reference that the validation has read fails to
\* resolve (bundle.go:361-444 and 803-840, orchestrator.go:74-84, interpolator.go:82-93).
THEOREM AcceptedWorkflowsProvision == Spec => []AcceptedProvisions
  <1>1. Init => DrawnInv
    <2> SUFFICES ASSUME Init, request.drawn # None PROVE DrawnInv
      BY DEF DrawnInv
    <2>0. PICK w \in Workflows : \E wanted \in SUBSET SanitizedNames(w) :
            Fresh(ConfigByName(TranslateScenarioToExecutionBundle(
                                 TranslateWorkflowGraphToServiceGraph(w), wanted)), w)
      BY DEF Init, Fresh
    <2>1. PICK wanted \in SUBSET SanitizedNames(w) :
            Fresh(ConfigByName(TranslateScenarioToExecutionBundle(
                                 TranslateWorkflowGraphToServiceGraph(w), wanted)), w)
      BY <2>0
    <2>2. /\ Cfg = ConfigByName(TranslateScenarioToExecutionBundle(
                                 TranslateWorkflowGraphToServiceGraph(w), wanted))
          /\ request.drawn = w /\ phase = "submitted"
      BY <2>1, WorkflowsAssumption DEF Fresh, Cfg
    <2>3. CutFrom(Cfg, w)
      BY <2>2, ScenarioIsCutFromWorkflow
    <2>4. failures = {}
      BY DEF Init
    <2> QED BY <2>2, <2>3, <2>4 DEF DrawnInv, DrawnWorkflowSorts, NamedReferencesResolve
  <1>2. ProvisioningInv /\ DrawnInv => AcceptedProvisions
    <2> SUFFICES ASSUME ProvisioningInv, DrawnInv PROVE AcceptedProvisions
      OBVIOUS
    <2>1. DrawnWorkflowSorts /\ NamedReferencesResolve
      BY DEF DrawnInv, DrawnWorkflowSorts, NamedReferencesResolve
    <2>2. AcceptedIsRunnable
      <3> SUFFICES ASSUME RunnerValidates(request.drawn) PROVE ValidateServices(request.drawn)
        BY DEF AcceptedIsRunnable, DrawnInv
      <3> QED BY DEF RunnerValidates, ValidateServices, ValidateRuntimeReferenceReadiness, AliasFinds
    <2> QED BY <2>1, <2>2 DEF AcceptedProvisions, ProvisioningInv
  <1> QED BY <1>1, <1>2, ProvisioningInvariant, DrawnInvStep, PTL DEF Spec
=============================================================================
