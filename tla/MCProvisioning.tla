---------------------------- MODULE MCProvisioning ----------------------------
(***************************************************************************)
(* The services of a run, in three parts that share no state; a behaviour  *)
(* is about one of them and leaves the others alone.                       *)
(*   provision  every graph of services posted to the API, and every drawn *)
(*              workflow of three nodes with a reference or two            *)
(*   cycles     detectCycles on every graph of three services              *)
(*   subset     expandScenarioServiceSubset on every graph of three        *)
(*              services and every set of targets                          *)
(***************************************************************************)
EXTENDS Provisioning, CycleWalk, ServiceSubset

CONSTANTS s1, s2, s3

VARIABLE part

mcVars == <<vars, walkVars, subsetVars, part>>

\* Every list of services with any dependencies, missing and circular ones included.
AnyPosted ==
  UNION {{[s \in S |-> [name |-> s, dependsOn |-> d[s], refs |-> {}]] : d \in [S -> SUBSET Names]}
         : S \in {{s1}, {s1, s2}, Names}}

\* One edge for each pair of nodes at most, in either direction.
EdgeSets ==
  {{[source |-> p[1], target |-> p[2], readiness |-> "source_requires_target"] : p \in P} :
     P \in SUBSET {q \in Names \X Names : q[1] # q[2]}}

Drawn(name, refs) ==
  {[nodes |-> Names, name |-> name, edges |-> E, refs |-> refs] : E \in EdgeSets}

NoRefs == [n \in Names |-> {}]
OwnNames == [n \in Names |-> n]
Refs(places, forms, names) == [place : places, name : names, form : forms]
Named(names) == Refs({"env"}, {"named"}, names)

\* One node that refers to a service, two nodes that do, and labels that share a name.
\* Which nodes these are does not matter: the services are interchangeable.
MCDrawn ==
  UNION {Drawn(OwnNames, [NoRefs EXCEPT ![s1] = {r}]) : r \in Refs(Places, Forms, {s1, s2})}
  \cup UNION {Drawn(OwnNames, [NoRefs EXCEPT ![s1] = {r[1]}, ![s2] = {r[2]}]) :
                r \in Named({s2, s3}) \X Named({s1, s3})}
  \cup UNION {Drawn([OwnNames EXCEPT ![s1] = n, ![s2] = m], NoRefs) : n, m \in {s2, s3}}

Rest ==
  /\ request = [cfg |-> <<>>, drawn |-> None] /\ phase = "cleaned"
  /\ pc = <<>> /\ container = <<>>
  /\ level = {} /\ visited = {} /\ registry = {} /\ held = {} /\ todo = {} /\ attempt = 0
  /\ network = "none" /\ failures = {}

NoWalk ==
  /\ graph = NoRefs /\ frames = <<>>
  /\ roots = {} /\ visiting = {} /\ finished = {} /\ cycles = {}

NoSubset ==
  /\ deps = NoRefs /\ stack = <<>>
  /\ targets = {} /\ left = {} /\ required = {} /\ returned = FALSE

MCInit ==
  \/ part = "provision" /\ Init /\ NoWalk /\ NoSubset
  \/ part = "cycles" /\ Rest /\ WalkInit /\ NoSubset
  \/ part = "subset" /\ Rest /\ NoWalk /\ SubsetInit

MCNext ==
  \/ part = "provision" /\ Next /\ UNCHANGED <<part, walkVars, subsetVars>>
  \/ part = "cycles" /\ WalkNext /\ UNCHANGED <<part, vars, subsetVars>>
  \/ part = "subset" /\ SubsetNext /\ UNCHANGED <<part, vars, walkVars>>

\* The fairness of Provisioning's FairSpec; the two searches run by themselves.
Proceed ==
  /\ MCNext
  /\ part = "provision" =>
       \/ Orchestrate
       \/ \E s \in Services : (phase = "levels" /\ Goroutine(s)) \/ TerminateContainer(s)

MCSpec == MCInit /\ [][MCNext]_mcVars /\ WF_mcVars(Proceed)

\* The type invariants of the two searches.
SearchTypesOK ==
  /\ part = "cycles" => CycleWalkTypeOK
  /\ part = "subset" => SubsetTypeOK

\* Provisioning, the search for cycles and the expansion of a scenario all come to an end,
\* and the two searches keep their types on the way.
EverythingEnds ==
  /\ []SearchTypesOK
  /\ <>(/\ part = "provision" => phase \in {"refused", "cleaned", "crashed"}
        /\ part = "cycles" => WalkDone
        /\ part = "subset" => returned)
=============================================================================
