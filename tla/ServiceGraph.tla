---------------------------- MODULE ServiceGraph ----------------------------
(***************************************************************************)
(* The translation of a drawn workflow into the services a scenario needs  *)
(* (ui-v2/src/modules/utils/scenario-translator.ts, and the same functions *)
(* in runner-v2/pkg/workflowbundle/bundle.go).                             *)
(*                                                                         *)
(* A workflow is a record                                                  *)
(*   nodes  the node ids                                                   *)
(*   name   node -> sanitizeName(label): two labels may share one name     *)
(*   edges  [source, target, readiness], normalised (EdgeModel.tla)        *)
(*   refs   node -> the runtime references ${token.field} of its values    *)
(* and a reference is [place, name, form]: where it is written, the        *)
(* service name its token leads to, and how the token is written:          *)
(*   "named"     a label, an id or a sanitised name, in any case           *)
(*   "spaced"    the same with blanks around it                            *)
(*   "mangled"   anything else that only sanitizeName turns into the name  *)
(* Dependencies are a function from names to sets of names: the lists of   *)
(* the code are built by uniqueAppend, and nothing depends on their order. *)
(***************************************************************************)
EXTENDS FiniteSets

Places == {"env", "command", "script"}
Forms == {"named", "spaced", "mangled"}

SanitizedNames(w) == {w.name[n] : n \in w.nodes}

BuildServiceDependencies(w) ==
  LET drawn == {e \in w.edges : {e.source, e.target} \subseteq w.nodes}
  IN  [s \in SanitizedNames(w) |->
         {w.name[e.target] : e \in {d \in drawn : /\ d.readiness = "source_requires_target"
                                                  /\ w.name[d.source] = s}}
         \cup
         {w.name[e.source] : e \in {d \in drawn : /\ d.readiness = "target_requires_source"
                                                  /\ w.name[d.target] = s}}]

DependenciesOf(deps, s) == IF s \in DOMAIN deps THEN deps[s] ELSE {}

\* The least set that holds S and the dependencies of all its members.
Closure(deps, S) ==
  LET all == S \cup DOMAIN deps \cup UNION {deps[s] : s \in DOMAIN deps}
      Closed(C) == S \subseteq C /\ \A s \in C : DependenciesOf(deps, s) \subseteq C
  IN  {s \in all : \A C \in SUBSET all : Closed(C) => s \in C}

\* What visit collects in validateRuntimeReferenceReadiness: everything that is
\* ready before s may start.
Reachable(deps, s) == Closure(deps, DependenciesOf(deps, s))

HasCycle(deps) == \E s \in DOMAIN deps : s \in Reachable(deps, s)

\* buildServiceAliasMap knows every label, id and sanitised name and their lower case;
\* which tokens a lookup finds depends on what the caller does to the token first.
AliasFinds(w, r, forms) == r.form \in forms /\ r.name \in SanitizedNames(w)

\* matchAll takes the token as written; a token the map does not know passes.
ValidateRuntimeReferenceReadiness(w, deps) ==
  \A n \in w.nodes : \A r \in w.refs[n] :
     \/ ~AliasFinds(w, r, {"named"})
     \/ r.name = w.name[n]
     \/ r.name \in Reachable(deps, w.name[n])

\* The parts of validateWorkflowGraph that look at services and edges together.
ValidateServices(w) ==
  LET deps == BuildServiceDependencies(w)
  IN  /\ w.nodes # {}
      /\ ~HasCycle(deps)
      /\ ValidateRuntimeReferenceReadiness(w, deps)

\* The runner refuses two labels with one name and trims a token before the lookup.
RunnerValidates(w) ==
  LET deps == BuildServiceDependencies(w)
  IN  /\ w.nodes # {}
      /\ \A m, n \in w.nodes : w.name[m] = w.name[n] => m = n
      /\ ~HasCycle(deps)
      /\ \A n \in w.nodes : \A r \in w.refs[n] :
           \/ ~AliasFinds(w, r, {"named", "spaced"})
           \/ r.name = w.name[n]
           \/ r.name \in Reachable(deps, w.name[n])

\* A token is replaced by the name the map has for it, for its trimmed or its lower-case
\* form, and otherwise by sanitizeName(token): every form ends as a bare service name.
NormalizeServiceReferences(refs) == {[place |-> r.place, name |-> r.name] : r \in refs}

TranslateServices(w) ==
  LET deps == BuildServiceDependencies(w)
  IN  {[name |-> w.name[n], dependsOn |-> deps[w.name[n]],
        refs |-> NormalizeServiceReferences(w.refs[n])] : n \in w.nodes}

TranslateWorkflowGraphToServiceGraph(w) ==
  [serviceDeps |-> BuildServiceDependencies(w), services |-> TranslateServices(w)]

\* Mutant: the targets and what they name, one level deep.
OneLevelSubset(graph, targets) ==
  targets \cup UNION {DependenciesOf(graph.serviceDeps, t) : t \in targets}

ExpandScenarioServiceSubset(graph, targets) == Closure(graph.serviceDeps, targets)

TranslateScenarioToExecutionBundle(graph, targets) ==
  LET required == ExpandScenarioServiceSubset(graph, targets)
  IN  {service \in graph.services : service.name \in required}

=============================================================================
