----------------------------- MODULE BundleTrip -----------------------------
(***************************************************************************)
(* One trip of a workflow: exported to a file, or a file written           *)
(* elsewhere, imported or cloned into a project that has other workflows.  *)
(***************************************************************************)
EXTENDS WorkflowBundle

CONSTANTS
  Workflows,   \* workflows the builder can have made
  HandWritten, \* bundles from elsewhere, of both versions, not all valid
  Existing     \* names already taken in the project, fewer than NameSuffixes

VARIABLES
  source,      \* the workflow or the bundle the trip starts with
  bundle,      \* the file, or None
  copy,        \* the imported or cloned workflow, or None
  phase,       \* "source", "file", "imported", "cloned", "refused"
  next         \* the last id given out

vars == <<source, bundle, copy, phase, next>>

Init ==
  /\ \/ source \in Workflows /\ bundle = None /\ phase = "source"
     \/ source \in HandWritten /\ bundle = source /\ phase = "file"
  /\ copy = None /\ next = 10

\* handleExport
Export ==
  /\ phase = "source"
  /\ LET b == CreateWorkflowBundle(source)
     IN  IF ValidateWorkflowBundle(b)
         THEN bundle' = b /\ phase' = "file"
         ELSE bundle' = None /\ phase' = "refused"
  /\ UNCHANGED <<source, copy, next>>

\* handleImport: parse, validate, normalize, materialize
Import ==
  /\ phase = "file"
  /\ IF ValidateWorkflowBundle(bundle)
     THEN /\ copy' = MaterializeWorkflowBundle(NormalizeWorkflowBundle(bundle), Existing, next)
          /\ next' = next + IdsBefore(bundle.scenarios, Len(bundle.scenarios) + 1)
          /\ phase' = "imported"
     ELSE phase' = "refused" /\ UNCHANGED <<copy, next>>
  /\ UNCHANGED <<source, bundle>>

\* handleClone: without a file
Clone ==
  /\ phase = "source"
  /\ IF ValidateWorkflowBundle(CreateWorkflowBundle(source))
     THEN /\ copy' = CreateClonedWorkflowBundle(source, Existing, next)
          /\ next' = next + IdsBefore(source.scenarios, Len(source.scenarios) + 1)
          /\ phase' = "cloned"
     ELSE phase' = "refused" /\ UNCHANGED <<copy, next>>
  /\ UNCHANGED <<source, bundle>>

Next == Export \/ Import \/ Clone

Spec == Init /\ [][Next]_vars

-----------------------------------------------------------------------------
(* Properties *)

Made == phase \in {"imported", "cloned"}

\* What a run of the scenario does: the tests in order, dependencies by place.
Shape(sc) ==
  LET Test(i) == CHOOSE t \in ToSet(sc.tests) : t.id = sc.order[i]
  IN  [i \in DOMAIN sc.order |->
         [name |-> Test(i).name, target |-> Test(i).target, retry |-> Test(i).retry,
          needs |-> {j \in DOMAIN sc.order : sc.order[j] \in Test(i).needs}]]

\* Types, and that a workflow is there exactly when its bundle was accepted.
BundleTypeOK ==
  /\ phase \in {"source", "file", "imported", "cloned", "refused"}
  /\ (copy # None) <=> Made
  /\ next \in Nat

\* An imported or cloned workflow runs as its source does: same scenarios, the
\* same tests in the same order with the same dependencies, the same edges.
CopyRunsAlike ==
  Made => /\ Len(copy.scenarios) = Len(source.scenarios)
          /\ \A i \in DOMAIN copy.scenarios :
               Shape(copy.scenarios[i]) = Shape(source.scenarios[i])
          /\ ReadinessPairs(copy) = ReadinessPairs(source)

\* No test of an imported or cloned workflow has the id of a test of the source
\* or of another of its own tests: results and drafts are kept by id.
CopyHasOwnIds ==
  Made => /\ \A i \in DOMAIN copy.scenarios, j \in DOMAIN source.scenarios :
               TestIds(copy.scenarios[i].tests) \cap TestIds(source.scenarios[j].tests) = {}
          /\ \A i, j \in DOMAIN copy.scenarios :
               i # j => TestIds(copy.scenarios[i].tests) \cap TestIds(copy.scenarios[j].tests) = {}

\* Whatever import or clone made can be exported again.
CopyIsExportable == Made => ValidateWorkflowBundle(CreateWorkflowBundle(copy))

\* The copy's name is none of the names taken in the project.
CopyHasOwnName == Made => copy.name \notin Existing

\* Every edge of a version 1 file is marked for review in the workflow made of it.
OldEdgesReviewed ==
  phase = "imported" /\ source \in HandWritten /\ source.version = 1 =>
    \A e \in DOMAIN copy.edges : copy.edges[e].review

\* A workflow that import let in is one the runner's validation accepts.
ImportedIsRunnable == phase = "imported" => RunnerAccepts(copy)

\* An imported or cloned workflow has the service configuration of its source.
CopyKeepsServices == Made => copy.nodes = source.nodes
=============================================================================
