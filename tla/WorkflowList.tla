---------------------------- MODULE WorkflowList ----------------------------
(***************************************************************************)
(* The list of a project's workflows: creating, importing, cloning and     *)
(* deleting workflows, templates, and what the page tells the user.        *)
(*                                                                         *)
(* Each of create, import, template and clone is an asynchronous handler   *)
(* that goes on after the list was left: it waits for the file or for the  *)
(* flush of unsynchronised changes and then opens the workflow it made.    *)
(* The contents of a workflow are WorkflowBundle's; here it has a name and *)
(* the kinds of data kept for it in the other stores.                      *)
(***************************************************************************)
EXTENDS WorkflowBundle

CONSTANTS
  Kinds,       \* the kinds of records kept for a workflow: "scenario", "execution",
               \* "scenario_run", "test_result"
  Ids,         \* workflow ids generateId can give out
  Words,       \* the words of the names
  FileName,    \* the name in the file that is imported
  TemplateName,\* the name in the template
  BlankName,   \* "New Workflow"
  CloneSlots,  \* clones that may be under way at once: nothing disables the item
  MaxWorkflows \* bounds the workflows made, by alone

\* a workflow of the list: its name, and whether it was deleted
Entries == [name : Seq(Words), deleted : BOOLEAN]

\* a handler under way: what it waits for, the workflow it made and the names it was
\* rendered with
Handlers == [wait : {"delay", "file", "flush"}, workflow : Ids \cup {None},
             names : SUBSET Seq(Words)]

\* the code's suffixes never run out; here there are as many as workflows
ASSUME WorkflowListAssumption ==
  /\ "scenario" \in Kinds
  /\ IsFiniteSet(Ids) /\ None \notin Ids /\ "list" \notin Ids
  /\ None \notin Entries /\ None \notin Handlers
  /\ CloneSlots \cap {"create", "import", "template"} = {}
  /\ "Copy" \in Words /\ {FileName, TemplateName, BlankName} \subseteq Seq(Words)
  /\ NameSuffixes \in Seq(Words) /\ IsInjective(NameSuffixes)
  /\ Len(NameSuffixes) >= Cardinality(Ids)
  /\ MaxWorkflows \in [BOOLEAN -> Nat]

VARIABLES
  alone,       \* a user who waits for what is under way, a server that answers, and
               \* nobody else at work; or none of these
  workflows,   \* None, or [name, deleted]
  data,        \* the kinds of live records the stores keep for a workflow
  pending,     \* workflows with unsynchronised changes
  flows,       \* the handlers under way: None, or where they wait
  page,        \* "list", or the workflow whose builder is open
  gallery,     \* the template gallery is open
  pendingDelete, \* workflowPendingDelete
  toast        \* the message this step showed, or None

vars == <<alone, workflows, data, pending, flows, page, gallery, pendingDelete, toast>>

FlowKinds == {"create", "import", "template"} \cup CloneSlots

Live == {w \in Ids : workflows[w] # None /\ ~workflows[w].deleted}

Unused == {w \in Ids : workflows[w] = None}

Room == Cardinality(Ids \ Unused) < MaxWorkflows[alone]

\* the names of workflowsList, as a handler finds them when it is called
Names == {workflows[w].name : w \in Live}

Quiet == \A f \in FlowKinds : flows[f] = None

OnList == page = "list" /\ (alone => Quiet)

Say(kind, w, text) == toast' = [kind |-> kind, workflow |-> w, text |-> text]

-----------------------------------------------------------------------------
(* Making a workflow *)

\* createWorkflow, updateWorkflowGraph, createScenario and updateScenario,
\* then the wait for the flush: of what createWorkflowFromBundle does, all
\* that comes before its await
StartFromBundle(f, w, name) ==
  /\ w \in Unused /\ Room
  /\ workflows' = [workflows EXCEPT ![w] = [name |-> name, deleted |-> FALSE]]
  /\ data' = [data EXCEPT ![w] = {"scenario"}]
  /\ pending' = pending \cup {w}
  /\ flows' = [flows EXCEPT ![f] = [wait |-> "flush", workflow |-> w, names |-> {}]]

\* a page left and opened again has its buttons on: one handler of a kind (one
\* clone per slot) is followed at a time

\* New Workflow: a blank one, and 100 ms for its persistence
HandleCreate ==
  /\ OnList /\ flows["create"] = None /\ pendingDelete = None /\ ~gallery /\ Room
  /\ \E w \in Unused :
       /\ workflows' = [workflows EXCEPT ![w] = [name |-> BlankName, deleted |-> FALSE]]
       /\ data' = [data EXCEPT ![w] = {}]
       /\ pending' = pending \cup {w}
       /\ flows' = [flows EXCEPT !["create"] = [wait |-> "delay", workflow |-> w, names |-> {}]]
  /\ toast' = None
  /\ UNCHANGED <<page, gallery, pendingDelete>>

CreateEnds ==
  /\ flows["create"] # None
  /\ page' = flows["create"].workflow
  /\ flows' = [flows EXCEPT !["create"] = None]
  /\ toast' = None
  /\ UNCHANGED <<workflows, data, pending, gallery, pendingDelete>>

\* a file is chosen; the handler keeps the names it was rendered with
HandleImport ==
  /\ OnList /\ flows["import"] = None /\ pendingDelete = None /\ ~gallery
  /\ flows' = [flows EXCEPT !["import"] = [wait |-> "file", workflow |-> None, names |-> Names]]
  /\ toast' = None
  /\ UNCHANGED <<workflows, data, pending, page, gallery, pendingDelete>>

\* the text is there: parsed and stored, or refused
FileRead ==
  /\ flows["import"] # None /\ flows["import"].wait = "file"
  /\ \/ \E w \in Unused :
          /\ StartFromBundle("import", w, GetUniqueWorkflowName(FileName, flows["import"].names))
          /\ toast' = None
     \/ /\ flows' = [flows EXCEPT !["import"] = None]
        /\ Say("import", None, "failed")
        /\ UNCHANGED <<workflows, data, pending>>
  /\ UNCHANGED <<page, gallery, pendingDelete>>

OpenGallery ==
  /\ OnList /\ ~gallery /\ pendingDelete = None
  /\ gallery' = TRUE /\ toast' = None
  /\ UNCHANGED <<workflows, data, pending, flows, page, pendingDelete>>

CloseGallery ==
  /\ page = "list" /\ gallery
  /\ gallery' = FALSE /\ toast' = None
  /\ UNCHANGED <<workflows, data, pending, flows, page, pendingDelete>>

\* Mutant: the template's own name is given to the workflow
TemplateOwnName ==
  /\ OnList /\ gallery /\ flows["template"] = None
  /\ \E w \in Unused : StartFromBundle("template", w, TemplateName)
  /\ toast' = None
  /\ UNCHANGED <<page, gallery, pendingDelete>>

\* Use template: the buttons of the gallery are off while one is pending
HandleCreateFromTemplate ==
  /\ OnList /\ gallery /\ flows["template"] = None
  /\ \E w \in Unused : StartFromBundle("template", w, GetUniqueWorkflowName(TemplateName, Names))
  /\ toast' = None
  /\ UNCHANGED <<page, gallery, pendingDelete>>

\* Clone workflow: a workflow without a scenario is no valid bundle
HandleClone(f, w) ==
  /\ OnList /\ w \in Live /\ flows[f] = None /\ pendingDelete = None /\ ~gallery
  /\ IF "scenario" \in data[w]
     THEN /\ \E v \in Unused :
               StartFromBundle(f, v, GetUniqueWorkflowName(Append(workflows[w].name, "Copy"), Names))
          /\ toast' = None
     ELSE /\ Say("clone", w, "failed")
          /\ UNCHANGED <<workflows, data, pending, flows>>
  /\ UNCHANGED <<page, gallery, pendingDelete>>

\* what is said when the flush has ended; only import asks what is left
SaidAfterFlush(f, left) ==
  CASE f = "template" -> "synced"
    [] f = "import"   -> IF left = {} THEN "synced" ELSE "catching_up"
    [] OTHER          -> "created"

\* flushPendingBeforeRun returns, with everything sent or not; the builder opens
FlushEnds(f) ==
  /\ flows[f] # None /\ flows[f].wait = "flush"
  /\ \E left \in SUBSET pending :
       /\ alone => left = {}
       /\ pending' = left
       /\ Say(f, flows[f].workflow, SaidAfterFlush(f, left))
  /\ page' = flows[f].workflow
  /\ gallery' = IF f = "template" THEN FALSE ELSE gallery
  /\ flows' = [flows EXCEPT ![f] = None]
  /\ UNCHANGED <<workflows, data, pendingDelete>>

-----------------------------------------------------------------------------
(* Deleting a workflow *)

AskDelete(w) ==
  /\ OnList /\ w \in Live /\ pendingDelete = None /\ ~gallery
  /\ pendingDelete' = w /\ toast' = None
  /\ UNCHANGED <<workflows, data, pending, flows, page, gallery>>

CancelDelete ==
  /\ page = "list" /\ pendingDelete # None
  /\ pendingDelete' = None /\ toast' = None
  /\ UNCHANGED <<workflows, data, pending, flows, page, gallery>>

\* test results, scenario runs, executions and scenarios, then the workflow
HandleDeleteWorkflow ==
  /\ page = "list" /\ pendingDelete # None
  /\ workflows' = [workflows EXCEPT ![pendingDelete].deleted = TRUE]
  /\ data' = [data EXCEPT ![pendingDelete] = {}]
  /\ pending' = pending \cup {pendingDelete}
  /\ pendingDelete' = None
  /\ Say("delete", pendingDelete, "deleted")
  /\ UNCHANGED <<flows, page, gallery>>

-----------------------------------------------------------------------------
(* The rest of the browser *)

\* Open: the card of a workflow
OpenWorkflow(w) ==
  /\ OnList /\ w \in Live /\ pendingDelete = None /\ ~gallery
  /\ page' = w /\ toast' = None
  /\ UNCHANGED <<workflows, data, pending, flows, gallery, pendingDelete>>

\* back to the list, whose dialogs are closed
BackToList ==
  /\ page # "list"
  /\ page' = "list" /\ gallery' = FALSE /\ pendingDelete' = None /\ toast' = None
  /\ UNCHANGED <<workflows, data, pending, flows>>

\* in the builder: a scenario is added, or a run keeps its records; the
\* builder does not ask whether the workflow was deleted
WorkInBuilder ==
  /\ page # "list"
  /\ \E kind \in Kinds : data' = [data EXCEPT ![page] = @ \cup {kind}]
  /\ pending' = pending \cup {page}
  /\ toast' = None
  /\ UNCHANGED <<workflows, flows, page, gallery, pendingDelete>>

\* the background synchronisation sends what is left
Synchronise ==
  /\ pending # {}
  /\ pending' = {} /\ toast' = None
  /\ UNCHANGED <<workflows, data, flows, page, gallery, pendingDelete>>

\* records of a workflow that other clients and the runner made arrive
HydrateData(w) ==
  /\ ~alone /\ workflows[w] # None
  /\ \E kind \in Kinds : data' = [data EXCEPT ![w] = @ \cup {kind}]
  /\ toast' = None
  /\ UNCHANGED <<workflows, pending, flows, page, gallery, pendingDelete>>

-----------------------------------------------------------------------------
Init ==
  /\ alone \in BOOLEAN
  /\ workflows = [w \in Ids |-> None] /\ data = [w \in Ids |-> {}]
  /\ pending = {} /\ flows = [f \in FlowKinds |-> None]
  /\ page = "list" /\ gallery = FALSE /\ pendingDelete = None /\ toast = None

HandlerGoesOn == CreateEnds \/ FileRead \/ \E f \in FlowKinds : FlushEnds(f)

Step ==
  \/ HandleCreate \/ HandleImport \/ OpenGallery \/ CloseGallery \/ HandleCreateFromTemplate
  \/ \E f \in CloneSlots, w \in Ids : HandleClone(f, w)
  \/ HandlerGoesOn
  \/ CancelDelete \/ HandleDeleteWorkflow \/ BackToList \/ WorkInBuilder \/ Synchronise
  \/ \E w \in Ids : AskDelete(w) \/ OpenWorkflow(w) \/ HydrateData(w)

Next == Step /\ UNCHANGED alone

Spec == Init /\ [][Next]_vars

-----------------------------------------------------------------------------
(* Properties *)

\* Types of the page's state.
ListTypeOK ==
  /\ alone \in BOOLEAN /\ workflows \in [Ids -> Entries \cup {None}]
  /\ data \in [Ids -> SUBSET Kinds] /\ pending \subseteq Ids \ Unused
  /\ page \in {"list"} \cup (Ids \ Unused)
  /\ gallery \in BOOLEAN /\ pendingDelete \in {None} \cup Live
  /\ flows \in [FlowKinds -> Handlers \cup {None}]

\* A deleted workflow leaves no scenario, execution, scenario run or test
\* result behind.
DeletedWithData == \A w \in Ids : workflows[w] # None /\ workflows[w].deleted => data[w] = {}

\* A workflow made from a file, a template or another workflow gets a name
\* that no other workflow of the project has.
NamesUnique ==
  \A v, w \in Live : workflows[v].name = workflows[w].name /\ v # w =>
                       workflows[v].name = BlankName

\* The page says that a workflow is synchronised only when it is.
ToldSynced == toast # None /\ toast.text = "synced" => toast.workflow \notin pending

\* The same for the message that ends an import.
ImportToldSynced ==
  toast # None /\ toast.kind = "import" /\ toast.text = "synced" => toast.workflow \notin pending

\* What the page says is so: a deleted workflow is gone with its data, names are unique and
\* what is called synced is, for a patient user with an answering server and nothing still
\* to arrive from elsewhere; the message of an import is right for everyone.
ListTellsTruth ==
  /\ ListTypeOK /\ ImportToldSynced
  /\ alone => DeletedWithData /\ NamesUnique /\ ToldSynced

=============================================================================
