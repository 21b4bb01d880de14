-------------------------- MODULE WorkflowVersions --------------------------
(***************************************************************************)
(* Saved versions of a workflow: the dialog that saves and restores them   *)
(* in the browser, the runner's checkpoint and restore handlers, and the   *)
(* numbering of revisions in the database.                                 *)
(*                                                                         *)
(* Other clients edit the same workflow.  The queue between a browser and  *)
(* the server is SyncClient's; here it holds at most one change per        *)
(* entity, and a flush sends all of it or fails.  A content is the number  *)
(* of the edit that wrote it, so no two edits write the same.              *)
(***************************************************************************)
EXTENDS Naturals, FiniteSets, FiniteSetsExt

CONSTANTS
  None,
  Clients,
  Wf,           \* the workflow
  Scenarios,    \* its scenarios; they are created in a run
  MaxEdits,     \* edits of all clients
  MaxJobs,      \* versions saved and restored, failed ones too
  MaxAttempts,  \* attempts to get a revision number (10 in the code)
  Faulty,       \* requests and answers may be lost
  Patient       \* users wait for the dialog before they edit

Entities == {Wf} \cup Scenarios

ASSUME WorkflowVersionsAssumption ==
  /\ Wf \notin Scenarios /\ None \notin Entities
  /\ MaxAttempts \in Nat \ {0} /\ MaxJobs \in Nat /\ MaxEdits \in Nat
  /\ Faulty \in BOOLEAN /\ Patient \in BOOLEAN

VARIABLES
  rows,       \* the server's rows: [version, content, live]
  store,      \* the copies in a browser
  pending,    \* the changes queued in it: None, or the copy to be sent
  seen,       \* contents a browser has shown
  revisions,  \* [number, snapshot, of]: of is the revision restored, or None
  open,       \* clients whose dialog is open
  job,        \* the handler of the dialog: None or its step
  toast,      \* what this step told the user, or None
  edits,
  jobs

vars == <<rows, store, pending, seen, revisions, open, job, toast, edits, jobs>>

Copy(v, content, live) == [version |-> v, content |-> content, live |-> live]

NoCopy == Copy(0, 0, FALSE)

Contents(copies) == [e \in {x \in Entities : copies[x].live} |-> copies[e].content]

Numbers == {r.number : r \in revisions}

Say(c, text, number) == toast' = [client |-> c, text |-> text, number |-> number]

-----------------------------------------------------------------------------
(* Editing and synchronising, as far as versions depend on it *)

CanEdit(c) == c \notin open /\ edits < MaxEdits /\ (Patient => job[c] = None)

Change(c, e, copy) ==
  /\ pending[c][e] = None
  /\ store' = [store EXCEPT ![c][e] = copy]
  /\ pending' = [pending EXCEPT ![c][e] = copy]
  /\ seen' = [seen EXCEPT ![c] = @ \cup {copy.content}]
  /\ edits' = edits + 1
  /\ toast' = None
  /\ UNCHANGED <<rows, revisions, open, job, jobs>>

Edit(c, e) ==
  /\ CanEdit(c) /\ store[c][e].live
  /\ Change(c, e, Copy(store[c][e].version + 1, edits + 1, TRUE))

CreateScenario(c, s) ==
  /\ CanEdit(c) /\ \A d \in Clients : store[d][s] = NoCopy
  /\ Change(c, s, Copy(1, edits + 1, TRUE))

DeleteScenario(c, s) ==
  /\ CanEdit(c) /\ store[c][s].live
  /\ Change(c, s, Copy(store[c][s].version + 1, edits + 1, FALSE))

\* One change at the server: based on the row's version it is applied; on
\* another one it is refused; an update of a row that is gone is sent again
\* as an insert, a delete of one is nothing.
Applied(row, copy) ==
  CASE row.live /\ row.version = copy.version - 1 -> copy
    [] ~row.live /\ copy.live                     -> Copy(1, copy.content, TRUE)
    [] OTHER                                      -> row

AppliedAll(c) ==
  [e \in Entities |-> IF pending[c][e] = None THEN rows[e] ELSE Applied(rows[e], pending[c][e])]

Sent(c) ==
  /\ rows' = AppliedAll(c)
  /\ pending' = [pending EXCEPT ![c] = [e \in Entities |-> None]]

\* the interval of the sync service
BackgroundFlush(c) ==
  /\ \E e \in Entities : pending[c][e] # None
  /\ Sent(c)
  /\ toast' = None
  /\ UNCHANGED <<store, seen, revisions, open, job, edits, jobs>>

\* the server's live rows; without force a local copy of the same or a higher
\* version stays, and what the server no longer has is never removed
Hydrated(c, force) ==
  [e \in Entities |->
     IF rows[e].live /\ (force \/ rows[e].version > store[c][e].version)
     THEN rows[e] ELSE store[c][e]]

Shows(c, copies) ==
  /\ store' = [store EXCEPT ![c] = copies]
  /\ seen' = [seen EXCEPT ![c] = @ \cup {copies[e].content : e \in Entities}]

Reload(c) ==
  /\ Hydrated(c, FALSE) # store[c] /\ job[c] = None
  /\ Shows(c, Hydrated(c, FALSE))
  /\ open' = open \ {c} /\ toast' = None
  /\ UNCHANGED <<rows, pending, revisions, job, edits, jobs>>

-----------------------------------------------------------------------------
(* The dialog *)

OpenDialog(c) ==
  /\ c \notin open /\ store[c][Wf].live
  /\ open' = open \cup {c} /\ toast' = None
  /\ UNCHANGED <<rows, store, pending, seen, revisions, job, edits, jobs>>

\* nothing keeps the dialog open while it is busy
CloseDialog(c) ==
  /\ c \in open
  /\ open' = open \ {c} /\ toast' = None
  /\ UNCHANGED <<rows, store, pending, seen, revisions, job, edits, jobs>>

StartJob(c, of) ==
  /\ c \in open /\ job[c] = None
  /\ jobs < MaxJobs /\ jobs' = jobs + 1
  /\ job' = [job EXCEPT ![c] =
               [step |-> "flush", of |-> of, expected |-> store[c][Wf].version,
                shown |-> Contents(store[c]), snapshot |-> None, number |-> 0, attempt |-> 0]]
  /\ toast' = None
  /\ UNCHANGED <<rows, store, pending, seen, revisions, open, edits>>

SaveVersion(c) == StartJob(c, None)

Restore(c) == \E r \in revisions : StartJob(c, r)

At(c, step) == job[c] # None /\ job[c].step = step

GoTo(c, step) == job' = [job EXCEPT ![c].step = step]

\* flushPending ends, whether or not everything was sent
Flush(c) ==
  /\ At(c, "flush")
  /\ \/ Sent(c)
     \/ Faulty /\ UNCHANGED <<rows, pending>>
  /\ GoTo(c, IF job[c].of = None THEN "checkpoint" ELSE "restore")
  /\ toast' = None
  /\ UNCHANGED <<store, seen, revisions, open, edits, jobs>>

Failed(c) ==
  /\ job' = [job EXCEPT ![c] = None]
  /\ Say(c, "failed", 0)

\* a request or its answer is lost, or the server fails: the dialog only
\* knows that it failed
RequestLost(c) ==
  /\ Faulty /\ job[c] # None /\ job[c].step # "flush"
  /\ Failed(c)
  /\ UNCHANGED <<rows, store, pending, seen, revisions, open, edits, jobs>>

\* the answer arrives: a saved version, or the hydration after a restore
Answer(c) ==
  /\ At(c, "answer")
  /\ IF job[c].of = None
     THEN /\ Say(c, "saved", job[c].number)
          /\ UNCHANGED <<store, seen, open>>
     ELSE /\ \/ Shows(c, Hydrated(c, TRUE))
             \/ Faulty /\ UNCHANGED <<store, seen>>   \* a pull that fails is ignored
          /\ open' = open \ {c}
          /\ Say(c, "restored", job[c].of.number)
  /\ job' = [job EXCEPT ![c] = None]
  /\ UNCHANGED <<rows, pending, revisions, edits, jobs>>

-----------------------------------------------------------------------------
(* The runner *)

\* Mutant: scenarios that are younger than the revision are left alone
RestoredOnly(r) ==
  [e \in Entities |->
     IF e \in DOMAIN r.snapshot
     THEN Copy(IF rows[e].live THEN rows[e].version + 1 ELSE 1, r.snapshot[e], TRUE)
     ELSE rows[e]]

\* the rows of a restored revision: what it does not have is deleted
RestoredRows(r) ==
  [e \in Entities |->
     IF e \in DOMAIN r.snapshot
     THEN Copy(IF rows[e].live THEN rows[e].version + 1 ELSE 1, r.snapshot[e], TRUE)
     ELSE IF rows[e].live THEN [rows[e] EXCEPT !.live = FALSE, !.version = @ + 1]
     ELSE rows[e]]

\* RestoreWorkflowRevision up to its commit: one serializable transaction,
\* guarded by the version of the workflow alone
RestoreWorkflowRevision(c) ==
  /\ At(c, "restore")
  /\ IF rows[Wf].live /\ rows[Wf].version = job[c].expected
     THEN /\ rows' = RestoredRows(job[c].of)
          /\ GoTo(c, "checkpoint")
          /\ toast' = None
     ELSE /\ Failed(c)
          /\ UNCHANGED rows
  /\ UNCHANGED <<store, pending, seen, revisions, open, edits, jobs>>

\* checkpointWorkflow, its own transaction: the snapshot
CheckpointWorkflow(c) ==
  /\ At(c, "checkpoint")
  /\ IF rows[Wf].live
     THEN /\ job' = [job EXCEPT ![c].step = "max", ![c].snapshot = Contents(rows)]
          /\ toast' = None
     ELSE Failed(c)
  /\ UNCHANGED <<rows, store, pending, seen, revisions, open, edits, jobs>>

\* Mutant: the number of revisions there were when the dialog was opened
CountJobs(c) ==
  /\ At(c, "max")
  /\ job' = [job EXCEPT ![c].step = "insert", ![c].number = jobs]
  /\ toast' = None
  /\ UNCHANGED <<rows, store, pending, seen, revisions, open, edits, jobs>>

\* CreateWorkflowRevision: MAX(revision_number) + 1 ...
ReadMax(c) ==
  /\ At(c, "max")
  /\ job' = [job EXCEPT ![c].step = "insert", ![c].number = Max(Numbers \cup {0}) + 1]
  /\ toast' = None
  /\ UNCHANGED <<rows, store, pending, seen, revisions, open, edits, jobs>>

\* Mutant: a number that is taken is tried again as it is
RetrySameNumber(c) ==
  /\ At(c, "insert")
  /\ IF job[c].number \notin Numbers
     THEN /\ revisions' = revisions \cup
               {[number |-> job[c].number, snapshot |-> job[c].snapshot,
                 of |-> IF job[c].of = None THEN 0 ELSE job[c].of.number]}
          /\ GoTo(c, "answer") /\ toast' = None
     ELSE UNCHANGED <<revisions, job, toast>>
  /\ UNCHANGED <<rows, store, pending, seen, open, edits, jobs>>

\* ... and the insert under the unique key, tried again when it was taken
InsertRevision(c) ==
  /\ At(c, "insert")
  /\ IF job[c].number \notin Numbers
     THEN /\ revisions' = revisions \cup
               {[number |-> job[c].number, snapshot |-> job[c].snapshot,
                 of |-> IF job[c].of = None THEN 0 ELSE job[c].of.number]}
          /\ GoTo(c, "answer") /\ toast' = None
     ELSE IF job[c].attempt + 1 < MaxAttempts
     THEN /\ job' = [job EXCEPT ![c].step = "max", ![c].attempt = @ + 1]
          /\ toast' = None /\ UNCHANGED revisions
     ELSE Failed(c) /\ UNCHANGED revisions
  /\ UNCHANGED <<rows, store, pending, seen, open, edits, jobs>>

-----------------------------------------------------------------------------
Init ==
  /\ rows = [e \in Entities |-> IF e = Wf THEN Copy(1, 0, TRUE) ELSE NoCopy]
  /\ store = [c \in Clients |-> rows]
  /\ pending = [c \in Clients |-> [e \in Entities |-> None]]
  /\ seen = [c \in Clients |-> {0}]
  /\ revisions = {} /\ open = {} /\ job = [c \in Clients |-> None]
  /\ toast = None /\ edits = 0 /\ jobs = 0

JobStep(c) ==
  \/ Flush(c) \/ RestoreWorkflowRevision(c) \/ CheckpointWorkflow(c)
  \/ ReadMax(c) \/ InsertRevision(c) \/ Answer(c)

Next ==
  \E c \in Clients :
     \/ \E e \in Entities : Edit(c, e)
     \/ \E s \in Scenarios : CreateScenario(c, s) \/ DeleteScenario(c, s)
     \/ BackgroundFlush(c) \/ Reload(c) \/ OpenDialog(c) \/ CloseDialog(c)
     \/ SaveVersion(c) \/ Restore(c) \/ JobStep(c) \/ RequestLost(c)

Spec == Init /\ [][Next]_vars

\* A request is answered or given up; the handler's steps follow each other.
FairSpec == Spec /\ \A c \in Clients : WF_vars(JobStep(c))

-----------------------------------------------------------------------------
(* Properties *)

\* Types: copies, queued changes, and handlers that are at one of their steps.
VersionsTypeOK ==
  /\ \A e \in Entities : rows[e].version \in Nat /\ rows[e].live \in BOOLEAN
  /\ \A c \in Clients : \A e \in Entities :
       pending[c][e] # None => pending[c][e].version > 0
  /\ open \subseteq Clients /\ edits \in 0..MaxEdits
  /\ \A c \in Clients : job[c] # None =>
       /\ job[c].step \in {"flush", "restore", "checkpoint", "max", "insert", "answer"}
       /\ job[c].attempt < MaxAttempts

\* Revisions are numbered 1, 2, ... without gaps or duplicates, whichever
\* savers allocate numbers at the same time (CreateWorkflowRevision).
NumbersDense == Numbers = 1..Cardinality(revisions)

\* A revision, once stored, is neither changed nor removed.
RevisionsImmutable == [][revisions \subseteq revisions']_vars

\* A restore brings the workflow and all its scenarios to what the revision
\* has, in one step: changed, deleted and later ones alike.
RestoreTakesAll ==
  [][\A c \in DOMAIN job :
       At(c, "restore") /\ job'[c] # None /\ job'[c].step = "checkpoint"
         => Contents(rows') = job[c].of.snapshot]_vars

\* The buttons of the dialog come back: its handler ends.
DialogNotStuck == \A c \in Clients : job[c] # None ~> job[c] = None

\* "saved" is said in this step, of a version with what was on the screen
\* when the button was pressed
SaysSaved(c) == toast' # None /\ toast' # toast /\ toast'.client = c /\ toast'.text = "saved"

HasShown(c) == \E r \in revisions : r.number = toast'.number /\ r.snapshot = job[c].shown

\* Told "saved", the user has a version of what was on the screen when the
\* button was pressed ("Save current version").
SavedIsShown == [][\A c \in Clients : SaysSaved(c) => HasShown(c)]_vars

\* Told that a version is restored, the user sees that version.
RestoredIsShown ==
  toast # None /\ toast.text = "restored" =>
    \E r \in revisions : r.number = toast.number /\ r.snapshot = Contents(store[toast.client])

\* A restore never replaces or deletes work that the restoring browser has not
\* even shown (the expected-version guard).
NewerWorkKept ==
  [][\A c \in Clients :
       At(c, "restore") =>
         \A e \in Entities :
            rows[e].live /\ (~rows'[e].live \/ rows'[e].content # rows[e].content)
              => rows[e].content \in seen[c]]_vars

\* The version that a restore creates has the content of the restored one.
CheckpointIsRestored ==
  \A r, q \in revisions : r.of = q.number => r.snapshot = q.snapshot

\* A later number never stands for an earlier state of the workflow: the list
\* marks the highest number "Latest".
LatestIsNewest ==
  \A q, r \in revisions : q.number < r.number /\ r.of = 0 /\ q.of = 0 =>
                            q.snapshot[Wf] <= r.snapshot[Wf]

\* A restore is complete, and it leaves the history alone: no step changes or removes a
\* revision, so that a restore can itself be undone.
RestoreIsSafe == RevisionsImmutable /\ RestoreTakesAll
=============================================================================
