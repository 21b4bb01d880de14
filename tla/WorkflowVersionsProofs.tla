----------------------- MODULE WorkflowVersionsProofs -----------------------
(***************************************************************************)
(* Theorems about the saved versions of WorkflowVersions, for any number   *)
(* of clients and scenarios and any number of edits, attempts and lost     *)
(* requests.                                                               *)
(***************************************************************************)
EXTENDS WorkflowVersions, FiniteSetTheorems, TLAPS

-----------------------------------------------------------------------------
(* The inductive invariant *)

CopyType     == [version : Nat, content : Nat, live : BOOLEAN]
SnapshotType == UNION {[S -> Nat] : S \in SUBSET Entities}
RevisionType == [number : Nat, snapshot : SnapshotType, of : Nat]
JobType      == [step : {"flush", "restore", "checkpoint", "max", "insert", "answer"},
                 of : RevisionType \cup {None}, expected : Nat, shown : SnapshotType,
                 snapshot : SnapshotType \cup {None}, number : Nat, attempt : Nat]

VersionsInv ==
  /\ rows \in [Entities -> CopyType]
  /\ store \in [Clients -> [Entities -> CopyType]]
  /\ pending \in [Clients -> [Entities -> CopyType \cup {None}]]
  /\ revisions \subseteq RevisionType
  /\ job \in [Clients -> JobType \cup {None}]
  /\ edits \in Nat

\* A handler that restores has a revision to restore; one that inserts a revision has taken its
\* snapshot and chosen a number that is at most one past the highest.
JobInv(c) ==
  job[c] # None =>
    /\ job[c].step = "restore" => job[c].of # None
    /\ job[c].step \in {"max", "insert"} => job[c].snapshot \in SnapshotType
    /\ job[c].step = "insert" => job[c].number \in 1..Cardinality(revisions) + 1

NumberingInv ==
  /\ VersionsInv
  /\ IsFiniteSet(revisions) /\ Numbers = 1..Cardinality(revisions)
  /\ \A c \in Clients : JobInv(c)

-----------------------------------------------------------------------------
(* What the steps have in common *)

\* What is live in well-typed copies is a snapshot.
LEMMA ContentsType ==
  ASSUME NEW copies \in [Entities -> CopyType]
  PROVE  Contents(copies) \in SnapshotType
  <1> DEFINE S == {x \in Entities : copies[x].live}
  <1>1. S \in SUBSET Entities /\ Contents(copies) \in [S -> Nat]
    BY DEF Contents, CopyType
  <1> QED BY <1>1 DEF SnapshotType

LEMMA CopyTyped ==
  \A v, k \in Nat, l \in BOOLEAN : Copy(v, k, l) \in CopyType
  BY DEF Copy, CopyType

\* Sending what is queued keeps the types.
LEMMA SentType ==
  ASSUME VersionsInv, NEW c \in Clients, Sent(c)
  PROVE  /\ rows' \in [Entities -> CopyType]
         /\ pending' \in [Clients -> [Entities -> CopyType \cup {None}]]
  <1>1. ASSUME NEW row \in CopyType, NEW copy \in CopyType
        PROVE  Applied(row, copy) \in CopyType
    <2>1. Copy(1, copy.content, TRUE) \in CopyType
      BY CopyTyped DEF CopyType
    <2> QED BY <2>1 DEF Applied
  <1>2. AppliedAll(c) \in [Entities -> CopyType]
    BY <1>1 DEF AppliedAll, VersionsInv
  <1> QED BY <1>2 DEF Sent, VersionsInv

\* The rows of a restored revision: live exactly where the revision has a content, with it.
LEMMA RestoredRowsSummary ==
  ASSUME VersionsInv, NEW r \in RevisionType
  PROVE  /\ RestoredRows(r) \in [Entities -> CopyType]
         /\ Contents(RestoredRows(r)) = r.snapshot
  <1> DEFINE new == RestoredRows(r)
  <1>1. PICK S \in SUBSET Entities : r.snapshot \in [S -> Nat]
    BY DEF RevisionType, SnapshotType
  <1>2. ASSUME NEW e \in S
        PROVE  new[e] \in CopyType /\ new[e].live /\ new[e].content = r.snapshot[e]
    <2>1. (IF rows[e].live THEN rows[e].version + 1 ELSE 1) \in Nat /\ r.snapshot[e] \in Nat
      BY <1>1 DEF VersionsInv, CopyType
    <2>2. new[e] = Copy(IF rows[e].live THEN rows[e].version + 1 ELSE 1, r.snapshot[e], TRUE)
      BY <1>1 DEF RestoredRows
    <2> HIDE DEF new
    <2> QED BY <2>1, <2>2 DEF Copy, CopyType
  <1>3. ASSUME NEW e \in Entities \ S
        PROVE  new[e] \in CopyType /\ ~new[e].live
    <2>1. new[e] = IF rows[e].live THEN [rows[e] EXCEPT !.live = FALSE, !.version = @ + 1]
                   ELSE rows[e]
      BY <1>1 DEF RestoredRows
    <2>2. rows[e] \in CopyType
      BY DEF VersionsInv
    <2> HIDE DEF new
    <2>3. CASE rows[e].live
      <3>1. rows[e].version + 1 \in Nat
        BY <2>2 DEF CopyType
      <3>2. new[e] = [rows[e] EXCEPT !.live = FALSE, !.version = rows[e].version + 1]
        BY <2>1, <2>3
      <3> QED BY <2>2, <3>1, <3>2 DEF CopyType
    <2> QED BY <2>1, <2>2, <2>3
  <1>4. new \in [Entities -> CopyType]
    <2>1. \A e \in Entities : new[e] \in CopyType
      BY <1>2, <1>3
    <2> QED BY <2>1 DEF RestoredRows
  <1>5. {x \in Entities : new[x].live} = S
    BY <1>2, <1>3
  <1>6. Contents(new) = [e \in S |-> new[e].content]
    BY <1>5 DEF Contents
  <1> HIDE DEF new
  <1>7. Contents(new) = r.snapshot
    BY <1>1, <1>2, <1>6
  <1> QED BY <1>4, <1>7 DEF new

\* MAX(revision_number), when the numbers have no gaps.
LEMMA HighestNumber ==
  ASSUME IsFiniteSet(revisions), Numbers = 1..Cardinality(revisions)
  PROVE  Cardinality(revisions) \in Nat /\ Max(Numbers \cup {0}) = Cardinality(revisions)
  <1>1. PICK n \in Nat : n = Cardinality(revisions)
    BY FS_CardinalityType
  <1>2. Numbers \cup {0} = 0..n
    BY <1>1
  <1>3. \A x \in 0..n : (\A y \in 0..n : x >= y) <=> x = n
    OBVIOUS
  <1>4. n \in 0..n
    OBVIOUS
  <1>5. (CHOOSE x \in 0..n : \A y \in 0..n : x >= y) = n
    BY <1>3, <1>4
  <1> QED BY <1>1, <1>2, <1>5 DEF Max

\* The revision that a handler stores.
NewRevision(c) ==
  [number |-> job[c].number, snapshot |-> job[c].snapshot,
   of |-> IF job[c].of = None THEN 0 ELSE job[c].of.number]

\* Every step keeps the types, and changes at most one handler.
LEMMA VersionsTypeStep ==
  ASSUME NumberingInv, [Next]_vars
  PROVE  VersionsInv'
  <1> USE DEF VersionsInv
  <1>0. VersionsInv /\ \A c \in Clients : JobInv(c)
    BY DEF NumberingInv
  <1>1. ASSUME NEW c \in Clients, NEW e \in Entities, NEW copy \in CopyType, Change(c, e, copy)
        PROVE  VersionsInv'
    BY <1>0, <1>1 DEF Change
  <1>2. ASSUME NEW c \in Clients, NEW e \in Entities,
               Edit(c, e) \/ CreateScenario(c, e) \/ DeleteScenario(c, e)
        PROVE  VersionsInv'
    <2>1. store[c][e].version + 1 \in Nat /\ edits + 1 \in Nat
      BY <1>0 DEF CopyType
    <2>2. /\ Copy(store[c][e].version + 1, edits + 1, TRUE) \in CopyType
          /\ Copy(store[c][e].version + 1, edits + 1, FALSE) \in CopyType
          /\ Copy(1, edits + 1, TRUE) \in CopyType
      BY <2>1, CopyTyped
    <2> QED BY <1>1, <1>2, <2>2 DEF Edit, CreateScenario, DeleteScenario
  <1>3. ASSUME NEW c \in Clients, BackgroundFlush(c)
        PROVE  VersionsInv'
    BY <1>0, <1>3, SentType DEF BackgroundFlush
  <1>4. ASSUME NEW c \in Clients, NEW force \in BOOLEAN, Shows(c, Hydrated(c, force))
        PROVE  store' \in [Clients -> [Entities -> CopyType]]
    <2>1. Hydrated(c, force) \in [Entities -> CopyType]
      BY <1>0 DEF Hydrated
    <2> QED BY <1>0, <1>4, <2>1 DEF Shows
  <1>5. ASSUME NEW c \in Clients, Reload(c) \/ OpenDialog(c) \/ CloseDialog(c)
        PROVE  VersionsInv'
    BY <1>0, <1>4, <1>5 DEF Reload, OpenDialog, CloseDialog
  <1>6. ASSUME NEW c \in Clients, NEW of \in RevisionType \cup {None}, StartJob(c, of)
        PROVE  VersionsInv'
    <2>1. store[c] \in [Entities -> CopyType] /\ store[c][Wf].version \in Nat
      BY <1>0 DEF CopyType, Entities
    <2>2. [step |-> "flush", of |-> of, expected |-> store[c][Wf].version,
           shown |-> Contents(store[c]), snapshot |-> None, number |-> 0, attempt |-> 0] \in JobType
      BY <2>1, ContentsType DEF JobType
    <2> QED BY <1>0, <1>6, <2>2 DEF StartJob
  <1>7. ASSUME NEW c \in Clients, SaveVersion(c) \/ Restore(c)
        PROVE  VersionsInv'
    BY <1>0, <1>6, <1>7 DEF SaveVersion, Restore
  \* The fields of a handler that its steps change.
  <1>8. ASSUME NEW c \in Clients, job[c] # None
        PROVE  /\ job[c] \in JobType
               /\ \A st \in {"flush", "restore", "checkpoint", "max", "insert", "answer"} :
                     [job[c] EXCEPT !.step = st] \in JobType
    <2>1. job[c] \in JobType
      BY <1>0, <1>8
    <2> QED BY <2>1 DEF JobType
  <1>9. ASSUME NEW c \in Clients, NEW new \in JobType \cup {None}, job' = [job EXCEPT ![c] = new]
        PROVE  job' \in [Clients -> JobType \cup {None}]
    BY <1>0, <1>9
  <1>10. ASSUME NEW c \in Clients, Failed(c)
         PROVE  job' \in [Clients -> JobType \cup {None}]
    BY <1>9, <1>10 DEF Failed
  <1>11. ASSUME NEW c \in Clients, NEW st \in {"checkpoint", "restore", "answer"}, GoTo(c, st),
                job[c] # None
         PROVE  job' \in [Clients -> JobType \cup {None}]
    <2>1. job' = [job EXCEPT ![c] = [job[c] EXCEPT !.step = st]]
      BY <1>11 DEF GoTo
    <2> QED BY <1>8, <1>9, <1>11, <2>1
  <1>12. ASSUME NEW c \in Clients, Flush(c)
         PROVE  VersionsInv'
    BY <1>0, <1>11, <1>12, SentType DEF Flush, At
  <1>13. ASSUME NEW c \in Clients, RestoreWorkflowRevision(c)
         PROVE  VersionsInv'
    <2>1. CASE Failed(c) /\ UNCHANGED rows
      BY <1>0, <1>10, <1>13, <2>1 DEF RestoreWorkflowRevision
    <2>2. CASE ~(Failed(c) /\ UNCHANGED rows)
      <3>1. rows' = RestoredRows(job[c].of) /\ GoTo(c, "checkpoint") /\ job[c] # None
        BY <1>13, <2>2 DEF RestoreWorkflowRevision, At
      <3>2. RestoredRows(job[c].of) \in [Entities -> CopyType]
        <4>1. job[c].of \in RevisionType
          BY <1>0, <1>8, <1>13, <3>1 DEF JobType, JobInv, RestoreWorkflowRevision, At
        <4> QED BY <1>0, <4>1, RestoredRowsSummary
      <3> QED BY <1>0, <1>11, <1>13, <3>1, <3>2 DEF RestoreWorkflowRevision
    <2> QED BY <2>1, <2>2
  <1>14. ASSUME NEW c \in Clients, CheckpointWorkflow(c)
         PROVE  VersionsInv'
    <2>1. CASE ~Failed(c)
      <3>1. PICK s \in SnapshotType : s = Contents(rows)
        BY <1>0, ContentsType
      <3>2. job[c] # None /\ job' = [job EXCEPT ![c] = [job[c] EXCEPT !.step = "max", !.snapshot = s]]
        BY <1>14, <2>1, <3>1 DEF CheckpointWorkflow, At
      <3>3. [job[c] EXCEPT !.step = "max", !.snapshot = s] \in JobType
        <4>1. job[c] \in JobType
          BY <1>8, <3>2
        <4> QED BY <4>1 DEF JobType
      <3> QED BY <1>0, <1>9, <1>14, <3>2, <3>3 DEF CheckpointWorkflow
    <2> QED BY <1>0, <1>10, <1>14, <2>1 DEF CheckpointWorkflow
  <1>15. ASSUME NEW c \in Clients, ReadMax(c)
         PROVE  VersionsInv'
    <2>1. PICK n \in Nat : n = Max(Numbers \cup {0}) + 1
      BY HighestNumber DEF NumberingInv
    <2>2. job[c] # None /\ job' = [job EXCEPT ![c] = [job[c] EXCEPT !.step = "insert", !.number = n]]
      BY <1>15, <2>1 DEF ReadMax, At
    <2>3. [job[c] EXCEPT !.step = "insert", !.number = n] \in JobType
      <3>1. job[c] \in JobType
        BY <1>8, <2>2
      <3> QED BY <3>1 DEF JobType
    <2> QED BY <1>0, <1>9, <1>15, <2>2, <2>3 DEF ReadMax
  <1>16. ASSUME NEW c \in Clients, InsertRevision(c)
         PROVE  VersionsInv'
    <2>1. job[c] \in JobType /\ job[c] # None /\ job[c].snapshot \in SnapshotType
      BY <1>0, <1>8, <1>16 DEF InsertRevision, At, JobInv
    <2>2. CASE job[c].number \notin Numbers
      <3>1. NewRevision(c) \in RevisionType
        <4>1. (IF job[c].of = None THEN 0 ELSE job[c].of.number) \in Nat
          BY <2>1 DEF JobType, RevisionType
        <4> QED BY <2>1, <4>1 DEF NewRevision, RevisionType, JobType
      <3>2. revisions' = revisions \cup {NewRevision(c)} /\ GoTo(c, "answer")
        BY <1>16, <2>2 DEF InsertRevision, NewRevision
      <3> QED BY <1>0, <1>11, <1>16, <2>1, <3>1, <3>2 DEF InsertRevision
    <2>3. CASE job[c].number \in Numbers /\ job[c].attempt + 1 < MaxAttempts
      <3>1. job' = [job EXCEPT ![c] = [job[c] EXCEPT !.step = "max", !.attempt = job[c].attempt + 1]]
        BY <1>16, <2>3 DEF InsertRevision
      <3>2. job[c].attempt + 1 \in Nat
        BY <2>1 DEF JobType
      <3>3. [job[c] EXCEPT !.step = "max", !.attempt = job[c].attempt + 1] \in JobType
        BY <2>1, <3>2 DEF JobType
      <3> QED BY <1>0, <1>9, <1>16, <2>3, <3>1, <3>3 DEF InsertRevision
    <2>4. CASE job[c].number \in Numbers /\ ~(job[c].attempt + 1 < MaxAttempts)
      BY <1>0, <1>10, <1>16, <2>4 DEF InsertRevision
    <2> QED BY <2>2, <2>3, <2>4
  <1>17. ASSUME NEW c \in Clients, RequestLost(c)
         PROVE  VersionsInv'
    BY <1>0, <1>10, <1>17 DEF RequestLost
  <1>18. ASSUME NEW c \in Clients, Answer(c)
         PROVE  VersionsInv'
    <2>1. job' \in [Clients -> JobType \cup {None}]
      BY <1>9, <1>18 DEF Answer
    <2>2. store' \in [Clients -> [Entities -> CopyType]]
      BY <1>0, <1>4, <1>18 DEF Answer
    <2> QED BY <1>0, <1>18, <2>1, <2>2 DEF Answer
  <1>19. CASE UNCHANGED vars
    BY <1>0, <1>19 DEF vars
  <1>20. CASE Next
    BY <1>2, <1>3, <1>5, <1>7, <1>12, <1>13, <1>14, <1>15, <1>16, <1>17, <1>18, <1>20
       DEF Next, JobStep, Entities
  <1> QED BY <1>19, <1>20

-----------------------------------------------------------------------------
(* Numbering *)

\* A step that stores no revision keeps the numbering, if the handler it moves is in order.
LEMMA HandlerFrame ==
  ASSUME NumberingInv, VersionsInv', UNCHANGED revisions, NEW c \in Clients,
         NEW new, job' = [job EXCEPT ![c] = new],
         new # None =>
           /\ new.step = "restore" => new.of # None
           /\ new.step \in {"max", "insert"} => new.snapshot \in SnapshotType
           /\ new.step = "insert" => new.number \in 1..Cardinality(revisions) + 1
  PROVE  NumberingInv'
  <1>1. job'[c] = new /\ \A d \in Clients \ {c} : job'[d] = job[d]
    BY DEF NumberingInv, VersionsInv
  <1>2. \A d \in Clients : JobInv(d)'
    BY <1>1 DEF NumberingInv, JobInv
  <1> QED BY <1>2 DEF NumberingInv, Numbers

LEMMA NumberingStep ==
  ASSUME NumberingInv, [Next]_vars
  PROVE  NumberingInv'
  <1>1. VersionsInv /\ VersionsInv' /\ \A c \in Clients : JobInv(c)
    BY VersionsTypeStep DEF NumberingInv
  <1>2. ASSUME UNCHANGED <<revisions, job>>
        PROVE  NumberingInv'
    BY <1>1, <1>2 DEF NumberingInv, JobInv, Numbers
  <1>3. ASSUME NEW c \in Clients, Failed(c), UNCHANGED revisions
        PROVE  NumberingInv'
    BY <1>1, <1>3, HandlerFrame DEF Failed
  <1>4. ASSUME NEW c \in Clients, job[c] # None
        PROVE  job[c] \in JobType
    BY <1>1, <1>4 DEF VersionsInv
  <1>5. ASSUME NEW c \in Clients, NEW e \in Entities,
               Edit(c, e) \/ CreateScenario(c, e) \/ DeleteScenario(c, e)
        PROVE  NumberingInv'
    BY <1>2, <1>5 DEF Edit, CreateScenario, DeleteScenario, Change
  <1>6. ASSUME NEW c \in Clients,
               BackgroundFlush(c) \/ Reload(c) \/ OpenDialog(c) \/ CloseDialog(c)
        PROVE  NumberingInv'
    BY <1>2, <1>6 DEF BackgroundFlush, Reload, OpenDialog, CloseDialog
  <1>7. ASSUME NEW c \in Clients, SaveVersion(c) \/ Restore(c)
        PROVE  NumberingInv'
    <2>1. PICK of : StartJob(c, of)
      BY <1>7 DEF SaveVersion, Restore
    <2> DEFINE new == [step |-> "flush", of |-> of, expected |-> store[c][Wf].version,
                       shown |-> Contents(store[c]), snapshot |-> None, number |-> 0, attempt |-> 0]
    <2>2. job' = [job EXCEPT ![c] = new] /\ UNCHANGED revisions /\ new.step = "flush"
      BY <2>1 DEF StartJob
    <2> HIDE DEF new
    <2> QED BY <1>1, <2>2, HandlerFrame
  <1>8. ASSUME NEW c \in Clients, Flush(c)
        PROVE  NumberingInv'
    <2>1. job[c] \in JobType
      BY <1>4, <1>8 DEF Flush, At
    <2>2. PICK new : /\ job' = [job EXCEPT ![c] = new]
                     /\ new = [job[c] EXCEPT !.step = IF job[c].of = None THEN "checkpoint" ELSE "restore"]
      BY <1>8 DEF Flush, GoTo
    <2>3. new.step \in {"checkpoint", "restore"} /\ (new.step = "restore" => new.of # None)
      BY <2>1, <2>2 DEF JobType
    <2> QED BY <1>1, <1>8, <2>2, <2>3, HandlerFrame DEF Flush
  <1>9. ASSUME NEW c \in Clients, RestoreWorkflowRevision(c)
        PROVE  NumberingInv'
    <2>1. CASE ~Failed(c)
      <3>1. job[c] \in JobType
        BY <1>4, <1>9 DEF RestoreWorkflowRevision, At
      <3>2. PICK new : job' = [job EXCEPT ![c] = new] /\ new = [job[c] EXCEPT !.step = "checkpoint"]
        BY <1>9, <2>1 DEF RestoreWorkflowRevision, GoTo
      <3>3. new.step = "checkpoint"
        BY <3>1, <3>2 DEF JobType
      <3> QED BY <1>1, <1>9, <3>2, <3>3, HandlerFrame DEF RestoreWorkflowRevision
    <2> QED BY <1>3, <1>9, <2>1 DEF RestoreWorkflowRevision
  <1>10. ASSUME NEW c \in Clients, CheckpointWorkflow(c)
         PROVE  NumberingInv'
    <2>1. CASE ~Failed(c)
      <3>1. job[c] \in JobType
        BY <1>4, <1>10 DEF CheckpointWorkflow, At
      <3>2. PICK new : /\ job' = [job EXCEPT ![c] = new]
                       /\ new = [job[c] EXCEPT !.step = "max", !.snapshot = Contents(rows)]
        BY <1>10, <2>1 DEF CheckpointWorkflow
      <3>3. new.step = "max" /\ new.snapshot \in SnapshotType
        BY <1>1, <3>1, <3>2, ContentsType DEF JobType, VersionsInv
      <3> QED BY <1>1, <1>10, <3>2, <3>3, HandlerFrame DEF CheckpointWorkflow
    <2> QED BY <1>3, <1>10, <2>1 DEF CheckpointWorkflow
  \* The number is read and used in different transactions: it is at most one too high.
  <1>11. ASSUME NEW c \in Clients, ReadMax(c)
         PROVE  NumberingInv'
    <2>1. job[c] \in JobType /\ job[c].snapshot \in SnapshotType
      BY <1>1, <1>4, <1>11 DEF ReadMax, At, JobInv
    <2>2. Cardinality(revisions) \in Nat /\ Max(Numbers \cup {0}) = Cardinality(revisions)
      BY HighestNumber DEF NumberingInv
    <2>3. PICK n \in Nat : n = Max(Numbers \cup {0}) + 1
      BY <2>2
    <2>4. n \in 1..Cardinality(revisions) + 1
      BY <2>2, <2>3
    <2>5. PICK new : /\ job' = [job EXCEPT ![c] = new]
                     /\ new = [job[c] EXCEPT !.step = "insert", !.number = n]
      BY <1>11, <2>3 DEF ReadMax
    <2>6. new.step = "insert" /\ new.number = n /\ new.snapshot = job[c].snapshot
      BY <2>1, <2>5 DEF JobType
    <2> QED BY <1>1, <1>11, <2>1, <2>4, <2>5, <2>6, HandlerFrame DEF ReadMax
  <1>12. ASSUME NEW c \in Clients, InsertRevision(c), job[c].number \in Numbers
         PROVE  NumberingInv'
    <2>1. CASE ~Failed(c)
      <3>1. job[c] \in JobType /\ job[c].snapshot \in SnapshotType
        BY <1>1, <1>4, <1>12 DEF InsertRevision, At, JobInv
      <3>2. PICK new : /\ job' = [job EXCEPT ![c] = new]
                       /\ new = [job[c] EXCEPT !.step = "max", !.attempt = @ + 1]
        BY <1>12, <2>1 DEF InsertRevision
      <3>3. new.step = "max" /\ new.snapshot = job[c].snapshot
        BY <3>1, <3>2 DEF JobType
      <3> QED BY <1>1, <1>12, <2>1, <3>1, <3>2, <3>3, HandlerFrame DEF InsertRevision
    <2> QED BY <1>3, <1>12, <2>1 DEF InsertRevision
  \* A number that is free can only be the next one.
  <1>13. ASSUME NEW c \in Clients, InsertRevision(c), job[c].number \notin Numbers
         PROVE  NumberingInv'
    <2>1. /\ job[c] # None /\ job[c] \in JobType
          /\ job[c].number \in 1..Cardinality(revisions) + 1
      BY <1>1, <1>4, <1>13 DEF InsertRevision, At, JobInv
    <2>2. PICK n \in Nat : n = Cardinality(revisions)
      BY HighestNumber DEF NumberingInv
    <2>3. Numbers = 1..n /\ IsFiniteSet(revisions)
      BY <2>2 DEF NumberingInv
    <2>4. job[c].number = n + 1
      BY <1>13, <2>1, <2>2, <2>3
    <2>5. revisions' = revisions \cup {NewRevision(c)} /\ NewRevision(c).number = n + 1
      BY <1>13, <2>4 DEF InsertRevision, NewRevision
    <2>6. Numbers' = Numbers \cup {n + 1}
      BY <2>5 DEF Numbers
    <2>7. NewRevision(c) \notin revisions
      BY <2>3, <2>5 DEF Numbers
    <2>8. IsFiniteSet(revisions') /\ Cardinality(revisions') = n + 1
      BY <2>2, <2>3, <2>5, <2>7, FS_AddElement
    <2>9. Numbers' = 1..Cardinality(revisions')
      <3>1. (1..n) \cup {n + 1} = 1..(n + 1)
        OBVIOUS
      <3> QED BY <2>3, <2>6, <2>8, <3>1
    <2>10. PICK new : job' = [job EXCEPT ![c] = new] /\ new = [job[c] EXCEPT !.step = "answer"]
      BY <1>13 DEF InsertRevision, GoTo
    <2>11. new.step = "answer" /\ job'[c] = new /\ \A d \in Clients \ {c} : job'[d] = job[d]
      BY <1>1, <2>1, <2>10 DEF JobType, VersionsInv
    <2>12. \A k : k \in 1..n + 1 => k \in 1..(n + 1) + 1
      OBVIOUS
    <2>13. \A d \in Clients : JobInv(d)'
      BY <1>1, <2>2, <2>8, <2>11, <2>12 DEF JobInv
    <2> QED BY <1>1, <2>8, <2>9, <2>13 DEF NumberingInv
  <1>14. ASSUME NEW c \in Clients, RequestLost(c)
         PROVE  NumberingInv'
    BY <1>3, <1>14 DEF RequestLost
  <1>15. ASSUME NEW c \in Clients, Answer(c)
         PROVE  NumberingInv'
    BY <1>1, <1>15, HandlerFrame DEF Answer
  <1>16. CASE UNCHANGED vars
    BY <1>2, <1>16 DEF vars
  <1>17. CASE Next
    BY <1>5, <1>6, <1>7, <1>8, <1>9, <1>10, <1>11, <1>12, <1>13, <1>14, <1>15, <1>17
       DEF Next, JobStep, Entities
  <1> QED BY <1>16, <1>17

LEMMA NumberingInvariant == Spec => []NumberingInv
  <1>1. Init => NumberingInv
    <2> SUFFICES ASSUME Init PROVE NumberingInv
      OBVIOUS
    <2>1. Copy(1, 0, TRUE) \in CopyType /\ NoCopy \in CopyType
      BY CopyTyped DEF NoCopy
    <2>2. VersionsInv
      BY <2>1 DEF Init, VersionsInv
    <2>3. IsFiniteSet(revisions) /\ Numbers = 1..Cardinality(revisions)
      <3>1. revisions = {} /\ Numbers = {}
        BY DEF Init, Numbers
      <3> QED BY <3>1, FS_EmptySet
    <2>4. \A c \in Clients : JobInv(c)
      BY DEF Init, JobInv
    <2> QED BY <2>2, <2>3, <2>4 DEF NumberingInv
  <1> QED BY <1>1, NumberingStep, PTL DEF Spec

\* Revisions are numbered 1, 2, ... without gaps or duplicates, though every saver reads the
\* highest number in one transaction and inserts in another, and some give up.
THEOREM NumbersAreDense == Spec => []NumbersDense
  <1>1. NumberingInv => NumbersDense
    BY DEF NumberingInv, NumbersDense
  <1> QED BY <1>1, NumberingInvariant, PTL

-----------------------------------------------------------------------------
(* Restoring *)

\* A restore is complete and leaves the history alone, whatever other clients do meanwhile.
THEOREM RestoresAreSafe == Spec => RestoreIsSafe
  <1>1. [Next]_vars => revisions \subseteq revisions'
    BY DEF Next, vars, Edit, CreateScenario, DeleteScenario, Change, BackgroundFlush, Reload,
           OpenDialog, CloseDialog, SaveVersion, Restore, StartJob, JobStep, Flush,
           RestoreWorkflowRevision, CheckpointWorkflow, ReadMax, InsertRevision, Answer, RequestLost
  <1>2. ASSUME NumberingInv, [Next]_vars, NEW c \in DOMAIN job,
               At(c, "restore"), job'[c] # None, job'[c].step = "checkpoint"
        PROVE  Contents(rows') = job[c].of.snapshot
    <2>1. /\ VersionsInv /\ c \in Clients /\ job[c] # None /\ job[c].step = "restore"
          /\ job[c] \in JobType /\ job[c].of \in RevisionType
      BY <1>2 DEF NumberingInv, VersionsInv, JobInv, At, JobType
    <2>2. job' # job
      BY <1>2, <2>1
    <2>3. PICK d \in Clients : SaveVersion(d) \/ Restore(d) \/ JobStep(d) \/ RequestLost(d)
      BY <1>2, <2>2 DEF Next, vars, Edit, CreateScenario, DeleteScenario, Change, BackgroundFlush,
                        Reload, OpenDialog, CloseDialog
    <2>4. \A x \in Clients \ {d} : job'[x] = job[x]
      BY <2>1, <2>3 DEF VersionsInv, SaveVersion, Restore, StartJob, JobStep, Flush, GoTo, Failed,
                        RestoreWorkflowRevision, CheckpointWorkflow, ReadMax, InsertRevision,
                        Answer, RequestLost
    <2>5. d = c
      BY <1>2, <2>1, <2>4
    <2>6. RestoreWorkflowRevision(c) /\ ~Failed(c)
      BY <1>2, <2>1, <2>3, <2>5 DEF VersionsInv, SaveVersion, Restore, StartJob, JobStep, At, Flush,
             CheckpointWorkflow, ReadMax, InsertRevision, Answer, RequestLost, Failed
    <2>7. rows' = RestoredRows(job[c].of)
      BY <2>6 DEF RestoreWorkflowRevision
    <2> QED BY <2>1, <2>7, RestoredRowsSummary
  <1>3. Spec => RevisionsImmutable
    BY <1>1, PTL DEF Spec, RevisionsImmutable
  <1>4. ASSUME NumberingInv, [Next]_vars
        PROVE  [\A c \in DOMAIN job :
                  At(c, "restore") /\ job'[c] # None /\ job'[c].step = "checkpoint"
                    => Contents(rows') = job[c].of.snapshot]_vars
    BY <1>2, <1>4
  <1>5. Spec => RestoreTakesAll
    BY <1>4, NumberingInvariant, PTL DEF Spec, RestoreTakesAll
  <1> QED BY <1>3, <1>5, PTL DEF RestoreIsSafe
=============================================================================
