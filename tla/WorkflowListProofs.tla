------------------------- MODULE WorkflowListProofs -------------------------
(***************************************************************************)
(* What the list of workflows tells its user is so, for any number of      *)
(* workflows, any kinds of data and any number of clones at once.          *)
(*                                                                         *)
(* The argument has two parts.  A name that getUniqueWorkflowName gives    *)
(* out is in none of the names it was given: they are at most as many as   *)
(* the workflows, so not all suffixes are taken, and there is a least one  *)
(* that is free.  And the handlers hold on to what is still true when they *)
(* go on: ListInv says, for the user who waits, that one handler is under  *)
(* way at most, that the workflow it made is still there and that the      *)
(* names an import was rendered with hold all that there are.              *)
(***************************************************************************)
EXTENDS WorkflowList, FiniteSetTheorems, SequenceTheorems, WellFoundedInduction, TLAPS

-----------------------------------------------------------------------------
(* Unique names *)

\* Some positions of a sequence have a least one.
LEMMA LeastPosition ==
  ASSUME NEW n \in Nat, NEW S \in SUBSET (1 .. n), S # {}
  PROVE  \E i \in S : \A j \in S : i <= j
<1> DEFINE T == {1 .. i : i \in S}
<1>1. IsFiniteSet(1 .. n)
  BY FS_Interval
<1>2. T \subseteq FiniteSubsetsOf(1 .. n) /\ T # {}
  <2>1. ASSUME NEW i \in S PROVE 1 .. i \in SUBSET (1 .. n)
    OBVIOUS
  <2>2. ASSUME NEW t \in T PROVE IsFiniteSet(t) /\ t \in SUBSET (1 .. n)
    BY <1>1, <2>1, FS_Subset
  <2> QED
    BY <2>2 DEF FiniteSubsetsOf
<1>3. IsWellFoundedOn(StrictSubsetOrdering(1 .. n), FiniteSubsetsOf(1 .. n))
  BY <1>1, FS_StrictSubsetOrderingWellFounded
<1>4. \E t \in T : \A u \in T : ~(<<u, t>> \in StrictSubsetOrdering(1 .. n))
  <2> HIDE DEF T
  <2> QED
    BY <1>2, <1>3, WFMin
<1>5. PICK i \in S : \A j \in S : ~(<<1 .. j, 1 .. i>> \in StrictSubsetOrdering(1 .. n))
  BY <1>4
<1>6. ASSUME NEW j \in S PROVE i <= j
  <2>1. SUFFICES ASSUME j < i PROVE FALSE
    OBVIOUS
  <2>2. 1 .. j \subseteq 1 .. i /\ i \in 1 .. i /\ i \notin 1 .. j
    BY <2>1
  <2>3. 1 .. i \in SUBSET (1 .. n) /\ 1 .. j \in SUBSET (1 .. n)
    OBVIOUS
  <2> QED
    BY <1>5, <2>2, <2>3 DEF StrictSubsetOrdering
<1> QED
  BY <1>6

\* One word more makes another name, and different words make different names.
LEMMA LongerName ==
  ASSUME NEW base \in Seq(Words), NEW a \in Words, NEW b \in Words
  PROVE  /\ Append(base, a) \in Seq(Words)
         /\ Append(base, a) # base
         /\ Append(base, a) = Append(base, b) => a = b
<1>1. /\ Append(base, a) \in Seq(Words) /\ Len(Append(base, a)) = Len(base) + 1
      /\ Len(base) \in Nat
  BY AppendProperties
<1>2. Append(base, a) # base
  BY <1>1
<1>3. Append(base, a) = Append(base, b) => a = b
  BY AppendInjective
<1> QED
  BY <1>1, <1>2, <1>3

\* A suffix is free when no more names are taken than there are workflows.
LEMMA SuffixLeft ==
  ASSUME NEW base \in Seq(Words), NEW existing, base \in existing,
         IsFiniteSet(existing), Cardinality(existing) <= Cardinality(Ids)
  PROVE  \E i \in DOMAIN NameSuffixes : Append(base, NameSuffixes[i]) \notin existing
<1> DEFINE others == existing \ {base}
           n == Len(NameSuffixes)
           named == [i \in 1 .. n |-> Append(base, NameSuffixes[i])]
<1>1. n \in Nat /\ DOMAIN NameSuffixes = 1 .. n /\ \A i \in 1 .. n : NameSuffixes[i] \in Words
  BY WorkflowListAssumption
<1>2. IsFiniteSet(others) /\ Cardinality(others) = Cardinality(existing) - 1
  BY FS_RemoveElement
<1>3. /\ Cardinality(existing) \in Nat /\ Cardinality(Ids) \in Nat /\ Cardinality(others) \in Nat
      /\ n >= Cardinality(Ids)
  BY <1>2, FS_CardinalityType, WorkflowListAssumption
<1>4. IsFiniteSet(1 .. n) /\ Cardinality(1 .. n) = n
  <2>1. /\ IsFiniteSet(1 .. n)
        /\ Cardinality(1 .. n) = IF 1 > n THEN 0 ELSE n - 1 + 1
    <3>1. 1 \in Int /\ n \in Int
      BY <1>1
    <3> HIDE DEF n
    <3> QED
      BY <3>1, FS_Interval
  <2> QED
    BY <1>1, <2>1
<1>5. SUFFICES ASSUME \A i \in 1 .. n : Append(base, NameSuffixes[i]) \in existing
               PROVE  FALSE
  BY <1>1
<1>6. named \in [1 .. n -> others]
  BY <1>1, <1>5, LongerName
<1>7. ASSUME NEW i \in 1 .. n, NEW j \in 1 .. n, named[i] = named[j] PROVE i = j
  <2>1. NameSuffixes[i] = NameSuffixes[j]
    BY <1>1, <1>7, LongerName
  <2> QED
    BY <1>1, <2>1, WorkflowListAssumption DEF IsInjective
<1>8. Cardinality(others) < Cardinality(1 .. n)
  BY <1>2, <1>3, <1>4
<1> HIDE DEF named, others
<1>9. \E i, j \in 1 .. n : i # j /\ named[i] = named[j]
  BY <1>2, <1>4, <1>6, <1>8, FS_PigeonHole
<1> QED
  BY <1>7, <1>9

\* getUniqueWorkflowName: a name that is not among the ones it is given.
LEMMA NameIsUnique ==
  ASSUME NEW base \in Seq(Words), NEW existing,
         IsFiniteSet(existing), Cardinality(existing) <= Cardinality(Ids)
  PROVE  /\ GetUniqueWorkflowName(base, existing) \in Seq(Words)
         /\ GetUniqueWorkflowName(base, existing) \notin existing
<1>1. CASE base \notin existing
  BY <1>1 DEF GetUniqueWorkflowName
<1>2. CASE base \in existing
  <2> DEFINE free == {i \in DOMAIN NameSuffixes : Append(base, NameSuffixes[i]) \notin existing}
             first == CHOOSE i \in free : \A j \in free : i <= j
  <2>1. free # {}
    BY <1>2, SuffixLeft
  <2>2. /\ Len(NameSuffixes) \in Nat /\ DOMAIN NameSuffixes = 1 .. Len(NameSuffixes)
        /\ \A i \in DOMAIN NameSuffixes : NameSuffixes[i] \in Words
    BY WorkflowListAssumption
  <2>3. \E i \in free : \A j \in free : i <= j
    BY <2>1, <2>2, LeastPosition
  <2>4. first \in free
    BY <2>3
  <2>5. GetUniqueWorkflowName(base, existing) = Append(base, NameSuffixes[first])
    BY <1>2 DEF GetUniqueWorkflowName
  <2> QED
    BY <2>2, <2>4, <2>5, LongerName
<1> QED
  BY <1>1, <1>2

-----------------------------------------------------------------------------
(* The inductive invariant *)

\* What a handler that waits holds: the workflow it made, and only an import is still
\* without one; it has the names of the list it was rendered with.
Holds(f) ==
  /\ flows[f].wait = "file" =>
       /\ f = "import"
       /\ IsFiniteSet(flows[f].names) /\ Cardinality(flows[f].names) <= Cardinality(Ids)
  /\ flows[f].wait # "file" => flows[f].workflow \in Ids \ Unused

HandlersHold == \A f \in FlowKinds : flows[f] # None => Holds(f)

\* One dialog of the list is open at a time.
OneDialog == ~gallery \/ pendingDelete = None

\* For the user who waits: one handler at a time, none while a deletion is being confirmed,
\* and its workflow and the one of the open builder were not deleted.
OneHandler == \A f, g \in FlowKinds : flows[f] # None /\ flows[g] # None => f = g

DeletesInQuiet == pendingDelete # None => Quiet

OpenIsLive == page \in {"list"} \cup Live

MadeIsLive ==
  \A f \in FlowKinds : flows[f] # None /\ flows[f].wait # "file" => flows[f].workflow \in Live

\* The names an import was rendered with are still all that there are.
NamesCurrent ==
  flows["import"] # None /\ flows["import"].wait = "file" => Names \subseteq flows["import"].names

AloneInv ==
  /\ OneHandler /\ DeletesInQuiet /\ OpenIsLive /\ MadeIsLive /\ NamesCurrent
  /\ DeletedWithData /\ NamesUnique /\ ToldSynced

ListInv ==
  /\ ListTypeOK /\ HandlersHold /\ OneDialog /\ ImportToldSynced
  /\ alone => AloneInv

\* The same workflows have the same names and ids.
LEMMA SameWorkflows ==
  ASSUME workflows' = workflows
  PROVE  Live' = Live /\ Unused' = Unused /\ Names' = Names
BY DEF Live, Unused, Names

\* There are at most as many names as workflows.
LEMMA NamesBound ==
  ASSUME ListTypeOK
  PROVE  /\ IsFiniteSet(Names) /\ Cardinality(Names) <= Cardinality(Ids)
         /\ Names \subseteq Seq(Words)
<1> DEFINE bearer == [n \in Names |-> CHOOSE w \in Live : workflows[w].name = n]
<1>1. \A n \in Names : bearer[n] \in Live /\ workflows[bearer[n]].name = n
  BY DEF Names
<1>2. Live \in SUBSET Ids
  BY DEF Live
<1>3. bearer \in Injection(Names, Live)
  <2>1. bearer \in [Names -> Live]
    BY <1>1
  <2>2. \A m, n \in Names : bearer[m] = bearer[n] => m = n
    BY <1>1
  <2> QED
    BY <2>1, <2>2 DEF Injection, IsInjective
<1>4. IsFiniteSet(Live) /\ Cardinality(Live) <= Cardinality(Ids)
  BY <1>2, FS_Subset, WorkflowListAssumption
<1> HIDE DEF bearer
<1>5. IsFiniteSet(Names) /\ Cardinality(Names) <= Cardinality(Live)
  BY <1>3, <1>4, FS_Injection
<1>6. Cardinality(Names) \in Nat /\ Cardinality(Live) \in Nat /\ Cardinality(Ids) \in Nat
  BY <1>4, <1>5, FS_CardinalityType, WorkflowListAssumption
<1>7. Names \subseteq Seq(Words)
  BY DEF ListTypeOK, Names, Live, Entries
<1> QED
  BY <1>4, <1>5, <1>6, <1>7

\* The list starts empty.
LEMMA InitListInv == Init => ListInv
<1> SUFFICES ASSUME Init PROVE ListInv
  OBVIOUS
<1>1. Live = {} /\ Unused = Ids
  BY DEF Init, Live, Unused
<1>2. ListTypeOK
  BY <1>1 DEF Init, ListTypeOK
<1>3. HandlersHold /\ OneDialog /\ ImportToldSynced
  BY DEF Init, HandlersHold, OneDialog, ImportToldSynced
<1>4. OneHandler /\ DeletesInQuiet /\ OpenIsLive /\ MadeIsLive /\ NamesCurrent
  BY DEF Init, OneHandler, DeletesInQuiet, OpenIsLive, MadeIsLive, NamesCurrent, FlowKinds
<1>5. DeletedWithData /\ NamesUnique /\ ToldSynced
  BY <1>1 DEF Init, DeletedWithData, NamesUnique, ToldSynced
<1> QED
  BY <1>2, <1>3, <1>4, <1>5 DEF ListInv, AloneInv

-----------------------------------------------------------------------------
(* The steps that make no workflow and end no handler *)

\* Dialogs are opened and closed, and the user goes from page to page.
LEMMA PageSteps ==
  ASSUME ListInv, UNCHANGED alone,
         \/ OpenGallery \/ CloseGallery \/ CancelDelete \/ BackToList
         \/ \E w \in Ids : AskDelete(w) \/ OpenWorkflow(w)
  PROVE  ListInv'
<1>1. UNCHANGED <<alone, workflows, data, pending, flows>> /\ toast' = None
  BY DEF OpenGallery, CloseGallery, CancelDelete, BackToList, AskDelete, OpenWorkflow
<1>2. Live' = Live /\ Unused' = Unused /\ Names' = Names /\ Quiet' = Quiet
  BY <1>1, SameWorkflows DEF Quiet
<1>3. page' \in {page, "list"} \cup Live /\ pendingDelete' \in {pendingDelete, None} \cup Live
  BY DEF OpenGallery, CloseGallery, CancelDelete, BackToList, AskDelete, OpenWorkflow
<1>4. Live \subseteq Ids \ Unused
  BY DEF Live, Unused
<1>5. ListTypeOK'
  <2>1. gallery' \in BOOLEAN
    BY DEF ListInv, ListTypeOK, OpenGallery, CloseGallery, CancelDelete, BackToList, AskDelete,
           OpenWorkflow
  <2> QED
    BY <1>1, <1>2, <1>3, <1>4, <2>1 DEF ListInv, ListTypeOK
<1>6. HandlersHold' /\ ImportToldSynced'
  BY <1>1, <1>2 DEF ListInv, HandlersHold, Holds, ImportToldSynced
<1>7. OneDialog'
  BY DEF ListInv, OneDialog, OpenGallery, CloseGallery, CancelDelete, BackToList, AskDelete,
         OpenWorkflow
<1>8. ASSUME alone PROVE AloneInv'
  <2>1. AloneInv
    BY <1>8 DEF ListInv
  <2>2. pendingDelete' # None => pendingDelete' = pendingDelete \/ Quiet
    BY <1>8 DEF OpenGallery, CloseGallery, CancelDelete, BackToList, AskDelete, OpenWorkflow, OnList
  <2>3. DeletesInQuiet'
    BY <1>2, <2>1, <2>2 DEF AloneInv, DeletesInQuiet
  <2>4. OpenIsLive'
    BY <1>2, <1>3, <2>1 DEF AloneInv, OpenIsLive
  <2>5. OneHandler' /\ MadeIsLive' /\ NamesCurrent'
    BY <1>1, <1>2, <2>1 DEF AloneInv, OneHandler, MadeIsLive, NamesCurrent
  <2>6. DeletedWithData' /\ NamesUnique' /\ ToldSynced'
    BY <1>1, <1>2, <2>1 DEF AloneInv, DeletedWithData, NamesUnique, ToldSynced
  <2> QED
    BY <2>3, <2>4, <2>5, <2>6 DEF AloneInv
<1> QED
  BY <1>1, <1>5, <1>6, <1>7, <1>8 DEF ListInv

\* Records are added to a workflow, and what is pending is sent.
LEMMA DataSteps ==
  ASSUME ListInv, UNCHANGED alone,
         WorkInBuilder \/ Synchronise \/ \E w \in Ids : HydrateData(w)
  PROVE  ListInv'
<1>1. UNCHANGED <<alone, workflows, flows, page, gallery, pendingDelete>> /\ toast' = None
  BY DEF WorkInBuilder, Synchronise, HydrateData
<1>2. Live' = Live /\ Unused' = Unused /\ Names' = Names /\ Quiet' = Quiet
  BY <1>1, SameWorkflows DEF Quiet
<1>3. /\ data' \in [Ids -> SUBSET Kinds]
      /\ alone => \A w \in Ids \ {page} : data'[w] = data[w]
      /\ page = "list" /\ alone => data' = data
  BY DEF WorkInBuilder, Synchronise, HydrateData, ListInv, ListTypeOK
<1>4. pending' \subseteq Ids \ Unused
  BY DEF WorkInBuilder, Synchronise, HydrateData, ListInv, ListTypeOK
<1>5. ListTypeOK'
  BY <1>1, <1>2, <1>3, <1>4 DEF ListInv, ListTypeOK
<1>6. HandlersHold' /\ OneDialog' /\ ImportToldSynced'
  BY <1>1, <1>2 DEF ListInv, HandlersHold, Holds, OneDialog, ImportToldSynced
<1>7. ASSUME alone PROVE AloneInv'
  <2>1. AloneInv
    BY <1>7 DEF ListInv
  <2>2. OneHandler' /\ DeletesInQuiet' /\ OpenIsLive' /\ MadeIsLive' /\ NamesCurrent'
    BY <1>1, <1>2, <2>1
       DEF AloneInv, OneHandler, DeletesInQuiet, OpenIsLive, MadeIsLive, NamesCurrent
  <2>3. NamesUnique' /\ ToldSynced'
    BY <1>1, <1>2, <2>1 DEF AloneInv, NamesUnique, ToldSynced
  <2>4. ASSUME NEW w \in Ids, workflows[w] # None, workflows[w].deleted PROVE data'[w] = {}
    <3>1. w # page
      BY <2>1, <2>4, WorkflowListAssumption DEF AloneInv, OpenIsLive, Live
    <3> QED
      BY <1>3, <1>7, <2>1, <2>4, <3>1 DEF AloneInv, DeletedWithData
  <2> QED
    BY <1>1, <2>2, <2>3, <2>4 DEF AloneInv, DeletedWithData
<1> QED
  BY <1>1, <1>5, <1>6, <1>7 DEF ListInv

-----------------------------------------------------------------------------
(* The steps that delete and make workflows *)

\* What is deleted goes with its data, and no handler and no builder is about it.
LEMMA DeleteStep ==
  ASSUME ListInv, UNCHANGED alone, HandleDeleteWorkflow
  PROVE  ListInv'
<1> DEFINE w == pendingDelete
<1>1. w \in Live /\ w \in Ids /\ workflows[w] \in Entries /\ w # None /\ page = "list"
  BY WorkflowListAssumption DEF ListInv, ListTypeOK, HandleDeleteWorkflow, Live
<1>2. PICK gone \in Entries : gone.deleted = TRUE /\ workflows' = [workflows EXCEPT ![w] = gone]
  <2>1. [workflows[w] EXCEPT !.deleted = TRUE] \in Entries
    BY <1>1 DEF Entries
  <2>2. [workflows[w] EXCEPT !.deleted = TRUE].deleted = TRUE
    BY <1>1 DEF Entries
  <2>3. workflows' = [workflows EXCEPT ![w] = [workflows[w] EXCEPT !.deleted = TRUE]]
    BY DEF HandleDeleteWorkflow
  <2> QED
    BY <2>1, <2>2, <2>3
<1>3. /\ data' = [data EXCEPT ![w] = {}] /\ pending' = pending \cup {w}
      /\ pendingDelete' = None /\ UNCHANGED <<flows, page, gallery>>
      /\ toast'.kind = "delete" /\ toast'.text = "deleted"
  BY DEF HandleDeleteWorkflow, Say
<1> HIDE DEF w
<1>4. workflows \in [Ids -> Entries \cup {None}] /\ None \notin Entries
  BY WorkflowListAssumption DEF ListInv, ListTypeOK
<1>5. Live' = Live \ {w} /\ Unused' = Unused
  BY <1>1, <1>2, <1>4 DEF Live, Unused
<1>6. Names' \subseteq Names
  <2>1. \A v \in Live' : workflows'[v] = workflows[v] /\ v \in Live
    BY <1>2, <1>4, <1>5 DEF Live
  <2> QED
    BY <2>1 DEF Names
<1>7. ListTypeOK'
  BY <1>1, <1>2, <1>3, <1>4, <1>5 DEF ListInv, ListTypeOK, Live, Unused
<1>8. HandlersHold' /\ OneDialog' /\ ImportToldSynced'
  BY <1>3, <1>5 DEF ListInv, HandlersHold, Holds, OneDialog, ImportToldSynced
<1>9. ASSUME alone PROVE AloneInv'
  <2>1. AloneInv
    BY <1>9 DEF ListInv
  <2>2. Quiet /\ flows' = flows
    BY <1>1, <1>3, <2>1 DEF AloneInv, DeletesInQuiet, w
  <2>3. \A f \in FlowKinds : flows'[f] = None
    BY <2>2 DEF Quiet
  <2>4. OneHandler' /\ DeletesInQuiet' /\ OpenIsLive' /\ MadeIsLive' /\ NamesCurrent'
    BY <1>1, <1>3, <2>3
       DEF OneHandler, DeletesInQuiet, OpenIsLive, MadeIsLive, NamesCurrent, FlowKinds
  <2>5. DeletedWithData'
    BY <1>1, <1>2, <1>3, <1>4, <2>1 DEF AloneInv, DeletedWithData, ListInv, ListTypeOK
  <2>6. NamesUnique'
    <3>1. \A v \in Live' : workflows'[v] = workflows[v] /\ v \in Live
      BY <1>2, <1>4, <1>5 DEF Live
    <3> QED
      BY <2>1, <3>1 DEF AloneInv, NamesUnique
  <2>7. ToldSynced'
    BY <1>3 DEF ToldSynced
  <2> QED
    BY <2>4, <2>5, <2>6, <2>7 DEF AloneInv
<1> QED
  BY <1>7, <1>8, <1>9 DEF ListInv

\* A handler makes a workflow and waits. With a user who waits no other handler is under
\* way, and the name is a new one or the blank one.
LEMMA MakeStep ==
  ASSUME ListInv, UNCHANGED <<alone, page, gallery, pendingDelete>>, toast' = None,
         NEW f \in FlowKinds, NEW w \in Unused, NEW name \in Seq(Words),
         NEW wait \in {"delay", "flush"}, NEW kinds \in SUBSET Kinds,
         workflows' = [workflows EXCEPT ![w] = [name |-> name, deleted |-> FALSE]],
         data' = [data EXCEPT ![w] = kinds], pending' = pending \cup {w},
         flows' = [flows EXCEPT ![f] = [wait |-> wait, workflow |-> w, names |-> {}]],
         alone => /\ pendingDelete = None
                  /\ \A g \in FlowKinds \ {f} : flows[g] = None
                  /\ name = BlankName \/ name \notin Names
  PROVE  ListInv'
<1>1. PICK entry \in Entries : /\ entry.name = name /\ entry.deleted = FALSE
                              /\ workflows' = [workflows EXCEPT ![w] = entry]
  <2>1. [name |-> name, deleted |-> FALSE] \in Entries
    BY DEF Entries
  <2> QED
    BY <2>1
<1>2. w \in Ids /\ workflows[w] = None
  BY DEF Unused
<1>3. PICK h \in Handlers : /\ h.wait = wait /\ h.workflow = w
                           /\ flows' = [flows EXCEPT ![f] = h]
  <2>1. [wait |-> wait, workflow |-> w, names |-> {}] \in Handlers
    BY <1>2 DEF Handlers
  <2> QED
    BY <2>1
<1>4. /\ workflows \in [Ids -> Entries \cup {None}] /\ None \notin Entries
      /\ flows \in [FlowKinds -> Handlers \cup {None}] /\ None \notin Handlers
  BY WorkflowListAssumption DEF ListInv, ListTypeOK
<1>5. /\ Live' = Live \cup {w} /\ Unused' = Unused \ {w} /\ w \notin Live
      /\ \A v \in Live : workflows'[v] = workflows[v]
      /\ workflows'[w] = entry
  <2>1. /\ workflows'[w] = entry /\ entry # None /\ ~entry.deleted
        /\ \A v \in Ids \ {w} : workflows'[v] = workflows[v]
    BY <1>1, <1>2, <1>4
  <2>2. w \notin Live
    BY <1>2 DEF Live
  <2>3. \A v \in Ids : (v \in Live)' <=> v \in Live \/ v = w
    BY <1>2, <2>1 DEF Live
  <2>4. \A v \in Ids : (v \in Unused)' <=> v \in Unused /\ v # w
    BY <1>2, <2>1 DEF Unused
  <2>5. Live \subseteq Ids /\ Live' \subseteq Ids /\ Unused \subseteq Ids /\ Unused' \subseteq Ids
    BY DEF Live, Unused
  <2>6. Live' = Live \cup {w} /\ Unused' = Unused \ {w}
    BY <1>2, <2>2, <2>3, <2>4, <2>5
  <2> QED
    BY <2>1, <2>2, <2>5, <2>6
<1>6. flows'[f] = h /\ \A g \in FlowKinds \ {f} : flows'[g] = flows[g]
  BY <1>3, <1>4
<1>7. ListTypeOK'
  <2>1. ListTypeOK
    BY DEF ListInv
  <2>2. workflows' \in [Ids -> Entries \cup {None}]
    BY <1>1, <1>2, <1>4
  <2>3. data' \in [Ids -> SUBSET Kinds] /\ flows' \in [FlowKinds -> Handlers \cup {None}]
    <3>1. data \in [Ids -> SUBSET Kinds]
      BY <2>1 DEF ListTypeOK
    <3>2. data' \in [Ids -> SUBSET Kinds]
      BY <1>2, <3>1
    <3>3. flows' \in [FlowKinds -> Handlers \cup {None}]
      BY <1>3, <1>4
    <3> QED
      BY <3>2, <3>3
  <2>4. pending' \subseteq Ids \ Unused'
    BY <1>2, <1>5, <2>1 DEF ListTypeOK
  <2>5. page' \in {"list"} \cup (Ids \ Unused') /\ pendingDelete' \in {None} \cup Live'
    BY <1>2, <1>5, <2>1 DEF ListTypeOK
  <2> QED
    BY <2>1, <2>2, <2>3, <2>4, <2>5 DEF ListTypeOK
<1>8. HandlersHold'
  <2>1. ASSUME NEW g \in FlowKinds, flows'[g] # None PROVE Holds(g)'
    <3>1. CASE g = f
      BY <1>2, <1>3, <1>5, <1>6, <3>1 DEF Holds
    <3>2. CASE g # f
      <4>1. flows'[g] = flows[g] /\ Holds(g)
        BY <1>6, <2>1, <3>2 DEF ListInv, HandlersHold
      <4> QED
        BY <1>2, <1>5, <4>1 DEF Holds, Live, Unused
    <3> QED
      BY <3>1, <3>2
  <2> QED
    BY <2>1 DEF HandlersHold
<1>9. OneDialog' /\ ImportToldSynced'
  BY DEF ListInv, OneDialog, ImportToldSynced
<1>10. ASSUME alone PROVE AloneInv'
  <2>1. AloneInv
    BY <1>10 DEF ListInv
  <2>2. \A g \in FlowKinds : flows'[g] # None => g = f
    BY <1>6, <1>10
  <2>3. OneHandler' /\ MadeIsLive'
    BY <1>3, <1>5, <1>6, <2>2 DEF OneHandler, MadeIsLive
  <2>4. DeletesInQuiet' /\ OpenIsLive'
    BY <1>5, <1>10, <2>1 DEF AloneInv, DeletesInQuiet, OpenIsLive
  <2>5. NamesCurrent'
    BY <1>3, <1>6, <2>2 DEF NamesCurrent, FlowKinds
  <2>6. DeletedWithData'
    BY <1>1, <1>2, <1>4, <2>1 DEF AloneInv, DeletedWithData, ListInv, ListTypeOK
  <2>7. NamesUnique'
    <3>1. \A v \in Live : workflows[v].name \in Names
      BY DEF Names
    <3>2. entry.name = BlankName \/ \A v \in Live : workflows[v].name # entry.name
      BY <1>1, <1>10, <3>1
    <3> QED
      BY <1>5, <2>1, <3>2 DEF AloneInv, NamesUnique
  <2>8. ToldSynced'
    BY DEF ToldSynced
  <2> QED
    BY <2>3, <2>4, <2>5, <2>6, <2>7, <2>8 DEF AloneInv
<1> QED
  BY <1>7, <1>8, <1>9, <1>10 DEF ListInv

\* On the list, a user who waits finds no handler under way.
LEMMA ListIsQuiet ==
  ASSUME OnList, alone
  PROVE  \A f \in FlowKinds : flows[f] = None
BY DEF OnList, Quiet

\* New Workflow.
LEMMA CreateStep ==
  ASSUME ListInv, UNCHANGED alone, HandleCreate
  PROVE  ListInv'
<1>1. PICK w \in Unused :
        /\ workflows' = [workflows EXCEPT ![w] = [name |-> BlankName, deleted |-> FALSE]]
        /\ data' = [data EXCEPT ![w] = {}] /\ pending' = pending \cup {w}
        /\ flows' = [flows EXCEPT !["create"] = [wait |-> "delay", workflow |-> w, names |-> {}]]
  BY DEF HandleCreate
<1>2. /\ OnList /\ pendingDelete = None /\ toast' = None
      /\ UNCHANGED <<alone, page, gallery, pendingDelete>>
  BY DEF HandleCreate
<1>3. BlankName \in Seq(Words) /\ "create" \in FlowKinds
  BY WorkflowListAssumption DEF FlowKinds
<1>4. alone => \A g \in FlowKinds \ {"create"} : flows[g] = None
  BY <1>2, ListIsQuiet
<1>5. "delay" \in {"delay", "flush"} /\ {} \in SUBSET Kinds
  OBVIOUS
<1> QED
  BY <1>1, <1>2, <1>3, <1>4, <1>5, MakeStep

\* createWorkflowFromBundle, by any handler that has a name for it.
LEMMA BundleStep ==
  ASSUME ListInv, UNCHANGED <<alone, page, gallery, pendingDelete>>, toast' = None,
         NEW f \in FlowKinds, NEW w, NEW name \in Seq(Words), StartFromBundle(f, w, name),
         alone => /\ pendingDelete = None
                  /\ \A g \in FlowKinds \ {f} : flows[g] = None
                  /\ name \notin Names
  PROVE  ListInv'
<1>1. /\ w \in Unused
      /\ workflows' = [workflows EXCEPT ![w] = [name |-> name, deleted |-> FALSE]]
      /\ data' = [data EXCEPT ![w] = {"scenario"}] /\ pending' = pending \cup {w}
      /\ flows' = [flows EXCEPT ![f] = [wait |-> "flush", workflow |-> w, names |-> {}]]
  BY DEF StartFromBundle
<1>2. {"scenario"} \in SUBSET Kinds
  BY WorkflowListAssumption
<1> QED
  BY <1>1, <1>2, MakeStep

\* Use template.
LEMMA TemplateStep ==
  ASSUME ListInv, UNCHANGED alone, HandleCreateFromTemplate
  PROVE  ListInv'
<1> DEFINE name == GetUniqueWorkflowName(TemplateName, Names)
<1>1. name \in Seq(Words) /\ name \notin Names
  BY NamesBound, NameIsUnique, WorkflowListAssumption DEF ListInv
<1>2. PICK w \in Unused : StartFromBundle("template", w, name)
  BY DEF HandleCreateFromTemplate
<1>3. /\ OnList /\ gallery /\ toast' = None
      /\ UNCHANGED <<alone, page, gallery, pendingDelete>>
  BY DEF HandleCreateFromTemplate
<1>4. "template" \in FlowKinds /\ pendingDelete = None
  BY <1>3 DEF FlowKinds, ListInv, OneDialog
<1> HIDE DEF name
<1> QED
  BY <1>1, <1>2, <1>3, <1>4, ListIsQuiet, BundleStep

\* Clone workflow, which may refuse.
LEMMA CloneStep ==
  ASSUME ListInv, UNCHANGED alone, NEW f \in CloneSlots, NEW w \in Ids, HandleClone(f, w)
  PROVE  ListInv'
<1> DEFINE name == GetUniqueWorkflowName(Append(workflows[w].name, "Copy"), Names)
<1>1. /\ OnList /\ w \in Live /\ pendingDelete = None
      /\ UNCHANGED <<alone, page, gallery, pendingDelete>>
  BY DEF HandleClone
<1>2. CASE "scenario" \in data[w]
  <2>1. PICK v \in Unused : StartFromBundle(f, v, name)
    BY <1>2 DEF HandleClone
  <2>2. workflows[w].name \in Seq(Words) /\ "Copy" \in Words
    BY <1>1, WorkflowListAssumption DEF ListInv, ListTypeOK, Live, Entries
  <2>3. Append(workflows[w].name, "Copy") \in Seq(Words)
    BY <2>2, LongerName
  <2>4. name \in Seq(Words) /\ name \notin Names
    BY <2>3, NamesBound, NameIsUnique DEF ListInv
  <2>5. toast' = None /\ f \in FlowKinds
    BY <1>2 DEF HandleClone, FlowKinds
  <2> HIDE DEF name
  <2> QED
    BY <1>1, <2>1, <2>4, <2>5, ListIsQuiet, BundleStep
<1>3. CASE "scenario" \notin data[w]
  <2>1. /\ UNCHANGED <<alone, workflows, data, pending, flows, page, gallery, pendingDelete>>
        /\ toast'.text = "failed"
    BY <1>3 DEF HandleClone, Say
  <2>2. Live' = Live /\ Unused' = Unused /\ Names' = Names /\ Quiet' = Quiet
    BY <2>1, SameWorkflows DEF Quiet
  <2>3. ListTypeOK' /\ HandlersHold' /\ OneDialog'
    BY <2>1, <2>2 DEF ListInv, ListTypeOK, HandlersHold, Holds, OneDialog
  <2>4. ImportToldSynced' /\ ToldSynced'
    BY <2>1 DEF ImportToldSynced, ToldSynced
  <2>5. alone => AloneInv'
    BY <2>1, <2>2, <2>4
       DEF ListInv, AloneInv, OneHandler, DeletesInQuiet, OpenIsLive, MadeIsLive, NamesCurrent,
           DeletedWithData, NamesUnique
  <2> QED
    BY <2>1, <2>3, <2>4, <2>5 DEF ListInv
<1> QED
  BY <1>2, <1>3

\* A file is chosen: the handler remembers the names of the list.
LEMMA ImportStep ==
  ASSUME ListInv, UNCHANGED alone, HandleImport
  PROVE  ListInv'
<1>1. /\ OnList /\ pendingDelete = None /\ toast' = None
      /\ UNCHANGED <<alone, workflows, data, pending, page, gallery, pendingDelete>>
  BY DEF HandleImport
<1>2. Live' = Live /\ Unused' = Unused /\ Names' = Names
  BY <1>1, SameWorkflows
<1>3. IsFiniteSet(Names) /\ Cardinality(Names) <= Cardinality(Ids) /\ Names \subseteq Seq(Words)
  BY NamesBound DEF ListInv
<1>4. PICK h \in Handlers : /\ h.wait = "file" /\ h.names = Names
                           /\ flows' = [flows EXCEPT !["import"] = h]
  <2>1. [wait |-> "file", workflow |-> None, names |-> Names] \in Handlers
    BY <1>3 DEF Handlers
  <2> QED
    BY <2>1 DEF HandleImport
<1>5. /\ "import" \in FlowKinds /\ flows'["import"] = h
      /\ \A g \in FlowKinds \ {"import"} : flows'[g] = flows[g]
      /\ flows' \in [FlowKinds -> Handlers \cup {None}]
  BY <1>4 DEF ListInv, ListTypeOK, FlowKinds
<1>6. ListTypeOK' /\ OneDialog' /\ ImportToldSynced'
  BY <1>1, <1>2, <1>5 DEF ListInv, ListTypeOK, OneDialog, ImportToldSynced
<1>7. HandlersHold'
  <2>1. Holds("import")'
    BY <1>3, <1>4, <1>5 DEF Holds
  <2>2. ASSUME NEW g \in FlowKinds \ {"import"}, flows'[g] # None PROVE Holds(g)'
    BY <1>2, <1>5, <2>2 DEF ListInv, HandlersHold, Holds
  <2> QED
    BY <2>1, <2>2 DEF HandlersHold
<1>8. ASSUME alone PROVE AloneInv'
  <2>1. AloneInv /\ \A g \in FlowKinds : flows[g] = None
    BY <1>1, <1>8, ListIsQuiet DEF ListInv
  <2>2. OneHandler' /\ MadeIsLive' /\ NamesCurrent'
    BY <1>2, <1>4, <1>5, <2>1 DEF OneHandler, MadeIsLive, NamesCurrent
  <2>3. DeletesInQuiet' /\ OpenIsLive'
    BY <1>1, <1>2, <2>1 DEF AloneInv, DeletesInQuiet, OpenIsLive
  <2>4. DeletedWithData' /\ NamesUnique' /\ ToldSynced'
    BY <1>1, <1>2, <2>1 DEF AloneInv, DeletedWithData, NamesUnique, ToldSynced
  <2> QED
    BY <2>2, <2>3, <2>4 DEF AloneInv
<1> QED
  BY <1>1, <1>6, <1>7, <1>8 DEF ListInv

-----------------------------------------------------------------------------
(* The steps that end a handler *)

\* A handler ends: it opens the builder of the workflow it made, or leaves the page as it
\* is, sends some of what is pending and says something that is true.
LEMMA EndStep ==
  ASSUME ListInv, NEW f \in FlowKinds, flows[f] # None,
         UNCHANGED <<alone, workflows, data, pendingDelete>>,
         flows' = [flows EXCEPT ![f] = None],
         page' = page \/ (flows[f].wait # "file" /\ page' = flows[f].workflow),
         gallery' = gallery \/ gallery' = FALSE, pending' \subseteq pending,
         ImportToldSynced', alone => ToldSynced'
  PROVE  ListInv'
<1>1. Live' = Live /\ Unused' = Unused /\ Names' = Names
  BY SameWorkflows
<1>2. /\ flows' \in [FlowKinds -> Handlers \cup {None}] /\ flows'[f] = None
      /\ \A g \in FlowKinds : flows'[g] # None => flows'[g] = flows[g]
  BY DEF ListInv, ListTypeOK
<1>3. flows[f].wait # "file" => flows[f].workflow \in Ids \ Unused
  BY DEF ListInv, HandlersHold, Holds
<1>4. ListTypeOK'
  BY <1>1, <1>2, <1>3 DEF ListInv, ListTypeOK
<1>5. HandlersHold'
  <2>1. ASSUME NEW g \in FlowKinds, flows'[g] # None PROVE Holds(g)'
    <3>1. flows'[g] = flows[g] /\ Holds(g)
      BY <1>2, <2>1 DEF ListInv, HandlersHold
    <3> QED
      BY <1>1, <3>1 DEF Holds
  <2> QED
    BY <2>1 DEF HandlersHold
<1>6. OneDialog'
  BY DEF ListInv, OneDialog
<1>7. ASSUME alone PROVE AloneInv'
  <2>1. AloneInv
    BY <1>7 DEF ListInv
  <2>2. OneHandler' /\ MadeIsLive'
    BY <1>1, <1>2, <2>1 DEF AloneInv, OneHandler, MadeIsLive
  <2>3. DeletesInQuiet'
    BY <2>1 DEF AloneInv, DeletesInQuiet, Quiet
  <2>4. OpenIsLive'
    BY <1>1, <2>1 DEF AloneInv, OpenIsLive, MadeIsLive
  <2>5. NamesCurrent'
    BY <1>1, <1>2, <2>1 DEF AloneInv, NamesCurrent, FlowKinds
  <2>6. DeletedWithData' /\ NamesUnique'
    BY <1>1, <2>1 DEF AloneInv, DeletedWithData, NamesUnique
  <2> QED
    BY <1>7, <2>2, <2>3, <2>4, <2>5, <2>6 DEF AloneInv
<1> QED
  BY <1>4, <1>5, <1>6, <1>7 DEF ListInv

\* The blank workflow is there and its builder opens.
LEMMA CreateEndsStep ==
  ASSUME ListInv, UNCHANGED alone, CreateEnds
  PROVE  ListInv'
<1>1. "create" \in FlowKinds /\ flows["create"] # None
  BY DEF CreateEnds, FlowKinds
<1>2. flows["create"].wait # "file"
  BY <1>1 DEF ListInv, HandlersHold, Holds
<1>3. ImportToldSynced' /\ ToldSynced'
  BY DEF CreateEnds, ImportToldSynced, ToldSynced
<1>4. /\ UNCHANGED <<alone, workflows, data, pending, gallery, pendingDelete>>
      /\ flows' = [flows EXCEPT !["create"] = None] /\ page' = flows["create"].workflow
  BY DEF CreateEnds
<1> QED
  BY <1>1, <1>2, <1>3, <1>4, EndStep

\* The flush returns: the message of an import asks what is left, and for a user with a
\* server that answers nothing is.
LEMMA FlushEndsStep ==
  ASSUME ListInv, UNCHANGED alone, NEW f \in FlowKinds, FlushEnds(f)
  PROVE  ListInv'
<1>1. PICK left \in SUBSET pending :
        /\ alone => left = {}
        /\ pending' = left
        /\ toast' = [kind |-> f, workflow |-> flows[f].workflow, text |-> SaidAfterFlush(f, left)]
  BY DEF FlushEnds, Say
<1>2. /\ flows[f] # None /\ flows[f].wait = "flush" /\ flows' = [flows EXCEPT ![f] = None]
      /\ UNCHANGED <<alone, workflows, data, pendingDelete>>
      /\ page' = flows[f].workflow /\ (gallery' = gallery \/ gallery' = FALSE)
  BY DEF FlushEnds
<1>3. ImportToldSynced'
  <2>1. f = "import" /\ left # {} => SaidAfterFlush(f, left) # "synced"
    BY DEF SaidAfterFlush
  <2> QED
    BY <1>1, <2>1 DEF ImportToldSynced
<1>4. alone => ToldSynced'
  BY <1>1 DEF ToldSynced
<1> QED
  BY <1>1, <1>2, <1>3, <1>4, EndStep

\* The text of a file is there: a workflow is made of it, under a name that none of the
\* workflows of the list has, or it is refused.
LEMMA FileReadStep ==
  ASSUME ListInv, UNCHANGED alone, FileRead
  PROVE  ListInv'
<1> DEFINE existing == flows["import"].names
           name == GetUniqueWorkflowName(FileName, existing)
<1>1. /\ "import" \in FlowKinds /\ flows["import"] # None /\ flows["import"].wait = "file"
      /\ UNCHANGED <<alone, page, gallery, pendingDelete>>
  BY DEF FileRead, FlowKinds
<1>2. IsFiniteSet(existing) /\ Cardinality(existing) <= Cardinality(Ids)
  BY <1>1 DEF ListInv, HandlersHold, Holds
<1>3. name \in Seq(Words) /\ name \notin existing
  BY <1>2, NameIsUnique, WorkflowListAssumption
<1>4. alone => /\ pendingDelete = None
               /\ \A g \in FlowKinds \ {"import"} : flows[g] = None
               /\ Names \subseteq existing
  BY <1>1 DEF ListInv, AloneInv, OneHandler, DeletesInQuiet, Quiet, NamesCurrent
<1>5. CASE \E w \in Unused : StartFromBundle("import", w, name) /\ toast' = None
  <2>1. PICK w : StartFromBundle("import", w, name) /\ toast' = None
    BY <1>5
  <2> HIDE DEF name, existing
  <2> QED
    BY <1>1, <1>3, <1>4, <2>1, BundleStep
<1>6. CASE /\ flows' = [flows EXCEPT !["import"] = None]
           /\ Say("import", None, "failed")
           /\ UNCHANGED <<workflows, data, pending>>
  <2>1. ImportToldSynced' /\ ToldSynced'
    BY <1>6 DEF Say, ImportToldSynced, ToldSynced
  <2> QED
    BY <1>1, <1>6, <2>1, EndStep
<1> QED
  BY <1>5, <1>6 DEF FileRead

-----------------------------------------------------------------------------
\* Every step of the list keeps ListInv.
LEMMA NextListInv == ListInv /\ [Next]_vars => ListInv'
<1> SUFFICES ASSUME ListInv, [Next]_vars PROVE ListInv'
  OBVIOUS
<1>1. CASE Next
  <2>1. UNCHANGED alone /\ Step
    BY <1>1 DEF Next
  <2>2. CASE \/ OpenGallery \/ CloseGallery \/ CancelDelete \/ BackToList
             \/ \E w \in Ids : AskDelete(w) \/ OpenWorkflow(w)
    BY <2>1, <2>2, PageSteps
  <2>3. CASE WorkInBuilder \/ Synchronise \/ \E w \in Ids : HydrateData(w)
    BY <2>1, <2>3, DataSteps
  <2>4. CASE HandleDeleteWorkflow
    BY <2>1, <2>4, DeleteStep
  <2>5. CASE HandleCreate
    BY <2>1, <2>5, CreateStep
  <2>6. CASE HandleImport
    BY <2>1, <2>6, ImportStep
  <2>7. CASE HandleCreateFromTemplate
    BY <2>1, <2>7, TemplateStep
  <2>8. CASE \E f \in CloneSlots, w \in Ids : HandleClone(f, w)
    BY <2>1, <2>8, CloneStep
  <2>9. CASE CreateEnds
    BY <2>1, <2>9, CreateEndsStep
  <2>10. CASE FileRead
    BY <2>1, <2>10, FileReadStep
  <2>11. CASE \E f \in FlowKinds : FlushEnds(f)
    BY <2>1, <2>11, FlushEndsStep
  <2> QED
    BY <2>1, <2>2, <2>3, <2>4, <2>5, <2>6, <2>7, <2>8, <2>9, <2>10, <2>11
       DEF Step, HandlerGoesOn
<1>2. CASE UNCHANGED vars
  <2>1. UNCHANGED <<alone, workflows, data, pending, flows, page, gallery, pendingDelete, toast>>
    BY <1>2 DEF vars
  <2>2. Live' = Live /\ Unused' = Unused /\ Names' = Names /\ Quiet' = Quiet
    BY <2>1, SameWorkflows DEF Quiet
  <2>3. /\ ListTypeOK' /\ HandlersHold' /\ OneDialog' /\ ImportToldSynced'
    BY <2>1, <2>2 DEF ListInv, ListTypeOK, HandlersHold, Holds, OneDialog, ImportToldSynced
  <2>4. alone => AloneInv'
    BY <2>1, <2>2
       DEF ListInv, AloneInv, OneHandler, DeletesInQuiet, OpenIsLive, MadeIsLive, NamesCurrent,
           DeletedWithData, NamesUnique, ToldSynced
  <2> QED
    BY <2>1, <2>3, <2>4 DEF ListInv
<1> QED
  BY <1>1, <1>2

\* What the list of workflows says is so, whatever handlers are still under way when the
\* page is left: no scenario or run of a deleted workflow stays behind, a workflow made from
\* a file, a template or another workflow has a name of its own, and "synced" is said of
\* what is sent, as long as the user waits for what is under way and the server answers;
\* what an import says of the synchronisation holds for every user.
THEOREM ListTellsItsUserTheTruth == Spec => []ListTellsTruth
<1>1. ListInv => ListTellsTruth
  BY DEF ListInv, AloneInv, ListTellsTruth
<1> QED
  BY <1>1, InitListInv, NextListInv, PTL DEF Spec
=============================================================================
