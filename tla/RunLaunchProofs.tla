-------------------------- MODULE RunLaunchProofs ---------------------------
(***************************************************************************)
(* Theorems about starting a run and about the frame of the builder, for   *)
(* any scenarios, users, workflows and number of edits and starts.         *)
(*                                                                         *)
(* execute() works on what its closure captured, so what was validated is  *)
(* what is sent (Valid is about the captured values, whatever the stores   *)
(* do).  That it is also what the page shows when it is sent rests on the  *)
(* dialog: while it is open nothing is edited, and while a run is being    *)
(* started it cannot be closed (Guarded).                                  *)
(***************************************************************************)
EXTENDS RunLaunch, BuilderShell, FiniteSetTheorems, TLAPS

-----------------------------------------------------------------------------
(* Starting a run *)

Starts == [id : Nat, phase : {"flush", "sent", "accepted", "failed"}, here : BOOLEAN,
           graph : Graphs, scen : UNION {[S -> ScenarioStates] : S \in SUBSET Scenarios},
           secret : BOOLEAN, chosen : SUBSET Scenarios, current : BOOLEAN]

Valid(r) ==
    /\ DOMAIN r.scen # {}
    /\ ~r.graph.cyclic
    /\ r.graph.private => r.secret
    /\ \A s \in DOMAIN r.scen : r.scen[s] \in r.graph.services

InFlight(r) == r.phase \in {"flush", "sent"}

\* Whatever happens to the stores meanwhile.
LaunchInv ==
    /\ LaunchTypeOK
    /\ IsFiniteSet(starts) /\ starts \subseteq Starts
    /\ \A r \in starts : Valid(r)

\* For one author who stays: the dialog guards the run that is being started.
Guarded ==
    alone =>
      /\ open => selected = chosen
      /\ \A r \in starts : DOMAIN r.scen = r.chosen
      /\ \A r \in starts : r.phase \in {"sent", "accepted"} => r.current
      /\ \A r \in starts : InFlight(r) =>
           open /\ executing /\ r.here /\ AsShown(r) /\ \A q \in starts : InFlight(q) => q = r

\* Without the dialog, or once execute() has ended, no run is being started.
LEMMA NoneInFlight ==
    ASSUME Guarded, alone, ~open \/ ~executing
    PROVE  \A r \in starts : ~InFlight(r)
  BY DEF Guarded

\* A step that leaves the starts alone.
LEMMA RestKeeps ==
    ASSUME LaunchInv, Guarded, alone' = alone, starts' = starts, LaunchTypeOK',
           alone /\ open' => selected' = chosen',
           alone => \/ ~open \/ ~executing \/ \A r \in starts : ~InFlight(r)
                    \/ UNCHANGED <<open, executing, graph, scen>>
    PROVE  LaunchInv' /\ Guarded'
  <1>1. LaunchInv'
    BY DEF LaunchInv, Valid
  <1>2. ASSUME alone, NEW r \in starts, InFlight(r)
        PROVE  open' /\ executing' /\ r.here /\ AsShown(r)' /\ \A q \in starts : InFlight(q) => q = r
    <2>1. UNCHANGED <<open, executing, graph, scen>>
      BY <1>2, NoneInFlight
    <2>2. open /\ executing /\ r.here /\ AsShown(r) /\ \A q \in starts : InFlight(q) => q = r
      BY <1>2 DEF Guarded
    <2> QED BY <2>1, <2>2 DEF AsShown
  <1>3. alone => \A r \in starts : /\ DOMAIN r.scen = r.chosen
                                  /\ r.phase \in {"sent", "accepted"} => r.current
    BY DEF Guarded
  <1> QED BY <1>1, <1>2, <1>3 DEF Guarded, InFlight

\* Editing, here and elsewhere.
LEMMA EditsKeep ==
    ASSUME LaunchInv, Guarded, alone' = alone,
           \/ \E g \in Graphs : EditGraph(g) \/ HydrateGraph(g)
           \/ \E s \in Scenarios, state \in ScenarioStates : EditScenario(s, state) \/ HydrateScenario(s, state)
           \/ SetSecret \/ ClearSecret
           \/ \E x \in queue : Synchronise(x)
    PROVE  LaunchInv' /\ Guarded'
  <1> USE DEF LaunchTypeOK, page, Runnable
  <1>0. LaunchTypeOK
    BY DEF LaunchInv
  <1>1. ASSUME NEW g \in Graphs, EditGraph(g) \/ HydrateGraph(g)
        PROVE  LaunchInv' /\ Guarded'
    <2>1. LaunchTypeOK' /\ starts' = starts /\ UNCHANGED <<open, selected, chosen>> /\ (alone => ~open)
      BY <1>0, <1>1 DEF EditGraph, HydrateGraph, Edit, Arrives
    <2>2. alone /\ open' => selected' = chosen'
      BY <2>1
    <2> QED BY <2>1, <2>2, RestKeeps
  <1>2. ASSUME NEW s \in Scenarios, NEW state \in ScenarioStates, EditScenario(s, state)
        PROVE  LaunchInv' /\ Guarded'
    <2>1. starts' = starts /\ ~open /\ ~open'
      BY <1>2 DEF EditScenario, Edit
    <2>2. LaunchTypeOK'
      BY <1>0, <1>2 DEF EditScenario, Edit
    <2> QED BY <2>1, <2>2, RestKeeps
  <1>3. ASSUME NEW s \in Scenarios, NEW state \in ScenarioStates, HydrateScenario(s, state)
        PROVE  LaunchInv' /\ Guarded'
    <2>1. starts' = starts /\ ~alone
      BY <1>3 DEF HydrateScenario, Arrives
    <2>2. LaunchTypeOK'
      BY <1>0, <1>3 DEF HydrateScenario, SelectAll
    <2> QED BY <2>1, <2>2, RestKeeps
  <1>4. CASE SetSecret \/ ClearSecret
    <2>1. starts' = starts /\ ~open /\ ~open'
      BY <1>4 DEF SetSecret, ClearSecret, Edit
    <2>2. [graph EXCEPT !.private = FALSE] \in Graphs
      BY <1>0 DEF Graphs
    <2>3. LaunchTypeOK'
      <3>1. CASE SetSecret
        BY <1>0, <3>1 DEF SetSecret
      <3>2. CASE ClearSecret
        BY <1>0, <2>2, <3>2 DEF ClearSecret
      <3> QED BY <1>4, <3>1, <3>2
    <2> QED BY <2>1, <2>3, RestKeeps
  <1>5. ASSUME NEW x \in queue, Synchronise(x)
        PROVE  LaunchInv' /\ Guarded'
    <2>1. starts' = starts /\ UNCHANGED <<open, executing, graph, scen, selected, chosen>>
      BY <1>5 DEF Synchronise
    <2>2. LaunchTypeOK'
      BY <1>0, <1>5 DEF Synchronise
    <2>3. alone /\ open' => selected' = chosen'
      BY <2>1 DEF Guarded
    <2> QED BY <2>1, <2>2, <2>3, RestKeeps
  <1> QED BY <1>1, <1>2, <1>3, <1>4, <1>5

\* The dialog, a refused submission and a reload.
LEMMA DialogKeeps ==
    ASSUME LaunchInv, Guarded, alone' = alone,
           \/ PressRun \/ PressRunShortcut \/ CloseDialog \/ SubmitRefused \/ Reload
           \/ \E s \in Scenarios : ToggleScenario(s)
    PROVE  LaunchInv' /\ Guarded'
  <1> USE DEF LaunchTypeOK, Runnable
  <1>0. LaunchTypeOK
    BY DEF LaunchInv
  <1>1. CASE PressRun \/ PressRunShortcut
    <2>1. OpenDialog
      BY <1>1 DEF PressRun, PressRunShortcut
    <2>2. starts' = starts /\ ~open /\ selected' = Runnable /\ chosen' = Runnable
      BY <2>1 DEF OpenDialog, SelectAll
    <2>3. LaunchTypeOK'
      BY <1>0, <2>1 DEF OpenDialog, SelectAll
    <2>4. selected' = chosen'
      BY <2>2
    <2> QED BY <2>2, <2>3, <2>4, RestKeeps
  <1>2. CASE CloseDialog
    <2>1. starts' = starts /\ ~executing /\ ~open' /\ LaunchTypeOK'
      BY <1>0, <1>2 DEF CloseDialog
    <2> QED BY <2>1, RestKeeps
  <1>3. CASE SubmitRefused
    <2>1. starts' = starts /\ UNCHANGED <<open, executing, graph, scen, selected, chosen>> /\ LaunchTypeOK'
      BY <1>0, <1>3 DEF SubmitRefused
    <2>2. alone /\ open' => selected' = chosen'
      BY <2>1 DEF Guarded
    <2> QED BY <2>1, <2>2, RestKeeps
  <1>4. CASE Reload
    <2>1. starts' = starts /\ ~executing /\ ~open' /\ LaunchTypeOK'
      BY <1>0, <1>4 DEF Reload
    <2> QED BY <2>1, RestKeeps
  <1>5. ASSUME NEW s \in Scenarios, ToggleScenario(s)
        PROVE  LaunchInv' /\ Guarded'
    <2>1. starts' = starts /\ open /\ UNCHANGED <<open, executing, graph, scen>>
      BY <1>5 DEF ToggleScenario
    <2>2. LaunchTypeOK'
      BY <1>0, <1>5 DEF ToggleScenario
    <2>3. alone => selected = chosen
      BY <2>1 DEF Guarded
    <2>4. alone => selected' = chosen'
      BY <1>5, <2>3 DEF ToggleScenario
    <2> QED BY <2>1, <2>2, <2>4, RestKeeps
  <1> QED BY <1>1, <1>2, <1>3, <1>4, <1>5

\* What validateSelection lets through.
LEMMA SelectionValid ==
    ASSUME NEW ids, ValidateSelection(ids) = {}
    PROVE  /\ ~graph.cyclic /\ (graph.private => secret)
           /\ \A s \in ids : scen[s] \in graph.services
  <1>1. ValidateWorkflowGraph(graph) = {}
    BY DEF ValidateSelection
  <1>2. ~MissingCredentials(graph)
    BY <1>1 DEF ValidateSelection
  <1>3. PICK invalid : invalid = {s \in ids : ValidateScenario(graph, scen[s]) # {}}
    OBVIOUS
  <1>4. (IF invalid = {} THEN {} ELSE ValidateScenario(graph, scen[CHOOSE s \in invalid : TRUE])) = {}
    BY <1>1, <1>2, <1>3 DEF ValidateSelection
  <1>5. invalid = {}
    <2> SUFFICES ASSUME invalid # {}
                 PROVE  FALSE
      OBVIOUS
    <2>1. (CHOOSE s \in invalid : TRUE) \in invalid
      OBVIOUS
    <2> QED BY <1>3, <1>4, <2>1
  <1>6. \A s \in ids : scen[s] \in graph.services
    BY <1>3, <1>5 DEF ValidateScenario
  <1>7. ~graph.cyclic
    BY <1>1 DEF ValidateWorkflowGraph
  <1> QED BY <1>2, <1>6, <1>7 DEF MissingCredentials

\* Starting a run captures what is ticked and drawn; for one author nothing else is in flight.
LEMMA SubmitKeeps ==
    ASSUME LaunchInv, Guarded, alone' = alone, Submit
    PROVE  LaunchInv' /\ Guarded'
  <1>1. PICK held : held = [s \in selected |-> scen[s]]
    OBVIOUS
  <1>2. PICK r : r = [id |-> Cardinality(starts) + 1, phase |-> "flush", here |-> TRUE,
                      graph |-> graph, scen |-> held, secret |-> secret,
                      chosen |-> chosen, current |-> TRUE]
    OBVIOUS
  <1>3. /\ open /\ selected # {} /\ ~executing /\ executing' = TRUE /\ starts' = starts \cup {r}
        /\ ValidateSelection(selected) = {}
        /\ UNCHANGED <<graph, scen, secret, queue, open, selected, chosen, edits>>
    BY <1>1, <1>2 DEF Submit, SubmitEnabled
  <1>4. LaunchTypeOK'
    BY <1>3 DEF LaunchInv, LaunchTypeOK, Runnable
  <1>5. held \in [selected -> ScenarioStates] /\ DOMAIN held = selected /\ selected \in SUBSET Scenarios
    BY <1>1 DEF LaunchInv, LaunchTypeOK
  <1>6. r \in Starts
    <2>1. held \in UNION {[S -> ScenarioStates] : S \in SUBSET Scenarios}
      BY <1>5
    <2>2. Cardinality(starts) + 1 \in Nat
      BY FS_CardinalityType DEF LaunchInv
    <2> QED BY <1>2, <2>1, <2>2 DEF LaunchInv, LaunchTypeOK, Starts
  <1>7. /\ r.phase = "flush" /\ r.here /\ r.graph = graph /\ r.scen = held /\ r.secret = secret
        /\ r.chosen = chosen
    BY <1>2
  <1>8. Valid(r)
    BY <1>1, <1>3, <1>5, <1>7, SelectionValid DEF Valid
  <1>9. IsFiniteSet(starts')
    BY <1>3, FS_AddElement DEF LaunchInv
  <1>10. LaunchInv'
    BY <1>3, <1>4, <1>6, <1>8, <1>9 DEF LaunchInv, Valid
  <1>11. ASSUME alone
         PROVE  Guarded'
    <2>1. selected = chosen /\ \A q \in starts : ~InFlight(q)
      BY <1>3, <1>11, NoneInFlight DEF Guarded
    <2>2. AsShown(r)'
      BY <1>1, <1>3, <1>5, <1>7 DEF AsShown
    <2>3. DOMAIN r.scen = r.chosen
      BY <1>5, <1>7, <2>1
    <2>4. \A q \in starts : DOMAIN q.scen = q.chosen /\ (q.phase \in {"sent", "accepted"} => q.current)
      BY <1>11 DEF Guarded
    <2>5. \A q \in starts' : InFlight(q) => q = r
      BY <1>3, <2>1
    <2>6. (\A q \in starts : DOMAIN q.scen = q.chosen /\ (q.phase \in {"sent", "accepted"} => q.current))'
      BY <1>3, <1>7, <2>3, <2>4
    <2>7. (\A q \in starts : InFlight(q) =>
             open /\ executing /\ q.here /\ AsShown(q) /\ \A p \in starts : InFlight(p) => p = q)'
      <3> SUFFICES ASSUME NEW q \in starts', InFlight(q)
                   PROVE  open' /\ executing' /\ q.here /\ AsShown(q)' /\ \A p \in starts' : InFlight(p) => p = q
        BY DEF InFlight
      <3>1. q = r
        BY <2>5
      <3> QED BY <1>3, <1>7, <2>2, <2>5, <3>1
    <2>8. (open => selected = chosen)'
      BY <1>3, <2>1
    <2> QED BY <2>6, <2>7, <2>8 DEF Guarded
  <1> QED BY <1>10, <1>11 DEF Guarded

\* A start that goes on holds what it held.
Derives(r, x) ==
    /\ x \in Starts
    /\ x.graph = r.graph /\ x.scen = r.scen /\ x.secret = r.secret /\ x.chosen = r.chosen
    /\ x.phase \in {"sent", "accepted"} => \/ alone => x.current
                                           \/ r.phase = x.phase /\ x.current = r.current

\* A step of execute(), or one that takes its page away.
LEMMA GoesOnKeeps ==
    ASSUME LaunchInv, Guarded, alone' = alone, LaunchTypeOK', IsFiniteSet(starts'),
           \A x \in starts' : \E r \in starts : Derives(r, x),
           alone /\ open' => selected' = chosen',
           alone => \A x \in starts' : InFlight(x) =>
              open' /\ executing' /\ x.here /\ AsShown(x)' /\ \A q \in starts' : InFlight(q) => q = x
    PROVE  LaunchInv' /\ Guarded'
  <1>1. ASSUME NEW x \in starts'
        PROVE  /\ x \in Starts /\ Valid(x)
               /\ alone => DOMAIN x.scen = x.chosen /\ (x.phase \in {"sent", "accepted"} => x.current)
    <2>1. PICK r \in starts : Derives(r, x)
      BY <1>1
    <2>2. x \in Starts /\ Valid(x)
      BY <2>1 DEF Derives, LaunchInv, Valid
    <2>3. alone => DOMAIN x.scen = x.chosen /\ (x.phase \in {"sent", "accepted"} => x.current)
      BY <2>1 DEF Derives, Guarded
    <2> QED BY <2>2, <2>3
  <1>2. LaunchInv'
    BY <1>1 DEF LaunchInv, Valid
  <1> QED BY <1>1, <1>2 DEF Guarded, InFlight

\* The start r goes on as x.
LEMMA ReplaceKeeps ==
    ASSUME LaunchInv, Guarded, alone' = alone, LaunchTypeOK', NEW r \in starts, InFlight(r),
           NEW x, Derives(r, x), Replace(r, x), UNCHANGED <<graph, scen, open, selected, chosen>>,
           InFlight(x) => x.here = r.here /\ executing' = executing
    PROVE  LaunchInv' /\ Guarded'
  <1>1. starts' = (starts \ {r}) \cup {x}
    BY DEF Replace
  <1>2. IsFiniteSet(starts')
    BY <1>1, FS_AddElement, FS_RemoveElement DEF LaunchInv
  <1>3. ASSUME NEW y \in starts'
        PROVE  \E q \in starts : Derives(q, y)
    <2>1. CASE y = x
      BY <2>1
    <2>2. CASE y \in starts
      BY <2>2 DEF Derives, LaunchInv
    <2> QED BY <1>1, <2>1, <2>2
  <1>4. alone /\ open' => selected' = chosen'
    BY DEF Guarded
  <1>5. ASSUME alone, NEW y \in starts', InFlight(y)
        PROVE  open' /\ executing' /\ y.here /\ AsShown(y)' /\ \A q \in starts' : InFlight(q) => q = y
    <2>1. open /\ executing /\ r.here /\ AsShown(r) /\ \A q \in starts : InFlight(q) => q = r
      BY <1>5 DEF Guarded
    <2>2. y = x /\ \A q \in starts' : InFlight(q) => q = x
      BY <1>1, <1>5, <2>1
    <2>3. x.here /\ executing' = executing /\ x.graph = r.graph /\ x.scen = r.scen
      BY <1>5, <2>1, <2>2 DEF Derives
    <2> QED BY <2>1, <2>2, <2>3 DEF AsShown
  <1> QED BY <1>2, <1>3, <1>4, <1>5, GoesOnKeeps

\* The flush is answered: the run is sent with what was captured, or given up.
LEMMA FlushEndsKeeps ==
    ASSUME LaunchInv, Guarded, alone' = alone, NEW r \in starts, NEW left, FlushEnds(r, left)
    PROVE  LaunchInv' /\ Guarded'
  <1>1. /\ r \in Starts /\ r.phase = "flush" /\ InFlight(r) /\ left \subseteq queue
        /\ UNCHANGED <<graph, scen, secret, result, open, selected, chosen, edits>>
    BY DEF FlushEnds, InFlight, LaunchInv
  <1>2. CASE "insert" \in left
    <2>1. PICK x : x = [r EXCEPT !.phase = "failed"]
      OBVIOUS
    <2>2. /\ Replace(r, x) /\ executing' = (IF r.here THEN FALSE ELSE executing) /\ queue' = left
      BY <1>2, <2>1 DEF FlushEnds, EndExecute
    <2>3. /\ x \in Starts /\ x.phase = "failed"
          /\ x.graph = r.graph /\ x.scen = r.scen /\ x.secret = r.secret /\ x.chosen = r.chosen
      BY <1>1, <2>1 DEF Starts
    <2>4. Derives(r, x) /\ ~InFlight(x)
      BY <2>3 DEF Derives, InFlight
    <2>5. LaunchTypeOK'
      BY <1>1, <2>2 DEF LaunchInv, LaunchTypeOK, Runnable
    <2> QED BY <1>1, <2>2, <2>4, <2>5, ReplaceKeeps
  <1>3. CASE "insert" \notin left
    <2>1. PICK x : x = [r EXCEPT !.phase = "sent", !.current = AsShown(r)]
      OBVIOUS
    <2>2. Replace(r, x) /\ executing' = executing /\ queue' = left \cup {"run"}
      BY <1>3, <2>1 DEF FlushEnds
    <2>3. AsShown(r) \in BOOLEAN
      BY DEF AsShown
    <2>4. /\ x \in Starts /\ x.phase = "sent" /\ x.here = r.here
          /\ x.graph = r.graph /\ x.scen = r.scen /\ x.secret = r.secret /\ x.chosen = r.chosen
      BY <1>1, <2>1, <2>3 DEF Starts
    <2>5. x.current = AsShown(r)
      BY <1>1, <2>1 DEF Starts
    <2>6. alone => AsShown(r)
      BY <1>1 DEF Guarded
    <2>7. Derives(r, x)
      BY <2>4, <2>5, <2>6 DEF Derives
    <2>8. LaunchTypeOK'
      BY <1>1, <2>2 DEF LaunchInv, LaunchTypeOK, Runnable
    <2> QED BY <1>1, <2>2, <2>4, <2>7, <2>8, ReplaceKeeps
  <1> QED BY <1>2, <1>3

\* The page is gone, and with it the starts' hold on it.
LEMMA PageGoneKeeps ==
    ASSUME LaunchInv, Guarded, alone' = alone, LaunchTypeOK', open' = FALSE, NEW R \in SUBSET starts,
           NEW x, x \in starts' => \E r \in starts : Derives(r, x),
           starts' \subseteq {[r EXCEPT !.here = FALSE] : r \in R} \cup {x},
           alone => ~InFlight(x) /\ \A r \in R : ~InFlight(r)
    PROVE  LaunchInv' /\ Guarded'
  <1>1. IsFiniteSet(starts')
    <2>1. IsFiniteSet(R)
      BY FS_Subset DEF LaunchInv
    <2>2. IsFiniteSet({[r EXCEPT !.here = FALSE] : r \in R})
      <3> DEFINE F == [r \in R |-> [r EXCEPT !.here = FALSE]]
      <3>1. {[r EXCEPT !.here = FALSE] : r \in R} = {F[r] : r \in R}
        OBVIOUS
      <3>2. IsFiniteSet({F[r] : r \in R})
        <4>1. F \in Surjection(R, {F[r] : r \in R})
          BY DEF Surjection
        <4> HIDE DEF F
        <4> QED BY <2>1, <4>1, FS_Surjection
      <3> QED BY <3>1, <3>2
    <2> QED BY <2>2, FS_AddElement, FS_Subset
  <1>2. ASSUME NEW r \in R
        PROVE  /\ Derives(r, [r EXCEPT !.here = FALSE])
               /\ [r EXCEPT !.here = FALSE].phase = r.phase
    <2>1. PICK y : y = [r EXCEPT !.here = FALSE]
      OBVIOUS
    <2>2. r \in Starts
      BY DEF LaunchInv
    <2>3. /\ y \in Starts /\ y.phase = r.phase /\ y.current = r.current
          /\ y.graph = r.graph /\ y.scen = r.scen /\ y.secret = r.secret /\ y.chosen = r.chosen
      BY <2>1, <2>2 DEF Starts
    <2>4. Derives(r, y)
      BY <2>3 DEF Derives
    <2> QED BY <2>1, <2>3, <2>4
  <1>3. \A y \in starts' : \E r \in starts : Derives(r, y)
    BY <1>2
  <1>4. alone => \A y \in starts' : ~InFlight(y)
    BY <1>2 DEF InFlight
  <1> QED BY <1>1, <1>3, <1>4, GoesOnKeeps

\* The submission is answered.
LEMMA SubmissionEndsKeeps ==
    ASSUME LaunchInv, Guarded, alone' = alone, NEW r \in starts, NEW ok \in BOOLEAN, SubmissionEnds(r, ok)
    PROVE  LaunchInv' /\ Guarded'
  <1>1. /\ r \in Starts /\ r.phase = "sent" /\ InFlight(r)
        /\ UNCHANGED <<graph, scen, secret, queue, selected, chosen, edits>>
    BY DEF SubmissionEnds, InFlight, LaunchInv
  <1>2. CASE ok
    <2>1. PICK x : x = [r EXCEPT !.phase = "accepted", !.here = FALSE]
      OBVIOUS
    <2>2. PICK R : R = starts \ {r}
      OBVIOUS
    <2>3. /\ starts' = {[q EXCEPT !.here = FALSE] : q \in R} \cup {x}
          /\ open' = FALSE /\ result' = {} /\ executing' = FALSE
      BY <1>2, <2>1, <2>2 DEF SubmissionEnds
    <2>4. /\ x \in Starts /\ x.phase = "accepted" /\ x.current = r.current
          /\ x.graph = r.graph /\ x.scen = r.scen /\ x.secret = r.secret /\ x.chosen = r.chosen
      BY <1>1, <2>1 DEF Starts
    <2>5. alone => r.current /\ \A q \in R : ~InFlight(q)
      BY <1>1, <2>2 DEF Guarded
    <2>6. Derives(r, x) /\ ~InFlight(x)
      BY <2>4, <2>5 DEF Derives, InFlight
    <2>7. LaunchTypeOK'
      BY <1>1, <2>3 DEF LaunchInv, LaunchTypeOK, Runnable
    <2>8. R \in SUBSET starts
      BY <2>2
    <2>9. starts' \subseteq {[q EXCEPT !.here = FALSE] : q \in R} \cup {x} /\ open' = FALSE
      BY <2>3
    <2> QED BY <2>5, <2>6, <2>7, <2>8, <2>9, PageGoneKeeps
  <1>3. CASE ~ok
    <2>1. PICK x : x = [r EXCEPT !.phase = "failed"]
      OBVIOUS
    <2>2. /\ Replace(r, x) /\ executing' = (IF r.here THEN FALSE ELSE executing)
          /\ UNCHANGED <<open, result>>
      BY <1>3, <2>1 DEF SubmissionEnds, EndExecute
    <2>3. /\ x \in Starts /\ x.phase = "failed"
          /\ x.graph = r.graph /\ x.scen = r.scen /\ x.secret = r.secret /\ x.chosen = r.chosen
      BY <1>1, <2>1 DEF Starts
    <2>4. Derives(r, x) /\ ~InFlight(x)
      BY <2>3 DEF Derives, InFlight
    <2>5. LaunchTypeOK'
      BY <1>1, <2>2 DEF LaunchInv, LaunchTypeOK, Runnable
    <2> QED BY <1>1, <2>2, <2>4, <2>5, ReplaceKeeps
  <1> QED BY <1>2, <1>3

\* Leaving the page detaches every start; one author does so only when none is in flight.
LEMMA LeaveAndReturnKeeps ==
    ASSUME LaunchInv, Guarded, alone' = alone, LeaveAndReturn
    PROVE  LaunchInv' /\ Guarded'
  <1>1. /\ starts' = {[r EXCEPT !.here = FALSE] : r \in starts}
        /\ open' = FALSE /\ executing' = FALSE /\ (alone => ~executing)
        /\ UNCHANGED <<graph, scen, secret, queue, selected, chosen, edits>>
    BY DEF LeaveAndReturn
  <1>2. LaunchTypeOK'
    BY <1>1 DEF LaunchInv, LaunchTypeOK, Runnable
  <1>3. alone => \A r \in starts : ~InFlight(r)
    BY <1>1, NoneInFlight
  <1>4. CASE starts = {}
    <2>1. starts' = {}
      BY <1>1, <1>4
    <2> QED BY <1>1, <1>2, <2>1, FS_EmptySet, GoesOnKeeps
  <1>5. CASE starts # {}
    <2>1. PICK r \in starts : TRUE
      BY <1>5
    <2>2. r \in Starts
      BY DEF LaunchInv
    <2>3. Derives(r, r)
      BY <2>2 DEF Derives
    <2>4. starts' \subseteq {[q EXCEPT !.here = FALSE] : q \in starts} \cup {r}
      BY <1>1
    <2> QED BY <1>1, <1>2, <1>3, <2>3, <2>4, PageGoneKeeps
  <1> QED BY <1>4, <1>5

\* The invariants hold when the page is opened.
LEMMA LaunchStarts ==
    ASSUME Init
    PROVE  LaunchInv /\ Guarded
  <1>1. [services |-> {"app"}, cyclic |-> FALSE, private |-> FALSE] \in Graphs
    BY DEF Graphs
  <1>2. LaunchTypeOK
    BY <1>1 DEF Init, LaunchTypeOK, ScenarioStates
  <1> QED BY <1>2, FS_EmptySet DEF Init, LaunchInv, Guarded

\* Every step keeps them.
LEMMA LaunchStays ==
    ASSUME LaunchInv, Guarded, [Next]_vars
    PROVE  LaunchInv' /\ Guarded'
  <1>1. CASE UNCHANGED vars
    <2>1. LaunchTypeOK'
      BY <1>1 DEF vars, LaunchInv, LaunchTypeOK, Runnable
    <2>2. alone /\ open' => selected' = chosen'
      BY <1>1 DEF vars, Guarded
    <2> QED BY <1>1, <2>1, <2>2, RestKeeps DEF vars
  <1>2. CASE Next
    <2>1. Step /\ alone' = alone
      BY <1>2 DEF Next
    <2>2. CASE FlushOrAnswer
      BY <2>1, <2>2, FlushEndsKeeps, SubmissionEndsKeeps DEF FlushOrAnswer
    <2>3. CASE Submit
      BY <2>1, <2>3, SubmitKeeps
    <2>4. CASE LeaveAndReturn
      BY <2>1, <2>4, LeaveAndReturnKeeps
    <2>5. CASE \/ PressRun \/ PressRunShortcut \/ CloseDialog \/ SubmitRefused \/ Reload
               \/ \E s \in Scenarios : ToggleScenario(s)
      BY <2>1, <2>5, DialogKeeps
    <2>6. CASE \/ \E g \in Graphs : EditGraph(g) \/ HydrateGraph(g)
               \/ \E s \in Scenarios, state \in ScenarioStates : EditScenario(s, state) \/ HydrateScenario(s, state)
               \/ SetSecret \/ ClearSecret
               \/ \E x \in queue : Synchronise(x)
      BY <2>1, <2>6, EditsKeep
    <2> QED BY <2>1, <2>2, <2>3, <2>4, <2>5, <2>6 DEF Step
  <1> QED BY <1>1, <1>2

\* A run that is submitted was validated as it is, whatever was edited, hydrated or left while its
\* changes were flushed; and for one author who stays on the page it is what was ticked and what
\* the page shows, with no other run being started (RunWorkflowDialog.tsx, useWorkflowExecution.tsx).
THEOREM RunsStartAsReviewed == Spec => []StartsAsReviewed
  <1>1. LaunchInv => LaunchTypeOK /\ StartedValid
    BY DEF LaunchInv, Valid, StartedValid, Started
  <1>2. ASSUME LaunchInv, Guarded, alone
        PROVE  StartedAsChosen /\ StartedAsShown /\ OneStartAtATime
    <2>1. StartedAsChosen /\ StartedAsShown
      BY <1>2 DEF Guarded, StartedAsChosen, StartedAsShown, Started
    <2> DEFINE S == {r \in starts : r.phase \in {"flush", "sent"}}
    <2>2. \A r, q \in S : r = q
      BY <1>2 DEF Guarded, InFlight
    <2>3. Cardinality(S) <= 1
      <3> HIDE DEF S
      <3>1. CASE S = {}
        BY <3>1, FS_EmptySet
      <3>2. CASE S # {}
        <4>1. PICK r : S = {r}
          BY <2>2, <3>2
        <4> QED BY <4>1, FS_Singleton
      <3> QED BY <3>1, <3>2
    <2> QED BY <2>1, <2>3 DEF OneStartAtATime
  <1>3. LaunchInv /\ Guarded => StartsAsReviewed
    BY <1>1, <1>2 DEF StartsAsReviewed
  <1> QED BY <1>3, LaunchStarts, LaunchStays, PTL DEF Spec

-----------------------------------------------------------------------------
(* The frame of the builder *)

DialogNames == StoreDialogNames \cup PageDialogs

\* A service dialog is open exactly while its service is known.
DialogsFit ==
    /\ dialogs \subseteq DialogNames
    /\ config \in {Nothing} \cup Workflows /\ (config # Nothing) = ("config" \in dialogs)

\* What each user saw last is what the browser would read back.
PreferencesStored ==
    /\ stored \in [Users -> Experiences \cup {Nothing}]
    /\ picked \in [Users -> Experiences]
    /\ Storage => \A u \in Users : picked[u] = ReadBuilderExperience(u)

ShellInv ==
    /\ user \in Users /\ here \in Workflows
    /\ mode \in {"guided", "expert"} /\ dismissed \in BOOLEAN
    /\ stage \in StageNames
    /\ DialogsFit
    /\ configure \in BOOLEAN /\ (configure => CanEdit)
    /\ PreferencesStored
    /\ PreferencesRemembered

\* The names of the dialogs and of the stages, spelled out.
LEMMA Names ==
    /\ StoreDialogNames = {"shortcuts", "scenarios", "drawer", "config"}
    /\ StageNames = {"services", "connections", "scenarios", "review"}
  <1>1. /\ StoreDialogs[1] = "shortcuts" /\ StoreDialogs[2] = "scenarios"
        /\ StoreDialogs[3] = "drawer" /\ StoreDialogs[4] = "config"
    BY DEF StoreDialogs
  <1>2. /\ Stages[1] = "services" /\ Stages[2] = "connections"
        /\ Stages[3] = "scenarios" /\ Stages[4] = "review"
    BY DEF Stages
  <1>3. 1..4 = {1, 2, 3, 4}
    OBVIOUS
  <1> QED BY <1>1, <1>2, <1>3 DEF StoreDialogNames, StageNames

\* What a user reads back.
LEMMA ReadBack ==
    ASSUME ShellInv, NEW u \in Users
    PROVE  ReadBuilderExperience(u) \in Experiences
  <1>1. DefaultExperience \in Experiences
    BY DEF DefaultExperience, Experiences
  <1> QED BY <1>1 DEF ShellInv, PreferencesStored, ReadBuilderExperience, StorageKey

\* A change of mode or checklist.
LEMMA ShowKeeps ==
    ASSUME ShellInv, NEW prefs \in Experiences, Show(prefs), Frame, UNCHANGED <<stage, dialogs>>
    PROVE  ShellInv'
  <1>1. /\ mode' = prefs.mode /\ dismissed' = prefs.dismissed
        /\ picked' = [picked EXCEPT ![user] = prefs]
        /\ stored' = IF Storage THEN [stored EXCEPT ![user] = prefs] ELSE stored
        /\ UNCHANGED <<user, here, config, configure, stage, dialogs>>
    BY DEF Show, Persist, StorageKey, Frame
  <1>2. mode' \in {"guided", "expert"} /\ dismissed' \in BOOLEAN /\ prefs # Nothing
    BY <1>1, ShellAssumption DEF Experiences
  <1>3. stored' \in [Users -> Experiences \cup {Nothing}] /\ picked' \in [Users -> Experiences]
    BY <1>1 DEF ShellInv, PreferencesStored
  <1>4. ASSUME Storage, NEW u \in Users
        PROVE  picked'[u] = ReadBuilderExperience(u)'
    <2>1. picked[u] = ReadBuilderExperience(u)
      BY <1>4 DEF ShellInv, PreferencesStored
    <2>2. CASE u = user
      <3>1. picked'[u] = prefs /\ stored'[u] = prefs
        BY <1>1, <1>4, <2>2 DEF ShellInv, PreferencesStored
      <3> QED BY <1>2, <3>1 DEF ReadBuilderExperience, StorageKey
    <2>3. CASE u # user
      <3>1. picked'[u] = picked[u] /\ stored'[u] = stored[u]
        BY <1>1, <1>4, <2>3 DEF ShellInv, PreferencesStored
      <3> QED BY <2>1, <3>1 DEF ReadBuilderExperience, StorageKey, DefaultExperience
    <2> QED BY <2>2, <2>3
  <1>5. PreferencesStored'
    BY <1>3, <1>4 DEF PreferencesStored
  <1>6. PreferencesRemembered'
    <2>1. picked'[user'] = prefs
      BY <1>1 DEF ShellInv, PreferencesStored
    <2> QED BY <1>1, <2>1 DEF PreferencesRemembered
  <1>7. DialogsFit'
    BY <1>1 DEF ShellInv, DialogsFit
  <1>8. configure' \in BOOLEAN /\ (configure' => CanEdit') /\ stage' \in StageNames /\ user' \in Users /\ here' \in Workflows
    BY <1>1 DEF ShellInv, CanEdit
  <1> QED BY <1>2, <1>5, <1>6, <1>7, <1>8 DEF ShellInv

\* What changes the page and nothing that is stored.
LEMMA PageKeeps ==
    ASSUME ShellInv, UNCHANGED <<user, here, mode, dismissed, stored, picked>>,
           stage' \in StageNames, DialogsFit', configure' \in BOOLEAN, configure' => CanEdit
    PROVE  ShellInv'
  <1>1. PreferencesStored' /\ PreferencesRemembered'
    BY DEF ShellInv, PreferencesStored, PreferencesRemembered, ReadBuilderExperience, StorageKey,
           DefaultExperience
  <1> QED BY <1>1 DEF ShellInv, CanEdit

\* Opening a dialog other than a service's, and closing any.
LEMMA OpenFits ==
    ASSUME DialogsFit, NEW d \in DialogNames \ {"config"}, dialogs' = dialogs \cup {d}, config' = config
    PROVE  DialogsFit'
  BY DEF DialogsFit

\* Closing a dialog keeps the node dialog and the workflow it belongs to together.
LEMMA CloseFits ==
    ASSUME DialogsFit, NEW d, CloseOne(d)
    PROVE  DialogsFit'
  BY DEF DialogsFit, CloseOne

\* A shortcut opens and closes dialogs of the builder, and keeps those two together as well.
LEMMA HandlerFits ==
    ASSUME DialogsFit, NEW id, Handler(id)
    PROVE  DialogsFit'
  <1>1. PICK first : first = CHOOSE i \in {k \in 1..4 : StoreDialogs[k] \in dialogs} :
                               \A j \in {k \in 1..4 : StoreDialogs[k] \in dialogs} : i <= j
    OBVIOUS
  <1>2. \/ \E d \in {"drawer", "run", "shortcuts"} : Open(d) /\ UNCHANGED config
        \/ CloseOne("shortcuts") \/ CloseOne(StoreDialogs[first])
        \/ UNCHANGED <<dialogs, config>>
    BY <1>1 DEF Handler
  <1>3. CASE \E d \in {"drawer", "run", "shortcuts"} : Open(d) /\ UNCHANGED config
    BY <1>3, OpenFits, Names DEF Open, DialogNames, PageDialogs
  <1>4. CASE UNCHANGED <<dialogs, config>>
    BY <1>4 DEF DialogsFit
  <1> QED BY <1>2, <1>3, <1>4, CloseFits

\* Changing the mode or the checklist stores what is shown.
LEMMA ModesKeep ==
    ASSUME ShellInv,
           (\E m \in {"guided", "expert"} : SetMode(m)) \/ DismissChecklist \/ ShowGuidedChecklist
    PROVE  ShellInv'
  <1>1. \A m \in {"guided", "expert"}, d \in BOOLEAN : [mode |-> m, dismissed |-> d] \in Experiences
    BY DEF Experiences
  <1>2. mode \in {"guided", "expert"} /\ dismissed \in BOOLEAN
    BY DEF ShellInv
  <1>3. ASSUME NEW m \in {"guided", "expert"}, SetMode(m)
        PROVE  ShellInv'
    BY <1>1, <1>2, <1>3, ShowKeeps DEF SetMode
  <1>4. CASE DismissChecklist
    BY <1>1, <1>2, <1>4, ShowKeeps DEF DismissChecklist
  <1>5. CASE ShowGuidedChecklist
    BY <1>1, <1>5, ShowKeeps DEF ShowGuidedChecklist, DefaultExperience
  <1> QED BY <1>3, <1>4, <1>5

\* Walking through the stages.
LEMMA StagesKeep ==
    ASSUME ShellInv,
           \/ Back \/ Continue
           \/ \E s \in StageNames : OpenStage(s)
           \/ \E error \in {"edge", "test", "other"} : OpenError(error)
    PROVE  ShellInv'
  <1>1. ASSUME NEW s \in StageNames, GoTo(s)
        PROVE  ShellInv'
    <2>1. /\ stage' = s /\ UNCHANGED <<user, here, mode, dismissed, stored, picked>>
          /\ UNCHANGED <<dialogs, config, configure>>
      BY <1>1 DEF GoTo, Frame
    <2>2. DialogsFit' /\ configure' \in BOOLEAN /\ (configure' => CanEdit)
      BY <2>1 DEF ShellInv, DialogsFit
    <2> QED BY <2>1, <2>2, PageKeeps
  <1>2. StageIndex \in 1..4
    BY DEF ShellInv, StageNames, StageIndex
  <1>3. CASE Back
    <2>1. StageIndex - 1 \in 1..4
      BY <1>2, <1>3 DEF Back
    <2> QED BY <1>1, <1>3, <2>1 DEF Back, StageNames
  <1>4. CASE Continue
    <2>1. StageIndex + 1 \in 1..4
      BY <1>2, <1>4 DEF Continue
    <2> QED BY <1>1, <1>4, <2>1 DEF Continue, StageNames
  <1>5. ASSUME NEW error \in {"edge", "test", "other"}, OpenError(error)
        PROVE  ShellInv'
    <2>1. ErrorStage(error) \in StageNames
      BY Names DEF ErrorStage
    <2> QED BY <1>1, <1>5, <2>1 DEF OpenError
  <1> QED BY <1>1, <1>3, <1>4, <1>5 DEF OpenStage

\* Opening and closing dialogs with the pointer.
LEMMA DialogActionsKeep ==
    ASSUME ShellInv,
           \/ OpenDrawer \/ OpenNodeConfig \/ OpenScenarios \/ OpenShortcuts
           \/ \E d \in PageDialogs : OpenPageDialog(d)
           \/ Configure \/ Journey \/ FocusServices \/ ClearScenarioFocus
           \/ \E d \in dialogs : CloseOpen(d)
    PROVE  ShellInv'
  <1>1. UNCHANGED <<user, here, mode, dismissed, stored, picked, stage>>
    BY DEF OpenDrawer, OpenNodeConfig, OpenScenarios, OpenShortcuts, OpenPageDialog, Configure, Journey,
           FocusServices, ClearScenarioFocus, CloseOpen, Buttons
  <1>2. configure' \in BOOLEAN /\ (configure' => CanEdit)
    <2>1. configure' = configure \/ configure' = FALSE \/ (configure' = TRUE /\ CanEdit)
      BY DEF OpenDrawer, OpenNodeConfig, OpenScenarios, OpenShortcuts, OpenPageDialog, Configure, Journey,
             FocusServices, ClearScenarioFocus, CloseOpen, Buttons
    <2>2. configure \in BOOLEAN /\ (configure => CanEdit)
      BY DEF ShellInv
    <2>3. CASE configure' = configure
      BY <2>2, <2>3
    <2>4. CASE configure' = FALSE
      BY <2>4
    <2>5. CASE configure' = TRUE /\ CanEdit
      BY <2>5
    <2> QED BY <2>1, <2>3, <2>4, <2>5
  <1>3. DialogsFit
    BY DEF ShellInv
  <1>4. DialogsFit'
    <2>1. CASE OpenDrawer \/ OpenScenarios \/ OpenShortcuts
      BY <1>3, <2>1, OpenFits, Names DEF OpenDrawer, OpenScenarios, OpenShortcuts, Open, DialogNames
    <2>2. ASSUME NEW d \in PageDialogs, OpenPageDialog(d)
          PROVE  DialogsFit'
      <3>1. d \in DialogNames \ {"config"} /\ dialogs' = dialogs \cup {d} /\ config' = config
        BY <2>2 DEF DialogNames, PageDialogs, OpenPageDialog, Open
      <3> QED BY <1>3, <3>1, OpenFits
    <2>3. CASE OpenNodeConfig
      <3>1. dialogs' = dialogs \cup {"config"} /\ config' = here /\ here \in Workflows /\ here # Nothing
        BY <2>3, ShellAssumption DEF OpenNodeConfig, Open, ShellInv
      <3>2. "config" \in DialogNames
        BY Names DEF DialogNames
      <3> QED BY <1>3, <3>1, <3>2 DEF DialogsFit
    <2>4. CASE Configure \/ Journey \/ ClearScenarioFocus
      BY <1>3, <2>4 DEF Configure, Journey, ClearScenarioFocus, DialogsFit
    <2>5. CASE FocusServices
      BY <1>3, <2>5 DEF FocusServices, DialogsFit
    <2>6. CASE \E d \in dialogs : CloseOpen(d)
      BY <1>3, <2>6, CloseFits DEF CloseOpen
    <2> QED BY <2>1, <2>2, <2>3, <2>4, <2>5, <2>6
  <1>5. stage' \in StageNames
    BY <1>1 DEF ShellInv
  <1> QED BY <1>1, <1>2, <1>4, <1>5, PageKeeps

\* Keys, whether they are a shortcut or not.
LEMMA KeysKeep ==
    ASSUME ShellInv, (\E id \in DOMAIN Shortcuts : PressShown(id)) \/ \E event : PressKey(event)
    PROVE  ShellInv'
  <1>1. UNCHANGED <<user, here, mode, dismissed, stored, picked, stage, configure>>
    BY DEF PressShown, PressKey, Buttons
  <1>2. (\E id : Handler(id)) \/ UNCHANGED <<dialogs, config>>
    BY DEF PressShown, PressKey
  <1>3. DialogsFit'
    BY <1>2, HandlerFits DEF ShellInv, DialogsFit
  <1>4. stage' \in StageNames /\ configure' \in BOOLEAN /\ (configure' => CanEdit)
    BY <1>1 DEF ShellInv
  <1> QED BY <1>1, <1>3, <1>4, PageKeeps

\* Another workflow or another account: preferences are read back, dialogs may stay open.
LEMMA VisitsKeep ==
    ASSUME ShellInv, (\E w \in Workflows : Visit(w)) \/ \E u \in Users : SignIn(u)
    PROVE  ShellInv'
  <1>1. PICK u \in Users, w \in Workflows, kept \in SUBSET dialogs : Mount(u, w, kept)
    BY DEF Visit, SignIn, ShellInv
  <1>2. PICK prefs \in Experiences : prefs = ReadBuilderExperience(u)
    BY ReadBack
  <1>3. /\ user' = u /\ here' = w /\ mode' = prefs.mode /\ dismissed' = prefs.dismissed
        /\ stage' = "services" /\ configure' = FALSE /\ dialogs' = kept
        /\ config' = (IF "config" \in kept THEN config ELSE Nothing)
        /\ UNCHANGED <<stored, picked>>
    BY <1>1, <1>2 DEF Mount
  <1>4. mode' \in {"guided", "expert"} /\ dismissed' \in BOOLEAN /\ stage' \in StageNames
    BY <1>3, Names DEF Experiences
  <1>5. DialogsFit'
    BY <1>3 DEF ShellInv, DialogsFit
  <1>6. PreferencesStored'
    BY <1>3 DEF ShellInv, PreferencesStored, ReadBuilderExperience, StorageKey, DefaultExperience
  <1>7. PreferencesRemembered'
    BY <1>2, <1>3 DEF ShellInv, PreferencesStored, PreferencesRemembered
  <1> QED BY <1>3, <1>4, <1>5, <1>6, <1>7 DEF ShellInv

\* Whoever signs in, however often and with whatever left open, finds the mode and the checklist as
\* they left them, and no dialog their role may not use (useBuilderExperience.ts, ScenarioDialog.tsx).
THEOREM FrameFitsUser == ShellSpec => []ShellFitsUser
  <1>1. ShellInit => ShellInv
    <2> SUFFICES ASSUME ShellInit
                 PROVE  ShellInv
      OBVIOUS
    <2>1. DefaultExperience \in Experiences /\ DefaultExperience.mode = "guided" /\ DefaultExperience.dismissed = FALSE
      BY DEF DefaultExperience, Experiences
    <2>2. PreferencesStored
      BY <2>1 DEF ShellInit, PreferencesStored, ReadBuilderExperience, StorageKey
    <2>3. PreferencesRemembered
      BY <2>1 DEF ShellInit, PreferencesRemembered
    <2>4. DialogsFit
      BY DEF ShellInit, DialogsFit
    <2>5. stage \in StageNames /\ mode \in {"guided", "expert"} /\ dismissed \in BOOLEAN
      BY Names DEF ShellInit
    <2> QED BY <2>2, <2>3, <2>4, <2>5 DEF ShellInit, ShellInv
  <1>2. ShellInv /\ [ShellNext]_shellVars => ShellInv'
    <2> SUFFICES ASSUME ShellInv, [ShellNext]_shellVars
                 PROVE  ShellInv'
      OBVIOUS
    <2>1. CASE UNCHANGED shellVars
      <3>1. UNCHANGED <<user, here, mode, dismissed, stored, picked>> /\ UNCHANGED <<stage, dialogs, config, configure>>
        BY <2>1 DEF shellVars
      <3>2. stage' \in StageNames /\ DialogsFit' /\ configure' \in BOOLEAN /\ (configure' => CanEdit)
        BY <3>1 DEF ShellInv, DialogsFit
      <3> QED BY <3>1, <3>2, PageKeeps
    <2>2. CASE ShellNext
      BY <2>2, ModesKeep, StagesKeep, DialogActionsKeep, KeysKeep, VisitsKeep DEF ShellNext
    <2> QED BY <2>1, <2>2
  <1>3. ShellInv => ShellFitsUser
    <2> SUFFICES ASSUME ShellInv
                 PROVE  ShellFitsUser
      OBVIOUS
    <2>1. ShellTypeOK /\ PreferencesRemembered
      BY DEF ShellInv, ShellTypeOK, DialogsFit, DialogNames
    <2>2. DialogsRespectRole
      BY DEF ShellInv, DialogsRespectRole, Editing
    <2> QED BY <2>1, <2>2 DEF ShellFitsUser
  <1> QED BY <1>1, <1>2, <1>3, PTL DEF ShellSpec

=============================================================================
