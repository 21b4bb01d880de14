-------------------------- MODULE MCScenarioEditor --------------------------
(* Small instances of ScenarioEditor and of TestForm, the form of one of    *)
(* its rows.  A behaviour has one of four settings:                         *)
(*   local    one author, whose scenarios were made here or by a template   *)
(*            (the constants of the configuration)                          *)
(*   remote   two steps; scenarios come from elsewhere, at any time         *)
(*   form     the form of a step of any kind but document and cache         *)
(*   shared   the form of a document, cache or queue step that another      *)
(*            browser edits as well                                         *)
EXTENDS ScenarioEditor

CONSTANTS t1, t2, s1, s2

VARIABLES
  setting,
  stored, local, draft, unit, present, asserted, made    \* of TestForm

formVars == <<stored, local, draft, unit, present, asserted, made>>

Elsewhere == INSTANCE ScenarioEditor WITH
  Scenarios <- {s1, s2}, Steps <- {t1, t2}, MaxClock <- 2, MaxVersion <- 2, MaxSteps <- 2,
  Needs <- [t \in {t1, t2} |-> Needs[t]], Foreign <- TRUE, Remote <- TRUE

Own == INSTANCE TestForm WITH
  Types <- {"http", "database", "shell", "queue", "delay"},
  Remote <- FALSE, Typed <- {100, 120}, MaxSteps <- 2

Shared == INSTANCE TestForm WITH
  Types <- {"document", "cache", "queue"}, Remote <- TRUE, Typed <- {0, 1}, MaxSteps <- 2

\* one dependency, as in the template whose read depends on its write
MCNeeds == [t \in Steps |-> IF t = t2 THEN {t1} ELSE {}]
MCServiceTypes == {"nginx", "redis"}

\* a scenario editor, a form that nothing happens to
EditorRests ==
  /\ scenarios = [s \in Scenarios |-> None] /\ used = {}
  /\ active = None /\ chosen = None /\ activeTestId = None
  /\ expandedTests = {} /\ clock = 0

FormRests == Own!FormInit /\ stored.type = "http"

MCInit ==
  \/ setting = "local" /\ Init /\ FormRests
  \/ setting = "remote" /\ Elsewhere!Init /\ FormRests
  \/ setting = "form" /\ Own!FormInit /\ EditorRests
  \/ setting = "shared" /\ Shared!FormInit /\ EditorRests

MCNext ==
  \/ /\ \/ setting = "local" /\ Next
        \/ setting = "remote" /\ Elsewhere!Next
     /\ UNCHANGED <<setting, formVars>>
  \/ /\ \/ setting = "form" /\ Own!FormNext
        \/ setting = "shared" /\ Shared!FormNext
     /\ UNCHANGED <<setting, vars>>

MCSpec == MCInit /\ [][MCNext]_<<vars, formVars, setting>>

\* A run has each step once and in the order of the journey (RunsEachOnce,
\* JourneyRunsAlike), which is the order shown unless scenarios come from elsewhere with an
\* order of their own (ShownOrderRuns).
RunOrderAgrees ==
  /\ ScenarioTypeOK /\ RunsEachOnce /\ JourneyRunsAlike
  /\ setting = "local" => ShownOrderRuns

\* TestForm: a step runs as its form says.  It is repeated only as the author confirmed and
\* the form describes, fails validation when it refers to a removed service, and asserts
\* what is shown, for the kinds of step whose defaults the form and the executor share.
FormTellsTruth ==
  /\ IF setting = "shared" THEN Shared!FormTypeOK ELSE Own!FormTypeOK
  /\ Own!RetriedAsConfirmed /\ Own!RetryAsDescribed /\ Own!FlaggedForRepair
  /\ setting = "form" => Own!ShownIsRun
=============================================================================
