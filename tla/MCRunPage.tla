----------------------------- MODULE MCRunPage -----------------------------
(* Small instances of RunView and RunCockpit.  A behaviour has one setting: *)
(*   streamed  the page's status changes close and open the event stream    *)
(*   dropped   the event stream is lost as well                             *)
(*   faulty    there is no stream, and a request fails                      *)
(*   visited   there is no stream, and the page is opened twice             *)
(*   clicked   the user refreshes and loads earlier events                  *)
(*   cancelled the user cancels, and the worker may give up                 *)
(*   fair      nothing fails and everybody is fair                          *)
(*   panels    the panels of the page alone: two scenarios whose tests have *)
(*             the same name, a service of each, a failing test of each and *)
(*             a failure that belongs to no scenario                        *)
(* The constants of the configurations are the widest of all settings.      *)
EXTENDS RunView, RunCockpit, TLC

CONSTANTS s1, s2, db, web

VARIABLE setting

MCLanes == <<s1, s2>>
MCServices == {db, web}
D1 == [scenario |-> s1, test |-> s1, name |-> "login", service |-> db, stage |-> "execution"]
D2 == [scenario |-> s2, test |-> s2, name |-> "login", service |-> web, stage |-> "provision"]
D0 == [scenario |-> None, test |-> None, name |-> None, service |-> None, stage |-> "queue"]
MCDiagnostics == {D0, D1, D2}
MCJournal == <<
    [scenario |-> s2, stage |-> "provision", status |-> "failed", service |-> web, diagnostic |-> D2],
    [scenario |-> s1, stage |-> "cleanup", status |-> "running", service |-> db, diagnostic |-> None],
    [scenario |-> None, stage |-> "queue", status |-> "failed", service |-> None, diagnostic |-> D0] >>
SmallDiagnostics == {D1, D2}
SmallJournal == SubSeq(MCJournal, 1, 2)
MCTestName == [s \in {s1, s2} |-> "login"]
MCTestService == s1 :> db @@ s2 :> web

mcVars == <<vars, cockpitVars, setting>>

Streamed == INSTANCE RunView WITH
    MaxActivities <- 0, MaxFailures <- 0, MaxRetries <- 0, MaxCancels <- 0,
    MaxClicks <- 0, MaxVisits <- 1, MaxDrops <- 0, Outcomes <- {"passed"}, WorkerFails <- FALSE

Dropped == INSTANCE RunView WITH
    MaxActivities <- 0, MaxFailures <- 0, MaxRetries <- 0, MaxCancels <- 0,
    MaxClicks <- 0, MaxVisits <- 1, Outcomes <- {}, WorkerFails <- FALSE

Faulty == INSTANCE RunView WITH
    MaxActivities <- 0, MaxCancels <- 0, MaxClicks <- 0, MaxVisits <- 1, MaxDrops <- 0,
    Outcomes <- {"passed"}, Streaming <- FALSE, WorkerFails <- FALSE

Visited == INSTANCE RunView WITH
    MaxActivities <- 0, MaxFailures <- 0, MaxRetries <- 0, MaxCancels <- 0, MaxClicks <- 0,
    MaxDrops <- 0, Outcomes <- {"failed"}, Streaming <- FALSE, WorkerFails <- FALSE

Clicked == INSTANCE RunView WITH
    PageSize <- 1, MaxFailures <- 0, MaxRetries <- 0, MaxCancels <- 0, MaxVisits <- 1,
    MaxDrops <- 0, Outcomes <- {}, Streaming <- FALSE

Cancelled == INSTANCE RunView WITH
    PageSize <- 1, MaxActivities <- 0, MaxFailures <- 0, MaxRetries <- 0, MaxClicks <- 0,
    MaxVisits <- 1, MaxDrops <- 0, Outcomes <- {}, Streaming <- FALSE

Fair == INSTANCE RunView WITH
    PageSize <- 9, MaxActivities <- 0, MaxFailures <- 0, MaxRetries <- 0, MaxCancels <- 0,
    MaxClicks <- 0, MaxVisits <- 1, MaxDrops <- 0, Outcomes <- {}, WorkerFails <- FALSE

----------------------------------------------------------------------------
(* Safety.                                                                  *)

MCInit ==
    /\ CockpitInit
    /\ \/ setting = "streamed" /\ Streamed!Init
       \/ setting = "dropped" /\ Dropped!Init
       \/ setting = "faulty" /\ Faulty!Init
       \/ setting = "visited" /\ Visited!Init
       \/ setting = "clicked" /\ Clicked!Init
       \/ setting = "cancelled" /\ Cancelled!Init
       \/ setting = "panels" /\ Init

Panels == setting = "panels" /\ CockpitNext /\ UNCHANGED <<vars, setting>>

MCNext ==
    \/ /\ \/ setting = "streamed" /\ Streamed!Next
          \/ setting = "dropped" /\ Dropped!Next
          \/ setting = "faulty" /\ Faulty!Next
          \/ setting = "visited" /\ Visited!Next
          \/ setting = "clicked" /\ Clicked!Next
          \/ setting = "cancelled" /\ Cancelled!Next
       /\ UNCHANGED <<cockpitVars, setting>>
    \/ Panels

MCSpec == MCInit /\ [][MCNext]_mcVars

\* No event is applied twice in one visit (AppliedOnce), and none is left behind the cursor
\* (CursorCovers) where no request fails and the page is opened once: a page that is loaded
\* again after an error, or an answer to an earlier mount, may leave events behind.
AppliedExactlyOnce ==
    /\ RunViewTypeOK /\ AppliedOnce
    /\ setting \notin {"visited", "faulty"} => CursorCovers

\* The panels agree with the run and with each other: a run that has ended is shown with
\* nothing left running (NothingLeftRunning, EndedRunAtRest) and as it ended (SettledAgrees)
\* unless the user cancels, whose answer may come last; the inspector shows a diagnostic of
\* the scenario that is selected (InspectorAgrees).
PanelsAgree ==
    /\ CockpitTypeOK /\ NothingLeftRunning /\ EndedRunAtRest /\ InspectorAgrees
    /\ setting # "cancelled" => SettledAgrees

----------------------------------------------------------------------------
(* Liveness.                                                                *)

FairInit ==
    /\ CockpitInit
    /\ \/ setting = "fair" /\ Fair!Init
       \/ setting = "panels" /\ Init

FairStep(A) == setting = "fair" /\ A /\ UNCHANGED <<cockpitVars, setting>>

FairNext == FairStep(Fair!Next) \/ Panels

\* Fairness of both modules.
SettlesSpec ==
    /\ FairInit /\ [][FairNext]_mcVars
    /\ WF_mcVars(FairStep(Fair!Runner)) /\ WF_mcVars(FairStep(Fair!Commit))
    /\ SF_mcVars(FairStep(Fair!Poll)) /\ WF_mcVars(FairStep(Fair!Answered))
    /\ WF_mcVars(FairStep(Fair!Stream))
    /\ WF_mcVars(setting = "panels" /\ Effects /\ UNCHANGED <<vars, setting>>)

\* The page settles after the run, and the panels after every click and update: no effect
\* sets off another for ever (Settles, EffectsSettle).
PageSettles == Settles /\ (setting = "panels" => EffectsSettle)
=============================================================================
