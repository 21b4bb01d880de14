---------------------------- MODULE MCSyncClient ----------------------------
(* Instances of SyncClient, and the ring buffer behind its queue; w1 is the *)
(* workflow of every scenario.  A behaviour has one of six settings:        *)
(*   pages      one browser that is reloaded, hidden or changes the project *)
(*              (the constants of the configuration)                        *)
(*   edits      two browsers that edit and delete the same workflow         *)
(*   unhurried  two browsers whose users wait until their edit is answered  *)
(*   drains     one browser and fair requests                               *)
(*   converges  the same, with a user who waits                             *)
(*   ring       the ring buffer alone                                       *)
EXTENDS SyncClient, FastQueue

CONSTANTS b1, b2, w1, p1

VARIABLE setting

MCWorkflowOf == [s \in Scenarios |-> w1]

Shared == INSTANCE SyncClient WITH
    Browsers <- {b1, b2}, Workflows <- {w1}, Scenarios <- {}, Projects <- {p1},
    BatchSize <- 1, MaxEdits <- 3, OpsPerTick <- 1, MaxReloads <- 0

Unhurried == INSTANCE SyncClient WITH
    Browsers <- {b1, b2}, Workflows <- {w1}, Scenarios <- {}, Projects <- {p1},
    BatchSize <- 1, MaxEdits <- 4, OpsPerTick <- 1, MaxReloads <- 0,
    Outstanding <- 1, Deletes <- FALSE

Drains == INSTANCE SyncClient WITH
    Workflows <- {w1}, Projects <- {p1}, BatchSize <- 3, MaxEdits <- 3, OpsPerTick <- 1,
    MaxReloads <- 0, Outstanding <- 3

Converging == INSTANCE SyncClient WITH
    Workflows <- {w1}, Projects <- {p1}, BatchSize <- 3, MaxEdits <- 4, OpsPerTick <- 1,
    MaxReloads <- 0, Outstanding <- 1, MaxFaults <- 2, Deletes <- FALSE

MCInit ==
    /\ RingInit
    /\ \/ setting \in {"pages", "ring"} /\ Init
       \/ setting = "edits" /\ Shared!Init
       \/ setting = "unhurried" /\ Unhurried!Init
       \/ setting = "drains" /\ Drains!Init
       \/ setting = "converges" /\ Converging!Init

MCNext ==
    \/ /\ \/ setting = "pages" /\ Next
          \/ setting = "edits" /\ Shared!Next
          \/ setting = "unhurried" /\ Unhurried!Next
          \/ setting = "drains" /\ Drains!Next
          \/ setting = "converges" /\ Converging!Next
       /\ UNCHANGED <<setting, ringVars>>
    \/ setting = "ring" /\ RingNext /\ UNCHANGED <<setting, vars>>

mcVars == <<vars, ringVars, setting>>

Fair(A) == setting \in {"drains", "converges"} /\ A /\ UNCHANGED <<setting, ringVars>>

\* Fairness of SyncClient; its actions are the same in both settings.
MCFairness ==
    /\ \A c \in Browsers :
         /\ WF_mcVars(Fair(Drains!Flush(c)))
         /\ WF_mcVars(Fair(Drains!Pull(c) /\ phase[c] # "running"))
         /\ WF_mcVars(Fair(Drains!HydrateFromServer(c)))
         /\ WF_mcVars(Fair(Drains!StartupFlush(c)))
         /\ WF_mcVars(Fair(Drains!StartupFlushed(c)))
    /\ \A n \in RequestIds :
         WF_mcVars(Fair(\E r \in requests :
                           r.n = n /\ (Drains!ProcessBatch(r) \/ Drains!Answered(r))))

MCSpec == MCInit /\ [][MCNext]_mcVars /\ MCFairness

\* No edit is lost without a word: it is stored, queued, under way or knowingly replaced, no
\* batch that is sent again erases it (EditsAccountedFor, ResendsEraseNothing), and where no
\* user edits faster than the browser synchronises every refusal is shown (RefusalsShown).
NoEditLost ==
    /\ SyncTypeOK /\ EditsAccountedFor /\ ResendsEraseNothing
    /\ setting = "unhurried" => RefusalsShown

\* Where requests are answered and promises run, queues drain, and browsers and server
\* converge once the user waits.
FairSyncSettles ==
    /\ (setting = "drains") => QueuesDrain
    /\ (setting = "converges") => Converges
=============================================================================
