------------------------- MODULE MCWorkflowVersions -------------------------
(* Small instances of saved versions: one workflow and one scenario.       *)
(* A behaviour has one of two settings:                                    *)
(*   shared   two browsers save and restore; requests are lost (the        *)
(*            constants of the configuration)                              *)
(*   alone    one user, who waits for the dialog                           *)
EXTENDS WorkflowVersions

VARIABLE setting

mcVars == <<vars, setting>>

Alone == INSTANCE WorkflowVersions WITH
  Clients <- {CHOOSE c \in Clients : TRUE}, MaxEdits <- 3, MaxJobs <- 3, Faulty <- FALSE, Patient <- TRUE

MCInit ==
  \/ setting = "shared" /\ Init
  \/ setting = "alone" /\ Alone!Init

MCNext ==
  /\ \/ setting = "shared" /\ Next
     \/ setting = "alone" /\ Alone!Next
  /\ UNCHANGED setting

\* Fairness of WorkflowVersions.
MCSpec ==
  /\ MCInit /\ [][MCNext]_mcVars
  /\ \A c \in Clients : WF_mcVars(setting = "shared" /\ JobStep(c) /\ UNCHANGED setting)

\* DialogNotStuck for the two browsers, whatever is lost.
SharedDialogNotStuck ==
  \A c \in Clients : (setting = "shared" /\ job[c] # None) ~> (setting = "shared" => job[c] = None)

=============================================================================
