---------------------------- MODULE MCRunLaunch -----------------------------
(* Small instances of RunLaunch and of BuilderShell, the frame around it.  *)
(* A behaviour is about one of the two:                                    *)
(*   launch   one author makes two edits and starts two runs, or           *)
(*            hydrations arrive and the page is left during a start        *)
(*   shell    an editor and a runner share the browser                     *)
EXTENDS RunLaunch, BuilderShell

VARIABLE setting

mcVars == <<vars, shellVars, setting>>

MCMaxEdits == [a \in BOOLEAN |-> IF a THEN 2 ELSE 1]

MCMaxStarts == [a \in BOOLEAN |-> IF a THEN 2 ELSE 1]

\* The part that rests has one state.
MCInit ==
  /\ Init /\ ShellInit
  /\ \/ setting = "launch" /\ user = (CHOOSE u \in Users : TRUE) /\ here = (CHOOSE w \in Workflows : TRUE)
     \/ setting = "shell" /\ alone /\ queue = {} /\ scen = [s \in Scenarios |-> "app"]

MCNext ==
  \/ setting = "launch" /\ Next /\ UNCHANGED <<setting, shellVars>>
  \/ setting = "shell" /\ ShellNext /\ UNCHANGED <<setting, vars>>

MCSpec == MCInit /\ [][MCNext]_mcVars
=============================================================================
