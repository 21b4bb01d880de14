---------------------------- MODULE ServiceClosure ----------------------------
(***************************************************************************)
(* What "select only test targets and their readiness closure" promises: a *)
(* set of services that grows from nothing, by a target or by a dependency *)
(* of a member, and that is announced only once nothing is missing.        *)
(***************************************************************************)
EXTENDS ServiceGraph

CONSTANT Names

VARIABLES deps, targets, required, done

vars == <<deps, targets, required, done>>

Init ==
  /\ deps \in [Names -> SUBSET Names]
  /\ targets \in SUBSET Names
  /\ required = {}
  /\ done = FALSE

Wanted == targets \cup UNION {deps[s] : s \in required}

Grow ==
  /\ ~done
  /\ \E s \in Wanted \ required : required' = required \cup {s}
  /\ UNCHANGED <<deps, targets, done>>

Announce ==
  /\ ~done /\ Wanted \subseteq required
  /\ done' = TRUE
  /\ UNCHANGED <<deps, targets, required>>

Next == Grow \/ Announce

Safety == Init /\ [][Next]_vars

Spec == Safety /\ WF_vars(Next)
=============================================================================
