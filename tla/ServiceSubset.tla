---------------------------- MODULE ServiceSubset ----------------------------
(***************************************************************************)
(* expandScenarioServiceSubset of scenario-translator.ts, call by call: an *)
(* outer loop over the targets of the scenario's tests and a recursive     *)
(* visit of dependencies.  A frame of the stack is what the loop of one    *)
(* activation of visit has left.  The graph may be circular: the function  *)
(* is called without one being validated (FlowBuilder/index.tsx:252).      *)
(***************************************************************************)
EXTENDS ServiceGraph, Sequences, SequencesExt

CONSTANT Names

VARIABLES
  deps, targets,
  left,       \* the targets the outer loop has not visited
  stack,
  required,   \* the Set that is returned
  returned    \* it has been

subsetVars == <<deps, targets, left, stack, required, returned>>

SubsetInit ==
  /\ deps \in [Names -> SUBSET Names]
  /\ targets \in SUBSET Names
  /\ left = targets
  /\ stack = <<>>
  /\ required = {}
  /\ returned = FALSE

\* visit(serviceName) up to its loop.
Visit(s, under) ==
  IF s \in required
  THEN stack' = under /\ UNCHANGED required
  ELSE /\ required' = required \cup {s}
       /\ stack' = Append(under, deps[s])

\* Mutant: the targets of one test are enough.
VisitOneTarget(s) ==
  /\ stack = <<>> /\ s \in left
  /\ left' = {}
  /\ Visit(s, stack)
  /\ UNCHANGED <<deps, targets, returned>>

VisitTarget(s) ==
  /\ stack = <<>> /\ s \in left
  /\ left' = left \ {s}
  /\ Visit(s, stack)
  /\ UNCHANGED <<deps, targets, returned>>

VisitDependency(s) ==
  /\ stack # <<>> /\ s \in Last(stack)
  /\ Visit(s, [stack EXCEPT ![Len(stack)] = @ \ {s}])
  /\ UNCHANGED <<deps, targets, left, returned>>

VisitReturns ==
  /\ stack # <<>> /\ Last(stack) = {}
  /\ stack' = Front(stack)
  /\ UNCHANGED <<deps, targets, left, required, returned>>

ReturnRequired ==
  /\ stack = <<>> /\ left = {} /\ ~returned
  /\ returned' = TRUE
  /\ UNCHANGED <<deps, targets, left, stack, required>>

SubsetNext == (\E s \in Names : VisitTarget(s) \/ VisitDependency(s)) \/ VisitReturns \/ ReturnRequired

SubsetSpec == SubsetInit /\ [][SubsetNext]_subsetVars /\ WF_subsetVars(SubsetNext)

-----------------------------------------------------------------------------

SubsetTypeOK ==
  /\ left \subseteq targets
  /\ required \subseteq Names
  /\ Len(stack) <= Cardinality(required)
  /\ \A i \in DOMAIN stack : stack[i] \subseteq Names

\* The services returned are the least set with the targets and, for each of them, what it
\* depends on (the Closure that TranslateScenarioToExecutionBundle uses).
SubsetIsClosure ==
  returned => required = ExpandScenarioServiceSubset([serviceDeps |-> deps], targets)

\* Nothing is lost between the loops: what is still missing from the closure is asked for by
\* a target or by a dependency that some activation has not looked at yet.
NothingForgotten ==
  LET pending == left \cup UNION {stack[i] : i \in DOMAIN stack}
  IN  \A s \in required : deps[s] \subseteq required \cup pending

Closed == INSTANCE ServiceClosure WITH done <- returned

\* The recursion implements the abstract growth: it adds only what a target or a member
\* asks for, one service at a time, and never returns early.
ImplementsClosure == Closed!Safety

=============================================================================
