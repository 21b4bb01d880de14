---------------------------- MODULE Provisioning ----------------------------
(***************************************************************************)
(* One orchestrator of the runner (runner-v2/pkg/orchestrator): it brings  *)
(* up the services of one scenario level by level, one goroutine for each  *)
(* service of a level, and takes them down again.                          *)
(*                                                                         *)
(* A request is either a drawn workflow, which the runner validates and    *)
(* translates first (ServiceGraph.tla), or a list of services posted to    *)
(* the scenario API, whose dependencies nobody looks at.  `request' has    *)
(*   cfg    service name -> its dependencies and references                *)
(*   drawn  the workflow it was translated from, None for a posted list    *)
(* Docker is external: a container of a service is absent, running or      *)
(* exited, it may exit at any time, and a network with a running container *)
(* on it cannot be removed.                                                *)
(***************************************************************************)
EXTENDS ServiceGraph, Naturals

CONSTANTS
  Workflows,  \* the drawn workflows that may be run
  Posted,     \* the lists of services that may be posted
  None        \* no workflow

ASSUME WorkflowsAssumption ==
  /\ None \notin Workflows
  /\ \A w \in Workflows : \A n \in w.nodes : \A r \in w.refs[n] : r.form \in Forms

VARIABLES
  request,    \* the services to provision
  phase,      \* where ProvisionServices or CleanUp is
  level,      \* the services of the level that is being provisioned
  visited,    \* the services of the levels that are done
  pc,         \* where the goroutine of each service is
  registry,   \* RuntimeRegsitry.services: a plain map, shared by the goroutines
  held,       \* Orchestrator.containers: the containers CleanUp knows of
  container,  \* what Docker has of each service
  network,    \* the Docker network: "none", "up" or "gone"
  todo,       \* CleanUp: the containers still to be terminated
  attempt,    \* the attempts at CleanUp so far
  failures    \* what was reported: "sort", "reference", "provider", "cleanup"

vars == <<request, phase, level, visited, pc, registry, held, container, network, todo,
          attempt, failures>>

steps == <<level, visited, pc>>
cleaning == <<todo, attempt>>

Cfg == request.cfg
Services == DOMAIN Cfg
DependsOn(s) == Cfg[s].dependsOn
EnvRefs(s) == {r.name : r \in {x \in Cfg[s].refs : x.place = "env"}}

ConfigByName(services) ==
  [s \in {c.name : c \in services} |-> CHOOSE c \in services : c.name = s]

Fresh(cfg, drawn) ==
  /\ request = [cfg |-> cfg, drawn |-> drawn]
  /\ phase = IF drawn = None THEN "images" ELSE "submitted"
  /\ pc = [s \in DOMAIN cfg |-> "idle"]
  /\ container = [s \in DOMAIN cfg |-> "none"]

Init ==
  /\ \/ \E w \in Workflows :
          \E targets \in SUBSET SanitizedNames(w) \ {{}} :
             Fresh(ConfigByName(TranslateScenarioToExecutionBundle(
                                  TranslateWorkflowGraphToServiceGraph(w), targets)), w)
     \/ \E cfg \in Posted : Fresh(cfg, None)
  /\ level = {} /\ visited = {} /\ registry = {} /\ held = {} /\ todo = {} /\ attempt = 0
  /\ network = "none"
  /\ failures = {}

\* The bundle is validated before it is translated; a refused one is never provisioned.
ValidateBundle ==
  /\ phase = "submitted"
  /\ phase' = IF RunnerValidates(request.drawn) THEN "images" ELSE "refused"
  /\ UNCHANGED <<request, steps, registry, held, container, network, failures, cleaning>>

\* prepareRegistryImages pulls the images of private registries, one after the other.
PrepareRegistryImages ==
  /\ phase = "images"
  /\ phase' \in {"network", "failed"}
  /\ UNCHANGED <<request, steps, registry, held, container, network, failures, cleaning>>

CreateNetwork ==
  /\ phase = "network"
  /\ \/ phase' = "sort" /\ network' = "up"
     \/ phase' = "failed" /\ UNCHANGED network
  /\ UNCHANGED <<request, steps, registry, held, container, failures, cleaning>>

\* detectCycles also reports a dependency that is not one of the services.
Resolvable ==
  /\ \A s \in Services : DependsOn(s) \subseteq Services
  /\ ~HasCycle([s \in Services |-> DependsOn(s)])

TopologicalSort ==
  /\ phase = "sort"
  /\ IF Resolvable
     THEN phase' = "levels" /\ UNCHANGED failures
     ELSE phase' = "failed" /\ failures' = failures \cup {"sort"}
  /\ UNCHANGED <<request, steps, registry, held, container, network, cleaning>>

\* Mutant: all services that are left start together and wait for each other.
EverythingLeft(done) == Services \ done

\* The services whose dependencies are all in earlier levels.
NextLevel(done) == {s \in Services \ done : DependsOn(s) \subseteq done}

StartLevel ==
  /\ phase = "levels" /\ level = {} /\ visited # Services
  /\ NextLevel(visited) # {}
  /\ level' = NextLevel(visited)
  /\ pc' = [s \in Services |-> IF s \in level' THEN "waiting" ELSE pc[s]]
  /\ UNCHANGED <<request, phase, visited, registry, held, container, network, failures, cleaning>>

Goes(s, to) == pc' = [pc EXCEPT ![s] = to]

\* The wait for the channels of the level, then the provider of the service's type.
WaitForDependencies(s) ==
  /\ pc[s] = "waiting"
  /\ \A d \in DependsOn(s) \cap level : pc[d] = "ready"
  /\ \/ Goes(s, IF EnvRefs(s) = {} THEN "provisioning" ELSE "interpolating") /\ UNCHANGED failures
     \/ Goes(s, "failed") /\ failures' = failures \cup {"provider"}
  /\ UNCHANGED <<request, phase, level, visited, registry, held, container, network, cleaning>>

\* InterpolateEnvVars: every reference must name a registered service; its port or
\* variable may still be missing.
InterpolateEnvVars(s) ==
  /\ pc[s] = "interpolating"
  /\ \/ /\ EnvRefs(s) \subseteq registry
        /\ Goes(s, "provisioning") /\ UNCHANGED failures
     \/ /\ ~(EnvRefs(s) \subseteq registry)
        /\ Goes(s, "failed") /\ failures' = failures \cup {"reference"}
     \/ /\ EnvRefs(s) \subseteq registry
        /\ Goes(s, "failed") /\ failures' = failures \cup {"provider"}
  /\ UNCHANGED <<request, phase, level, visited, registry, held, container, network, cleaning>>

\* A provider that fails returns no container. It may have terminated the one it started,
\* or ignored that this failed, or not have tried.
ProvisionService(s) ==
  /\ pc[s] = "provisioning"
  /\ \/ /\ container' = [container EXCEPT ![s] = "running"]
        /\ held' = held \cup {s}
        /\ Goes(s, "registering") /\ UNCHANGED failures
     \/ /\ \E left \in {"none", "running", "exited"} : container' = [container EXCEPT ![s] = left]
        /\ Goes(s, "failed") /\ failures' = failures \cup {"provider"}
        /\ UNCHANGED held
  /\ UNCHANGED <<request, phase, level, visited, registry, network, cleaning>>

\* Regsiter, and the close of the service's channel.
Register(s) ==
  /\ pc[s] = "registering"
  /\ registry' = registry \cup {s}
  /\ Goes(s, "ready")
  /\ UNCHANGED <<request, phase, level, visited, held, container, network, failures, cleaning>>

\* The registry has no lock. A goroutine that writes the map while another one reads or
\* writes it is a data race, which the Go runtime may answer by ending the process.
RegistryRace(s, t) ==
  /\ s # t
  /\ pc[s] = "registering" /\ pc[t] \in {"registering", "interpolating"}
  /\ phase = "levels"
  /\ phase' = "crashed"
  /\ UNCHANGED <<request, steps, registry, held, container, network, failures, cleaning>>

\* Mutant: the errors of the level are logged and the next level starts.
LevelGoesOn ==
  /\ phase = "levels" /\ level # {}
  /\ \A s \in level : pc[s] \in {"ready", "failed"}
  /\ visited' = visited \cup level /\ level' = {} /\ UNCHANGED phase
  /\ UNCHANGED <<request, pc, registry, held, container, network, failures, cleaning>>

\* wg.Wait returns; the first error of the level ends the provisioning.
LevelDone ==
  /\ phase = "levels" /\ level # {}
  /\ \A s \in level : pc[s] \in {"ready", "failed"}
  /\ level' = {}
  /\ IF \E s \in level : pc[s] = "failed"
     THEN phase' = "failed" /\ UNCHANGED visited
     ELSE visited' = visited \cup level /\ UNCHANGED phase
  /\ UNCHANGED <<request, pc, registry, held, container, network, failures, cleaning>>

Provisioned ==
  /\ phase = "levels" /\ level = {} /\ visited = Services
  /\ phase' = "provisioned"
  /\ UNCHANGED <<request, steps, registry, held, container, network, failures, cleaning>>

\* cleanupWorkflowBundleSession tries this often.
CleanupAttempts == 3

\* The session is terminated, after its tests or after a failed provisioning, and again when
\* that has reported an error: CleanUp then starts over with all its containers.
CleanUp ==
  /\ phase \in {"provisioned", "failed", "again"}
  /\ phase' = "terminating"
  /\ todo' = held
  /\ attempt' = attempt + 1
  /\ failures' = failures \ {"cleanup"}
  /\ UNCHANGED <<request, steps, registry, held, container, network>>

\* A container that is no longer there counts as terminated.
TerminateContainer(s) ==
  /\ phase = "terminating" /\ s \in todo
  /\ todo' = todo \ {s}
  /\ \/ container' = [container EXCEPT ![s] = "none"] /\ UNCHANGED failures
     \/ container[s] # "none" /\ failures' = failures \cup {"cleanup"} /\ UNCHANGED container
  /\ UNCHANGED <<request, phase, steps, registry, held, network, attempt>>

\* Mutant: a network that cannot be removed is left to the janitor.
NetworkRemovalQuiet ==
  /\ network' = IF network = "up" /\ \A s \in Services : container[s] # "running"
                THEN "gone" ELSE network
  /\ UNCHANGED failures

\* A network with a running container on it stays, and one that is gone cannot be removed:
\* o.network is not cleared when it has been.
NetworkRemoval ==
  \/ network = "none" /\ UNCHANGED <<network, failures>>
  \/ /\ network = "up" /\ \A s \in Services : container[s] # "running"
     /\ network' = "gone" /\ UNCHANGED failures
  \/ network # "none" /\ failures' = failures \cup {"cleanup"} /\ UNCHANGED network

RemoveNetwork ==
  /\ phase = "terminating" /\ todo = {}
  /\ NetworkRemoval
  /\ phase' = IF "cleanup" \in failures' /\ attempt < CleanupAttempts THEN "again" ELSE "cleaned"
  /\ UNCHANGED <<request, steps, registry, held, container, cleaning>>

\* The process in a container ends by itself.
ContainerExits(s) ==
  /\ phase \in {"levels", "provisioned", "failed", "terminating", "again"}
  /\ container[s] = "running"
  /\ container' = [container EXCEPT ![s] = "exited"]
  /\ UNCHANGED <<request, phase, steps, registry, held, network, failures, cleaning>>

Goroutine(s) ==
  WaitForDependencies(s) \/ InterpolateEnvVars(s) \/ ProvisionService(s) \/ Register(s)

Orchestrate ==
  \/ ValidateBundle \/ PrepareRegistryImages \/ CreateNetwork \/ TopologicalSort
  \/ StartLevel \/ LevelDone \/ Provisioned
  \/ CleanUp \/ RemoveNetwork

Next ==
  \/ Orchestrate
  \/ \E s \in Services : phase = "levels" /\ Goroutine(s)
  \/ \E s, t \in Services : RegistryRace(s, t)
  \/ \E s \in Services : TerminateContainer(s)
  \/ \E s \in Services : ContainerExits(s)

Spec == Init /\ [][Next]_vars

\* The Go scheduler runs every goroutine, providers answer within the provisioning timeout
\* and Terminate returns; no container has to exit and no race has to be noticed.
FairSpec ==
  /\ Spec
  /\ WF_vars(Orchestrate \/ \E s \in Services : \/ phase = "levels" /\ Goroutine(s)
                                                \/ TerminateContainer(s))

-----------------------------------------------------------------------------

ProvisioningTypeOK ==
  /\ phase \in {"submitted", "refused", "images", "network", "sort", "levels", "provisioned",
                "failed", "crashed", "terminating", "again", "cleaned"}
  /\ level \cup visited \cup registry \cup held \cup todo \subseteq Services
  /\ pc \in [Services -> {"idle", "waiting", "interpolating", "provisioning", "registering",
                          "ready", "failed"}]
  /\ container \in [Services -> {"none", "running", "exited"}]
  /\ network \in {"none", "up", "gone"}
  /\ attempt \in 0 .. CleanupAttempts
  /\ failures \subseteq {"sort", "reference", "provider", "cleanup"}

\* A service is only given to its provider when everything it depends on, at whatever
\* distance, has been registered: provisionlevel runs after the levels below have succeeded
\* as a whole (orchestrator.go:79-84).
DependenciesReadyFirst ==
  \A s \in Services :
     pc[s] \in {"provisioning", "registering", "ready"} =>
        Reachable([t \in Services |-> DependsOn(t)], s) \subseteq registry

\* A list of services with a circular or a missing dependency starts no container at all
\* (orchestrator.go:74-77), however much of it could have been started.
BadGraphStartsNothing ==
  (\E s \in Services : \/ ~(DependsOn(s) \subseteq Services)
                       \/ s \in Reachable([t \in Services |-> DependsOn(t)], s))
     => \A s \in Services : container[s] = "none"

\* Services start in the order of their dependencies, or, where there is no such order, not
\* at all (DependenciesReadyFirst, BadGraphStartsNothing).
StartedInOrder == DependenciesReadyFirst /\ BadGraphStartsNothing

\* What the runner has validated and cut down to a scenario's services always sorts: the
\* subset is closed under depends_on (bundle.go:974-996, scenario-translator.ts:516-539).
DrawnWorkflowSorts == request.drawn # None => "sort" \notin failures

\* A reference to another service of the workflow that is written the way the validation
\* reads it never fails to resolve: the readiness check, the subset and the levels together
\* have registered that service before (bundle.go:803-840, interpolator.go:82-93).
NamedReferencesResolve ==
  "reference" \in failures /\ request.drawn # None =>
     \E n \in request.drawn.nodes : \E r \in request.drawn.refs[n] :
        \/ r.form = "mangled"
        \/ r.name \notin SanitizedNames(request.drawn)
        \/ r.name = request.drawn.name[n]

\* The two validations agree one way: whatever the runner accepts, from an agent or from an
\* import, is runnable in the builder too (bundle.go:361-444, scenario-translator.ts:41-178).
AcceptedIsRunnable ==
  request.drawn # None /\ phase \notin {"submitted", "refused"} => ValidateServices(request.drawn)

\* What the runner accepted is runnable in the builder, sorts, and resolves every reference
\* that is written the way the validation reads it (AcceptedIsRunnable, DrawnWorkflowSorts,
\* NamedReferencesResolve).
AcceptedProvisions ==
  ProvisioningTypeOK /\ AcceptedIsRunnable /\ DrawnWorkflowSorts /\ NamedReferencesResolve

\* After a CleanUp that reports no error, nothing of the scenario runs, no container that
\* was handed to the orchestrator is left in any state, and the network is gone
\* (orchestrator.go:243-288): what a provider left running keeps the network from going.
CleanMeansStopped ==
  phase = "cleaned" /\ "cleanup" \notin failures =>
     /\ \A s \in Services : container[s] # "running"
     /\ \A s \in held : container[s] = "none"
     /\ network # "up"

\* execution-lifecycle.mdx:15: "services within one level can provision concurrently".
\* interpolator.go:12-24 keeps the registry they share in a map without a lock.
LevelsProvisionConcurrently == phase # "crashed"

\* execution-lifecycle.mdx:35: "`cleanup_failed` makes leaked runtime resources visible".
\* generic.go:75-95 returns no container when the service it started has failed.
LeaksVisible ==
  phase = "cleaned" /\ "cleanup" \notin failures => \A s \in Services : container[s] = "none"

\* run-statuses-limits.mdx:14: "`cleanup_failed` | Execution ended but runtime cleanup was
\* incomplete". The network an earlier attempt has removed makes every later one fail.
FailedCleanupLeftSomething ==
  phase = "cleaned" /\ "cleanup" \in failures =>
     network = "up" \/ \E s \in Services : container[s] # "none"

\* execution-lifecycle.mdx:7: "The runner validates the definition again": a workflow that
\* the builder has found valid is not refused. Only bundle.go:383 looks for names that two
\* labels share, and only bundle.go:830 trims the token of a reference.
ValidatedIsAccepted ==
  request.drawn # None /\ phase = "refused" => ~ValidateServices(request.drawn)

\* scenario-translator.test.ts:84 "requires readiness for runtime references": a reference
\* to a service of the workflow that passes the validation finds it registered.
\* normalizeServiceReferences resolves more tokens than the validation looks at.
ReferencesWaitForReadiness ==
  "reference" \in failures /\ request.drawn # None =>
     \E n \in request.drawn.nodes : \E r \in request.drawn.refs[n] :
        \/ r.name \notin SanitizedNames(request.drawn)
        \/ r.name = request.drawn.name[n]

=============================================================================
