----------------------------- MODULE Placement -----------------------------
(***************************************************************************)
(* The placement controller of src/self-hosted/hybrid/automation/          *)
(* controller.py: one process that samples the CPU load of every managed   *)
(* service once per round and moves a service between its container        *)
(* ("iaas") and its function ("faas") with a list of kubectl commands.     *)
(*                                                                         *)
(* Each kubectl command is a step of its own, so that faults, crashes and  *)
(* the cluster's own work interleave with a move.  While calm is FALSE the *)
(* API server may refuse commands or lose their answers and the controller *)
(* may be killed; Deployment/placement-controller starts it again.         *)
(***************************************************************************)
EXTENDS Cluster, Naturals, Sequences

CONSTANTS
  LOW_WINDOWS_TO_FAAS,
  HIGH_WINDOWS_TO_IAAS,
  COOLDOWN,      \* COOLDOWN_SECONDS, in ticks
  Samples        \* what a sample of a backend may yield

ASSUME WindowsAssumption ==
  /\ LOW_WINDOWS_TO_FAAS \in Nat \ {0}
  /\ HIGH_WINDOWS_TO_IAAS \in Nat \ {0}
  /\ COOLDOWN \in Nat
  /\ Samples \subseteq {"low", "high", "missing"}

VARIABLES
  \* the controller's locals, lost when it stops
  pc,            \* where main() is
  todo,          \* services the current for loop has yet to visit
  cur,           \* the service being visited
  target,        \* the backend that the running command list leads to
  step,          \* index of the next command of that list
  state,         \* state[service]: the backend the controller believes in
  low, high,     \* low_windows, high_windows
  cooling,       \* ticks until now - last_switch reaches COOLDOWN_SECONDS
  frozen,        \* services that were cooling when the round read `now`
  \* ghosts, which outlive the process
  resting,       \* ticks until COOLDOWN_SECONDS have passed since the last
                 \* completed move
  forgotten,     \* services whose last completed move a stop has forgotten
                 \* while they were resting
  \* the environment
  cpu,           \* what a sample of the active backend yields
  calm           \* no more faults

ghosts == <<resting, forgotten>>
controllerVars ==
  <<pc, todo, cur, target, step, state, low, high, cooling, frozen, ghosts>>
vars == <<clusterVars, controllerVars, cpu, calm>>

UNSET == "unset"
PCs == {"down", "boot", "reconcile", "round", "loop", "sample", "move"}

TypeOK ==
  /\ ClusterTypeOK
  /\ pc \in PCs
  /\ todo \subseteq Services
  /\ pc \in {"boot", "loop"} => todo # {}
  /\ pc = "down" => todo = Services
  /\ cur \in Services
  /\ pc \in {"reconcile", "sample", "move"} => cur \in todo
  /\ target \in Backend
  /\ step \in 1 .. Len(Plan(target)) + 1
  /\ state \in [Services -> Backend \cup {UNSET}]
  /\ low \in [Services -> 0 .. LOW_WINDOWS_TO_FAAS]
  /\ high \in [Services -> 0 .. HIGH_WINDOWS_TO_IAAS]
  /\ cooling \in [Services -> 0 .. COOLDOWN]
  /\ frozen \subseteq Services
  /\ resting \in [Services -> 0 .. COOLDOWN]
  /\ forgotten \subseteq Services
  /\ cpu \in [Services -> Samples]
  /\ calm \in BOOLEAN

\* service_backend(): NONE when the selector has none of the known forms.
ServiceBackend(s) ==
  IF selector[s].backend \in Backend THEN selector[s].backend
  ELSE selector[s].app

----------------------------------------------------------------------------
Init ==
  /\ ClusterInit
  /\ pc = "boot"
  /\ todo = Services
  /\ cur \in Services
  /\ target = IAAS
  /\ step = 1
  /\ state = [s \in Services |-> UNSET]
  /\ low = [s \in Services |-> 0]
  /\ high = [s \in Services |-> 0]
  /\ cooling = [s \in Services |-> 0]
  /\ frozen = {}
  /\ resting = [s \in Services |-> 0]
  /\ forgotten = {}
  /\ cpu \in [Services -> Samples]
  /\ calm = FALSE

\* Mutants of EndVisit: the end of the loop is missed; the loop is left with
\* a break where the code has a continue.
EndVisitRunsOn(s, looping) ==
  /\ todo' = todo \ {s}
  /\ pc' = looping
  /\ target' = IAAS
  /\ step' = 1
EndVisitBreaks(s, looping) ==
  /\ todo' = IF looping = "loop" THEN {} ELSE todo \ {s}
  /\ pc' = IF todo' = {} THEN "round" ELSE looping
  /\ target' = IAAS
  /\ step' = 1

\* The body of the for loop is over for s, no command list is running; the
\* loop is `looping`.  Its order, that of a dictionary, is left open.
EndVisit(s, looping) ==
  /\ todo' = todo \ {s}
  /\ pc' = IF todo' = {} THEN "round" ELSE looping
  /\ target' = IAAS
  /\ step' = 1

----------------------------------------------------------------------------
(* Startup: reconcile every service to the backend its selector names.     *)

\* Mutant of BootRead: the selector is not looked at.
BootReadIaas(s) ==
  /\ pc = "boot"
  /\ s \in todo
  /\ cur' = s
  /\ target' = IAAS
  /\ step' = 1
  /\ pc' = "reconcile"
  /\ UNCHANGED <<clusterVars, todo, state, low, high, cooling, frozen, ghosts, cpu, calm>>

BootRead(s) ==
  /\ pc = "boot"
  /\ s \in todo
  /\ cur' = s
  /\ target' = IF ServiceBackend(s) = NONE THEN IAAS ELSE ServiceBackend(s)
  /\ step' = 1
  /\ pc' = "reconcile"
  /\ UNCHANGED <<clusterVars, todo, state, low, high, cooling, frozen, ghosts, cpu, calm>>

\* The commands of reconcile_backend, move_to_faas and move_to_iaas.
RunCommand ==
  /\ pc \in {"reconcile", "move"}
  /\ step <= Len(Plan(target))
  /\ Apply(cur, target, Plan(target)[step])
  /\ step' = step + 1
  /\ UNCHANGED <<pc, todo, cur, target, state, low, high, cooling, frozen, ghosts, cpu, calm>>

\* A command raises RuntimeError: of its own when a rollout takes too long,
\* or because of a fault.
CommandRaises ==
  /\ pc \in {"reconcile", "move"}
  /\ step <= Len(Plan(target))
  /\ \/ TimesOut(cur, Plan(target)[step])
     \/ ~ calm /\ Errs(cur, target, Plan(target)[step])

ReconcileDone ==
  /\ pc = "reconcile"
  /\ step > Len(Plan(target))
  /\ state' = [state EXCEPT ![cur] = target]
  /\ EndVisit(cur, "boot")
  /\ UNCHANGED <<clusterVars, cur, low, high, cooling, frozen, ghosts, cpu, calm>>

ReconcileFails ==
  /\ pc = "reconcile"
  /\ CommandRaises
  /\ state' = [state EXCEPT ![cur] = IAAS]
  /\ EndVisit(cur, "boot")
  /\ UNCHANGED <<cur, low, high, cooling, frozen, ghosts, cpu, calm>>

----------------------------------------------------------------------------
(* The loop: one round visits every service once.                          *)

StartRound ==
  /\ pc = "round"
  /\ todo' = Services
  /\ frozen' = {s \in Services : cooling[s] > 0}
  /\ pc' = "loop"
  /\ UNCHANGED <<clusterVars, cur, target, step, state, low, high, cooling, ghosts, cpu, calm>>

\* Mutants of LoopRead: the windows outlive an adopted backend; nothing is
\* adopted.
LoopReadKeepsWindows(s) ==
  /\ pc = "loop"
  /\ s \in todo
  /\ cur' = s
  /\ pc' = "sample"
  /\ state' = [state EXCEPT ![s] = IF ServiceBackend(s) = NONE THEN @ ELSE ServiceBackend(s)]
  /\ UNCHANGED <<clusterVars, todo, target, step, low, high, cooling, frozen, ghosts, cpu, calm>>
LoopReadKeepsBelief(s) ==
  /\ pc = "loop"
  /\ s \in todo
  /\ cur' = s
  /\ pc' = "sample"
  /\ UNCHANGED <<clusterVars, todo, target, step, state, low, high, cooling, frozen, ghosts, cpu, calm>>

\* Read the selector; adopt what it names when that is not the belief.
LoopRead(s) ==
  /\ pc = "loop"
  /\ s \in todo
  /\ cur' = s
  /\ pc' = "sample"
  /\ LET adopt == ServiceBackend(s) \notin {NONE, state[s]}
     IN /\ state' = [state EXCEPT ![s] = IF adopt THEN ServiceBackend(s) ELSE @]
        /\ low' = [low EXCEPT ![s] = IF adopt THEN 0 ELSE @]
        /\ high' = [high EXCEPT ![s] = IF adopt THEN 0 ELSE @]
  /\ UNCHANGED <<clusterVars, todo, target, step, cooling, frozen, ghosts, cpu, calm>>

\* kubectl get fails: loop_error, nothing else happens to s in this round.
LoopReadFails(s) ==
  /\ ~ calm
  /\ pc = "loop"
  /\ s \in todo
  /\ cur' = s
  /\ EndVisit(s, "loop")
  /\ UNCHANGED <<clusterVars, state, low, high, cooling, frozen, ghosts, cpu, calm>>

\* No metrics: the visit ends and the windows counted so far stand.
SampleMissing ==
  /\ pc = "sample"
  /\ cpu[cur] = "missing"
  /\ EndVisit(cur, "loop")
  /\ UNCHANGED <<clusterVars, cur, state, low, high, cooling, frozen, ghosts, cpu, calm>>

\* One more window.  The counters stop at their thresholds, which only >=
\* compares them with (after a failed move they would go on counting).
Count(windows, counts, threshold) ==
  IF ~ counts THEN 0
  ELSE IF windows < threshold THEN windows + 1 ELSE threshold

\* Mutant of Decide: the cooldown is not looked at.
DecideHot(b, full) ==
  IF full
  THEN /\ pc' = "move"
       /\ target' = b
       /\ step' = 1
       /\ UNCHANGED todo
  ELSE EndVisit(cur, "loop")

\* A window filled up: start the move to b, or give up while cooling.
Decide(b, full) ==
  IF full /\ cur \notin frozen
  THEN /\ pc' = "move"
       /\ target' = b
       /\ step' = 1
       /\ UNCHANGED todo
  ELSE EndVisit(cur, "loop")

SampleIaas ==
  /\ pc = "sample"
  /\ state[cur] = IAAS
  /\ cpu[cur] # "missing"
  /\ high' = [high EXCEPT ![cur] = 0]
  /\ LET windows == Count(low[cur], cpu[cur] = "low", LOW_WINDOWS_TO_FAAS)
         full == windows >= LOW_WINDOWS_TO_FAAS
     IN /\ low' = [low EXCEPT ![cur] =
                     IF full /\ cur \in frozen THEN 0 ELSE windows]
        /\ Decide(FAAS, full)
  /\ UNCHANGED <<clusterVars, cur, state, cooling, frozen, ghosts, cpu, calm>>

SampleFaas ==
  /\ pc = "sample"
  /\ state[cur] = FAAS
  /\ cpu[cur] # "missing"
  /\ low' = [low EXCEPT ![cur] = 0]
  /\ LET windows == Count(high[cur], cpu[cur] = "high", HIGH_WINDOWS_TO_IAAS)
         full == windows >= HIGH_WINDOWS_TO_IAAS
     IN /\ high' = [high EXCEPT ![cur] =
                      IF full /\ cur \in frozen THEN 0 ELSE windows]
        /\ Decide(IAAS, full)
  /\ UNCHANGED <<clusterVars, cur, state, cooling, frozen, ghosts, cpu, calm>>

MoveDone ==
  /\ pc = "move"
  /\ step > Len(Plan(target))
  /\ state' = [state EXCEPT ![cur] = target]
  /\ cooling' = [cooling EXCEPT ![cur] = COOLDOWN]
  /\ resting' = [resting EXCEPT ![cur] = COOLDOWN]
  /\ forgotten' = forgotten \ {cur}
  /\ low' = IF target = FAAS THEN [low EXCEPT ![cur] = 0] ELSE low
  /\ high' = IF target = IAAS THEN [high EXCEPT ![cur] = 0] ELSE high
  /\ EndVisit(cur, "loop")
  /\ UNCHANGED <<clusterVars, cur, frozen, cpu, calm>>

\* loop_error: belief, counters and cooldown stay as they were.
MoveFails ==
  /\ pc = "move"
  /\ CommandRaises
  /\ EndVisit(cur, "loop")
  /\ UNCHANGED <<cur, state, low, high, cooling, frozen, ghosts, cpu, calm>>

----------------------------------------------------------------------------
(* Stop and start.  The process is killed at any point, or leaves main()   *)
(* because the read of a selector at startup raised.                       *)

Stop ==
  /\ pc' = "down"
  /\ todo' = Services
  /\ target' = IAAS
  /\ step' = 1
  /\ state' = [s \in Services |-> UNSET]
  /\ low' = [s \in Services |-> 0]
  /\ high' = [s \in Services |-> 0]
  /\ cooling' = [s \in Services |-> 0]
  /\ frozen' = {}
  /\ forgotten' = {s \in Services : resting[s] > 0}
  /\ UNCHANGED resting

Crash ==
  /\ ~ calm
  /\ pc # "down"
  /\ Stop
  /\ UNCHANGED <<clusterVars, cur, cpu, calm>>

Restart ==
  /\ pc = "down"
  /\ pc' = "boot"
  /\ UNCHANGED <<clusterVars, todo, cur, target, step, state, low, high, cooling, frozen, ghosts, cpu, calm>>

----------------------------------------------------------------------------
(* The environment. *)

ClusterStep ==
  /\ \E d \in Deployment : PodReady(d) \/ PodGone(d) \/ (~ calm /\ PodFails(d))
  /\ UNCHANGED <<controllerVars, cpu, calm>>

LoadChanges(s) ==
  /\ \E v \in Samples \ {cpu[s]} : cpu' = [cpu EXCEPT ![s] = v]
  /\ UNCHANGED <<clusterVars, controllerVars, calm>>

TickOf(ticks) == [s \in Services |-> IF ticks[s] > 0 THEN ticks[s] - 1 ELSE 0]

Tick ==
  /\ \E s \in Services : resting[s] > 0
  /\ cooling' = TickOf(cooling)
  /\ resting' = TickOf(resting)
  /\ forgotten' = {s \in forgotten : resting'[s] > 0}
  /\ UNCHANGED <<clusterVars, pc, todo, cur, target, step, state, low, high, frozen, cpu, calm>>

CalmDown ==
  /\ ~ calm
  /\ calm' = TRUE
  /\ UNCHANGED <<clusterVars, controllerVars, cpu>>

----------------------------------------------------------------------------
Startup ==
  \/ \E s \in Services : BootRead(s)
  \/ ReconcileDone
  \/ ReconcileFails

Round ==
  \/ StartRound
  \/ \E s \in Services : LoopRead(s) \/ LoopReadFails(s)
  \/ SampleMissing
  \/ SampleIaas
  \/ SampleFaas
  \/ MoveDone
  \/ MoveFails

\* What the running process does.
Controller == Startup \/ RunCommand \/ Round

Environment ==
  \/ ClusterStep
  \/ \E s \in Services : LoadChanges(s)
  \/ Tick
  \/ CalmDown

Next == Controller \/ Crash \/ Restart \/ Environment

\* The steps that need no fault: a kubectl call returns by itself, a wait at
\* the latest when its --timeout is over.
Undisturbed ==
  \/ RunCommand
  \/ (ReconcileFails \/ MoveFails) /\ TimesOut(cur, Plan(target)[step])
  \/ \E s \in Services : BootRead(s) \/ LoopRead(s)
  \/ ReconcileDone \/ StartRound \/ SampleMissing \/ SampleIaas \/ SampleFaas \/ MoveDone

Fairness ==
  /\ WF_vars(Undisturbed)
  /\ WF_vars(Restart)
  /\ WF_vars(Tick)

\* The deployment controller and the kubelet get pods up and down.
ClusterFairness ==
  \A d \in Deployment :
    /\ WF_vars(PodReady(d) /\ UNCHANGED <<controllerVars, cpu, calm>>)
    /\ WF_vars(PodGone(d) /\ UNCHANGED <<controllerVars, cpu, calm>>)

Spec == Init /\ [][Next]_vars
FairSpec == Spec /\ Fairness /\ ClusterFairness
----------------------------------------------------------------------------
(* Properties. *)

\* A service whose selector is of the current form is always routed to a
\* backend all of whose deployments are scaled up, whatever command of a
\* move failed and wherever the controller was killed: a move scales the
\* old backend down only after the selector left it (move_to_faas,
\* move_to_iaas, reconcile_backend).
RoutedIsScaled ==
  \A s \in Services : \E b \in Backend :
    Matches(selector[s], b) /\ DeploymentsOf(s, b) \subseteq scaled

\* As long as no pod fails by itself a call to a service always finds a
\* ready backend: the selector is patched only after rollout status saw the
\* new pods, and no fault, timeout or crash in between leaves a gap.
AlwaysServed == \A s \in Services : Serving(s)

\* Windows are counted for the believed backend only, so that a move is
\* never paid for with windows from before the last change of backend.
CountersMatchState ==
  \A s \in Services : /\ low[s] > 0 => state[s] = IAAS
                      /\ high[s] > 0 => state[s] = FAAS

\* A backend is sampled, and a move away from it decided, only while the
\* selector names it, also after a move that failed half way.
SamplesRoutedBackend ==
  pc = "sample" \/ (pc = "move" /\ step = 1) => state[cur] = ServiceBackend(cur)

\* When the command list of a visit ran to its end the service has exactly
\* the deployments of its new backend, including those an earlier attempt
\* left behind, and is routed to it.
CompletedMoveIsExact ==
  pc \in {"reconcile", "move"} /\ step > Len(Plan(target)) =>
    /\ {d \in scaled : d[1] = cur} = DeploymentsOf(cur, target)
    /\ selector[cur].backend = target

\* Once a move is completed no other move of the service starts before
\* COOLDOWN_SECONDS have passed, though `now` is read before the moves of
\* the round - unless the controller was stopped meanwhile: last_switch is
\* forgotten then and starts at 0.
CooldownRespected ==
  [][ pc # "move" /\ pc' = "move" => resting[cur'] = 0 \/ cur' \in forgotten ]_vars

\* Callers see nothing of the commands, faults and crashes but a route that
\* always leads to a scaled backend.
Route == INSTANCE Routing WITH
  route <- [s \in Services |-> ServiceBackend(s)],
  up <- [s \in Services |-> {b \in Backend : DeploymentsOf(s, b) \subseteq scaled}]
RefinesRouting == Route!Spec

\* A move or a startup reconcile always comes to an end, also when the pods
\* it waits for never get ready (--timeout of rollout status).
MovesEnd == pc \in {"reconcile", "move"} ~> pc \notin {"reconcile", "move"}

\* No service keeps the others from being visited for ever.
EveryServiceSampled ==
  calm ~> \A s \in Services : []<>(pc = "sample" /\ cur = s)

\* Once faults and pod failures are over, a service whose load stays low
\* ends up on its function and one whose load stays high on its container.
FollowsLoad ==
  \A s \in Services :
    /\ <>[](calm /\ cpu[s] = "low") => <>[](ServiceBackend(s) = FAAS /\ Serving(s))
    /\ <>[](calm /\ cpu[s] = "high") => <>[](ServiceBackend(s) = IAAS /\ Serving(s))

----------------------------------------------------------------------------
(* The strengthening that makes RoutedIsScaled and AlwaysServed inductive. *)

\* What a command list has achieved so far still stands: no later command
\* of it undoes an earlier one, and nothing else acts on the service.
Stands(s, b, c) ==
  /\ c.op = "up" => <<s, c.tier>> \in scaled
  /\ c.op = "down" => <<s, c.tier>> \notin scaled
  /\ c.op = "wait" /\ ~ PodsMayFail => <<s, c.tier>> \in ready
  /\ c.op = "patch" => selector[s].backend = b

PlanStands ==
  pc \in {"reconcile", "move"} =>
    \A i \in 1 .. step - 1 : Stands(cur, target, Plan(target)[i])

\* A routed backend is scaled and, unless pods fail, ready; the selector
\* has the form of the current manifests.
RouteStands ==
  \A s \in Services :
    /\ selector[s].app = NONE
    /\ selector[s].backend \in Backend
    /\ DeploymentsOf(s, selector[s].backend) \subseteq scaled
    /\ ~ PodsMayFail => DeploymentsOf(s, selector[s].backend) \subseteq ready

IInv == TypeOK /\ PlanStands /\ RouteStands
=============================================================================
