--------------------------- MODULE PlacementSuite ---------------------------
(***************************************************************************)
(* The placement half of src/self-hosted/testing/run_comprehensive_suite.sh*)
(* next to the controller it pauses: before each scenario of phase 3 the   *)
(* suite stops the controller, forces all services to one backend with     *)
(* kubectl commands of its own and, in the dynamic modes, starts the       *)
(* controller again.  prepare_phase3_placement runs with errexit off (its  *)
(* callers use `|| true` or set +e), so a command that fails is followed   *)
(* by the next one.                                                        *)
(*                                                                         *)
(* A paused controller is not gone at once: its pod is asked to terminate, *)
(* python as process 1 ignores that, and it is killed at the end of its    *)
(* grace period.  Until then it goes on working, also next to the pod that *)
(* the deployment starts as soon as it is scaled up again.                 *)
(***************************************************************************)
EXTENDS Placement

CONSTANT Modes   \* the placement modes of the scenarios, in order

ASSUME SuiteAssumption ==
  Modes \in Seq({"controller_running", "force_iaas", "force_faas_dynamic"}) \ {<<>>}

VARIABLES
  replicas,      \* spec.replicas of deployment/placement-controller
  stopping,      \* the pod of the controller is asked to terminate
  lingers,       \* pods that were overtaken by a newer one still run
  suite,         \* where the suite is
  turn,          \* index in Modes
  left,          \* services still to be forced
  forcing,       \* the service being forced, NONE between two of them
  nth,           \* index of the next command that forces it
  \* ghosts
  mishap,        \* a service was forced next to a live controller, or a
                 \* command that forces it failed
  gaveUp         \* services whose reconcile failed since the last start

suiteVars == <<replicas, stopping, lingers, suite, turn, left, forcing, nth>>
allVars == <<vars, suiteVars, mishap, gaveUp>>

SuiteTypeOK ==
  /\ TypeOK
  /\ replicas \in {0, 1}
  /\ stopping \in BOOLEAN
  /\ stopping => pc # "down"
  /\ lingers \in BOOLEAN
  /\ suite \in {"prepare", "force", "resume", "scenario", "over"}
  /\ turn \in 1 .. Len(Modes) + 1
  /\ suite = "over" <=> turn = Len(Modes) + 1
  /\ left \subseteq Services
  /\ forcing \in Services \cup {NONE}
  /\ forcing # NONE => suite = "force" /\ forcing \in left
  /\ nth \in 1 .. 7
  /\ mishap \in BOOLEAN
  /\ gaveUp \subseteq Services

SuiteInit ==
  /\ Init
  /\ replicas = 1
  /\ stopping = FALSE
  /\ lingers = FALSE
  /\ suite = "prepare"
  /\ turn = 1
  /\ left = {}
  /\ forcing = NONE
  /\ nth = 1
  /\ mishap = FALSE
  /\ gaveUp = {}

\* The backend that the current mode forces.
Goal == IF Modes[turn] = "force_iaas" THEN IAAS ELSE FAAS

----------------------------------------------------------------------------
(* The suite. *)

\* pause_controller, then force_all_iaas or force_all_faas.
Pause ==
  /\ suite = "prepare"
  /\ Modes[turn] # "controller_running"
  /\ suite' = "force"
  /\ left' = Services
  /\ \/ /\ replicas' = 0
        /\ stopping' = (pc # "down")
     \/ ~ calm /\ UNCHANGED <<replicas, stopping>>
  /\ UNCHANGED <<vars, lingers, turn, forcing, nth, mishap, gaveUp>>

ForceNext(s) ==
  /\ suite = "force"
  /\ forcing = NONE
  /\ s \in left
  /\ forcing' = s
  /\ nth' = 1
  /\ mishap' = (mishap \/ pc # "down" \/ replicas = 1 \/ lingers)
  /\ UNCHANGED <<vars, replicas, stopping, lingers, suite, turn, left, gaveUp>>

\* Mutant of ForceCommand: rollout status is not asked for.
ForceCommandUnawaited ==
  /\ forcing # NONE
  /\ nth <= Len(Plan(Goal))
  /\ LET c == Plan(Goal)[nth]
     IN (c.op = "wait" /\ UNCHANGED clusterVars) \/ Apply(forcing, Goal, c)
  /\ nth' = nth + 1
  /\ UNCHANGED <<controllerVars, cpu, calm, replicas, stopping, lingers, suite, turn, left, forcing, mishap, gaveUp>>

\* The commands are those of Plan, without a stop at a failure: only the
\* wait is skipped when the scale-up before it (&&) failed.
ForceCommand ==
  /\ forcing # NONE
  /\ nth <= Len(Plan(Goal))
  /\ LET c == Plan(Goal)[nth]
     IN \/ /\ Apply(forcing, Goal, c)
           /\ nth' = nth + 1
           /\ UNCHANGED mishap
        \/ /\ TimesOut(forcing, c) \/ (~ calm /\ Errs(forcing, Goal, c))
           /\ nth' = IF c.op = "up" THEN nth + 2 ELSE nth + 1
           /\ mishap' = TRUE
  /\ UNCHANGED <<controllerVars, cpu, calm, replicas, stopping, lingers, suite, turn, left, forcing, gaveUp>>

ForceDone ==
  /\ forcing # NONE
  /\ nth > Len(Plan(Goal))
  /\ forcing' = NONE
  /\ nth' = 1
  /\ left' = left \ {forcing}
  /\ suite' = IF left' # {} THEN "force"
              ELSE IF Goal = IAAS THEN "scenario" ELSE "resume"
  /\ UNCHANGED <<vars, replicas, stopping, lingers, turn, mishap, gaveUp>>

\* resume_controller, whatever the rollout status it waits for says.
Resume ==
  /\ \/ suite = "resume"
     \/ suite = "prepare" /\ Modes[turn] = "controller_running"
  /\ suite' = "scenario"
  /\ replicas' = 1 \/ (~ calm /\ UNCHANGED replicas)
  /\ UNCHANGED <<vars, stopping, lingers, turn, left, forcing, nth, mishap, gaveUp>>

\* run_scenario: the load runs, and ends.
ScenarioEnds ==
  /\ suite = "scenario"
  /\ turn' = turn + 1
  /\ suite' = IF turn' > Len(Modes) THEN "over" ELSE "prepare"
  /\ UNCHANGED <<vars, replicas, stopping, lingers, left, forcing, nth, mishap, gaveUp>>

----------------------------------------------------------------------------
(* The controller, as a pod that can be paused. *)

\* The end of the grace period: the pod is killed wherever it is.
Kill ==
  /\ stopping
  /\ stopping' = FALSE
  /\ Stop
  /\ UNCHANGED <<clusterVars, cur, cpu, calm, replicas, lingers, suite, turn, left, forcing, nth, mishap, gaveUp>>

\* Scaled up again before the grace period is over, the deployment starts a
\* new pod at once; the old one lingers.
Overtake ==
  /\ replicas = 1
  /\ stopping
  /\ stopping' = FALSE
  /\ lingers' = TRUE
  /\ Stop
  /\ UNCHANGED <<clusterVars, cur, cpu, calm, replicas, suite, turn, left, forcing, nth, mishap, gaveUp>>

\* What a pod that lingers believes is not followed any more (there may be
\* several): it may send any command of a move or a reconcile.
Linger(s) ==
  /\ lingers
  /\ \E b \in Backend : \E i \in 1 .. Len(Plan(b)) : Apply(s, b, Plan(b)[i])
  /\ UNCHANGED <<controllerVars, cpu, calm, suiteVars, mishap, gaveUp>>

LingerEnds ==
  /\ lingers
  /\ lingers' = FALSE
  /\ UNCHANGED <<vars, replicas, stopping, suite, turn, left, forcing, nth, mishap, gaveUp>>

\* A pod that is asked to terminate is not restarted after a crash.
CrashPod ==
  /\ Crash
  /\ stopping' = FALSE
  /\ UNCHANGED <<replicas, lingers, suite, turn, left, forcing, nth, mishap, gaveUp>>

\* Mutant of Start: the process starts without a reconcile.
StartCold ==
  /\ replicas = 1
  /\ pc = "down"
  /\ pc' = "round"
  /\ todo' = {}
  /\ state' = [s \in Services |-> IAAS]
  /\ gaveUp' = {}
  /\ UNCHANGED <<clusterVars, cur, target, step, low, high, cooling, frozen, ghosts, cpu, calm, suiteVars, mishap>>

Start ==
  /\ replicas = 1
  /\ Restart
  /\ gaveUp' = {}
  /\ UNCHANGED <<suiteVars, mishap>>

\* A reconcile that is left before the end of its list has failed.
NoteFailure ==
  gaveUp' = IF pc = "reconcile" /\ pc' # "reconcile" /\ step <= Len(Plan(target))
            THEN gaveUp \cup {cur} ELSE gaveUp

ControllerStep ==
  /\ Controller
  /\ NoteFailure
  /\ UNCHANGED <<suiteVars, mishap>>

EnvironmentStep ==
  /\ Environment
  /\ UNCHANGED <<suiteVars, mishap, gaveUp>>

SuiteNext ==
  \/ Pause
  \/ \E s \in Services : ForceNext(s)
  \/ ForceCommand
  \/ ForceDone
  \/ Resume
  \/ ScenarioEnds
  \/ Kill
  \/ Overtake
  \/ \E s \in Services : Linger(s)
  \/ LingerEnds
  \/ CrashPod
  \/ Start
  \/ ControllerStep
  \/ EnvironmentStep

PodsGetOn ==
  /\ \E d \in Deployment : PodReady(d) \/ PodGone(d)
  /\ UNCHANGED <<controllerVars, cpu, calm, suiteVars, mishap, gaveUp>>

SuiteSpec == SuiteInit /\ [][SuiteNext]_allVars

\* The controller gets on, and as long as pods are on their way up or down one
\* of them gets there; the suite need not get on.
SuiteFairness ==
  /\ WF_allVars(Undisturbed /\ NoteFailure /\ UNCHANGED <<suiteVars, mishap>>)
  /\ WF_allVars(Start)
  /\ WF_allVars(PodsGetOn)

FairSuiteSpec == SuiteSpec /\ SuiteFairness

----------------------------------------------------------------------------
(* Properties. *)

\* Forcing a placement interrupts no service, unless it races with the
\* controller that is still terminating or one of its commands fails.
ServedUnlessMishap == ~ mishap => AlwaysServed

\* During a force_iaas scenario every service runs on its container, and on
\* nothing else, unless forcing went wrong: no controller moves it.
ForcedPlacementHolds ==
  suite = "scenario" /\ Modes[turn] = "force_iaas" /\ ~ mishap =>
    \A s \in Services : /\ ServiceBackend(s) = IAAS
                        /\ {d \in scaled : d[1] = s} = DeploymentsOf(s, IAAS)

\* The controller that resume_controller starts finds the forced placement
\* in the selectors: its startup reconcile reroutes no service.
StartupKeepsRoutes ==
  [][ (pc \in {"boot", "reconcile"} /\ UNCHANGED suiteVars /\ ~ mishap)
      => (\A s \in Services : ServiceBackend(s)' = ServiceBackend(s)) ]_allVars

\* Whatever forcing left behind, a controller that is to start when forcing,
\* the controllers before it and faults are over serves every service again,
\* if no rollout takes too long and it is not paused again.
RestartHeals ==
  pc = "down" /\ replicas = 1 /\ ~ lingers /\ suite # "force" /\ calm
    ~> replicas = 0 \/ gaveUp # {} \/ \A s \in Services : Serving(s)

----------------------------------------------------------------------------
(* The strengthening that makes the safety properties inductive: what      *)
(* holds as long as no mishap happened.                                    *)

\* From the first service forced to the end of a force_iaas scenario there is
\* no controller, and no deployment that would start one.
Forced ==
  \/ forcing # NONE
  \/ suite = "force" /\ left # Services
  \/ suite = "scenario" /\ Modes[turn] = "force_iaas"
ForcedAlone == Forced => pc = "down" /\ replicas = 0

\* Only the modes that force a placement pause the controller, and only the
\* dynamic one resumes it.
ModeOfPhase ==
  /\ suite = "force" => Modes[turn] # "controller_running"
  /\ suite = "resume" => Modes[turn] = "force_faas_dynamic"

\* A controller that is not gone when the first service is forced makes that
\* a mishap: no pod is overtaken by a newer one without one.
OverlapIsMishap ==
  ~ mishap =>
    /\ ~ lingers
    /\ stopping => replicas = 0 /\ suite = "force" /\ left = Services /\ forcing = NONE

\* The commands that forced s to b all still stand.
Placed(s, b) == \A i \in 1 .. Len(Plan(b)) : Stands(s, b, Plan(b)[i])

\* So do those for the service being forced, as far as they have run.
ForcedStands ==
  /\ forcing # NONE =>
       /\ nth \in 1 .. Len(Plan(Goal)) + 1
       /\ \A i \in 1 .. nth - 1 : Stands(forcing, Goal, Plan(Goal)[i])
  /\ suite = "force" => \A s \in Services \ left : Placed(s, Goal)
  /\ suite = "scenario" /\ Modes[turn] = "force_iaas" => \A s \in Services : Placed(s, IAAS)

ForcedInv == ~ mishap => ForcedAlone /\ ForcedStands

\* The controller reconciles a service to the backend it is routed to.
ReconcilesRoute == pc = "reconcile" => target = ServiceBackend(cur)

SuiteIInv ==
  /\ SuiteTypeOK
  /\ ModeOfPhase
  /\ OverlapIsMishap
  /\ ForcedInv
  /\ ~ mishap => IInv /\ ReconcilesRoute
=============================================================================
