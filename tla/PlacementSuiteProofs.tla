------------------------ MODULE PlacementSuiteProofs ------------------------
(***************************************************************************)
(* Theorems about the test suite that forces placements next to the        *)
(* controller, for any services, thresholds and cooldown, and any list of  *)
(* scenarios.                                                              *)
(***************************************************************************)
EXTENDS PlacementSuite, PlacementProofs

\* Of a sequence of modes, the number of scenarios and the mode of each.
LEMMA ModesType ==
  /\ Len(Modes) \in Nat \ {0}
  /\ \A i \in 1 .. Len(Modes) :
       Modes[i] \in {"controller_running", "force_iaas", "force_faas_dynamic"}
BY SuiteAssumption

LEMMA GoalType == Goal \in Backend
BY DEF Goal, Backend

\* A scale-up is never the last command of a plan.
LEMMA UpNotLast ==
  ASSUME NEW b \in Backend, NEW i \in 1 .. Len(Plan(b)), Plan(b)[i].op = "up"
  PROVE  i + 1 \in 1 .. Len(Plan(b))
<1>1. CASE b = FAAS
  <2>1. i \in 1 .. 6 /\ i # 6
    BY <1>1, PlanFaas DEF Down
  <2>2. QED
    BY <1>1, <2>1, PlanFaas
<1>2. CASE b = IAAS
  <2>1. i \in 1 .. 5 /\ i # 5
    BY <1>2, PlanIaas DEF Down
  <2>2. QED
    BY <1>2, <2>1, PlanIaas
<1>3. QED
  BY <1>1, <1>2 DEF Backend

----------------------------------------------------------------------------
(* Type correctness. *)

\* What Stop leaves the controller with is well-typed.
LEMMA StopType ==
  ASSUME TypeOK, Stop, UNCHANGED <<clusterVars, cur, cpu, calm>>
  PROVE  TypeOK'
<1>1. /\ low' \in [Services -> 0 .. LOW_WINDOWS_TO_FAAS]
      /\ high' \in [Services -> 0 .. HIGH_WINDOWS_TO_IAAS]
      /\ cooling' \in [Services -> 0 .. COOLDOWN]
  BY WindowsAssumption DEF Stop
<1>2. target' \in Backend /\ step' \in 1 .. Len(Plan(target')) + 1
  BY PlanIaas DEF Stop, Backend
<1>3. QED
  BY <1>1, <1>2 DEF Stop, TypeOK, ClusterTypeOK, clusterVars, PCs

\* The steps in which the suite or the end of a grace period takes no part are
\* steps of Placement.
LEMMA ControllerIsNext ==
  ASSUME ControllerStep \/ CrashPod \/ Start \/ EnvironmentStep
  PROVE  Next
BY DEF ControllerStep, CrashPod, Start, EnvironmentStep, Next, Controller, Startup

\* A command of the suite keeps the cluster well-typed.
LEMMA ForceCommandType ==
  ASSUME SuiteTypeOK, ForceCommand
  PROVE  SuiteTypeOK'
<1> DEFINE c == Plan(Goal)[nth]
<1>1. /\ nth \in 1 .. Len(Plan(Goal)) /\ forcing \in Services
      /\ Len(Plan(Goal)) \in {5, 6}
  BY GoalType, PlanLength DEF ForceCommand, SuiteTypeOK
<1>2. ClusterTypeOK'
  <2>1. CASE Apply(forcing, Goal, c)
    BY <1>1, <2>1, GoalType, ApplyType DEF SuiteTypeOK, TypeOK
  <2>2. CASE UNCHANGED clusterVars
    BY <2>2 DEF clusterVars, ClusterTypeOK, SuiteTypeOK, TypeOK
  <2>3. QED
    BY <2>1, <2>2 DEF ForceCommand, TimesOut, Errs
<1>3. TypeOK'
  BY <1>2 DEF ForceCommand, SuiteTypeOK, TypeOK, controllerVars, ghosts
<1>4. nth' \in 1 .. 7
  <2>1. c.op = "up" => nth + 1 \in 1 .. Len(Plan(Goal))
    BY <1>1, GoalType, UpNotLast
  <2>2. nth' = nth + 1 \/ (c.op = "up" /\ nth' = nth + 2)
    BY DEF ForceCommand
  <2>3. nth' \in nth + 1 .. Len(Plan(Goal)) + 1
    <3> HIDE DEF c
    <3>1. QED
      BY <1>1, <2>1, <2>2
  <2>4. ASSUME NEW L \in {5, 6}, NEW n \in 1 .. L, NEW m \in n + 1 .. L + 1
        PROVE  m \in 1 .. 7
    OBVIOUS
  <2>5. QED
    BY <1>1, <2>3, <2>4
<1>5. QED
  BY <1>3, <1>4 DEF ForceCommand, SuiteTypeOK, controllerVars

\* Every step of the suite, the controller and the cluster keeps the types.
LEMMA SuiteNextType == SuiteTypeOK /\ [SuiteNext]_allVars => SuiteTypeOK'
<1> SUFFICES ASSUME SuiteTypeOK, [SuiteNext]_allVars
             PROVE  SuiteTypeOK'
  OBVIOUS
<1>1. TypeOK /\ SuiteTypeOK
  BY DEF SuiteTypeOK
<1>2. ASSUME UNCHANGED vars PROVE TypeOK'
  BY <1>1, <1>2, NextType
<1>3. CASE Pause
  <2>1. stopping' = (pc # "down") \/ stopping' = stopping
    BY <1>3 DEF Pause
  <2>2. stopping' \in BOOLEAN /\ (stopping' => pc # "down")
    <3>1. stopping \in BOOLEAN /\ (stopping => pc # "down")
      BY <1>1 DEF SuiteTypeOK
    <3>2. CASE stopping' = (pc # "down")
      BY <3>2, Zenon
    <3>3. QED
      BY <2>1, <3>1, <3>2, Zenon
  <2>3. /\ replicas' \in {0, 1} /\ left' = Services /\ suite' = "force"
        /\ suite = "prepare"
        /\ UNCHANGED <<pc, lingers, turn, forcing, nth, mishap, gaveUp>> /\ TypeOK'
    BY <1>1, <1>2, <1>3 DEF Pause, SuiteTypeOK, vars, controllerVars
  <2>4. QED
    BY <1>1, <2>2, <2>3 DEF SuiteTypeOK
<1>4. ASSUME NEW s \in Services, ForceNext(s)
      PROVE  SuiteTypeOK'
  BY <1>1, <1>2, <1>4
     DEF ForceNext, SuiteTypeOK, vars, controllerVars
<1>5. CASE ForceCommand
  BY <1>5, ForceCommandType
<1>6. CASE ForceDone
  BY <1>1, <1>2, <1>6
     DEF ForceDone, SuiteTypeOK, vars, controllerVars
<1>7. CASE Resume
  BY <1>1, <1>2, <1>7
     DEF Resume, SuiteTypeOK, vars, controllerVars
<1>8. CASE ScenarioEnds
  <2>1. /\ turn \in 1 .. Len(Modes) /\ turn' = turn + 1
        /\ suite' = IF turn' > Len(Modes) THEN "over" ELSE "prepare"
    BY <1>1, <1>8, ModesType DEF ScenarioEnds, SuiteTypeOK
  <2>2. turn' \in 1 .. Len(Modes) + 1 /\ (suite' = "over" <=> turn' = Len(Modes) + 1)
    BY <2>1, ModesType
  <2>3. QED
    BY <1>1, <1>2, <1>8, <2>1, <2>2
       DEF ScenarioEnds, SuiteTypeOK, vars, controllerVars
<1>9. CASE Kill \/ Overtake
  <2>1. TypeOK'
    BY <1>1, <1>9, StopType DEF Kill, Overtake
  <2>2. pc' = "down" /\ ~ stopping' /\ lingers' \in BOOLEAN
    BY <1>1, <1>9 DEF Kill, Overtake, Stop, SuiteTypeOK
  <2>3. QED
    BY <1>1, <1>9, <2>1, <2>2 DEF Kill, Overtake, SuiteTypeOK
<1>10. CASE CrashPod
  <2>1. TypeOK'
    BY <1>1, <1>10, ControllerIsNext, NextType
  <2>2. QED
    BY <1>1, <1>10, <2>1 DEF CrashPod, SuiteTypeOK
<1>11. CASE Start
  <2>1. TypeOK'
    BY <1>1, <1>11, ControllerIsNext, NextType
  <2>2. QED
    BY <1>1, <1>11, <2>1 DEF Start, Restart, suiteVars, SuiteTypeOK
<1>12. CASE ControllerStep
  <2>1. TypeOK'
    BY <1>1, <1>12, ControllerIsNext, NextType
  <2>2. pc' # "down"
    BY <1>12 DEF ControllerStep, Controller, Startup, BootRead, RunCommand, ReconcileDone, ReconcileFails, Round,
       StartRound, LoopRead, LoopReadFails, SampleMissing, SampleIaas, SampleFaas, MoveDone,
       MoveFails, Decide, EndVisit
  <2>3. gaveUp' \subseteq Services
    BY <1>1, <1>12 DEF ControllerStep, NoteFailure, SuiteTypeOK, TypeOK
  <2>4. QED
    BY <1>1, <1>12, <2>1, <2>2, <2>3
       DEF ControllerStep, suiteVars, SuiteTypeOK
<1>13. CASE EnvironmentStep
  <2>1. TypeOK'
    BY <1>1, <1>13, ControllerIsNext, NextType
  <2>2. pc' = pc
    BY <1>13 DEF EnvironmentStep, Environment, ClusterStep, LoadChanges, Tick, CalmDown,
       controllerVars
  <2>3. QED
    BY <1>1, <1>13, <2>1, <2>2
       DEF EnvironmentStep, suiteVars, SuiteTypeOK
<1>14. CASE UNCHANGED allVars
  BY <1>1, <1>2, <1>14
     DEF allVars, suiteVars, SuiteTypeOK, vars, controllerVars
<1>15. ASSUME NEW s \in Services, Linger(s)
       PROVE  SuiteTypeOK'
  <2>1. PICK b \in Backend : \E i \in 1 .. Len(Plan(b)) : Apply(s, b, Plan(b)[i])
    BY <1>15 DEF Linger
  <2>2. ClusterTypeOK'
    BY <1>1, <2>1, ApplyType DEF TypeOK
  <2>3. TypeOK'
    BY <1>1, <1>15, <2>2 DEF Linger, TypeOK, controllerVars, ghosts
  <2>4. QED
    BY <1>1, <1>15, <2>3 DEF Linger, SuiteTypeOK, suiteVars, controllerVars
<1>16. CASE LingerEnds
  BY <1>1, <1>2, <1>16 DEF LingerEnds, SuiteTypeOK, vars, controllerVars
<1>17. QED
  BY <1>3, <1>4, <1>5, <1>6, <1>7, <1>8, <1>9, <1>10, <1>11, <1>12, <1>13, <1>14, <1>15, <1>16
     DEF SuiteNext

LEMMA SuiteInitType == SuiteInit => SuiteTypeOK
<1> SUFFICES ASSUME SuiteInit
             PROVE  SuiteTypeOK
  OBVIOUS
<1>1. TypeOK /\ pc = "boot"
  BY InitType DEF SuiteInit, Init
<1>2. turn \in 1 .. Len(Modes) + 1 /\ turn # Len(Modes) + 1
  BY ModesType DEF SuiteInit
<1>3. replicas \in {0, 1} /\ ~ stopping /\ {stopping, lingers} \subseteq BOOLEAN /\ mishap \in BOOLEAN
  BY DEF SuiteInit
<1>4. suite = "prepare" /\ left \subseteq Services /\ gaveUp \subseteq Services
  BY DEF SuiteInit
<1>5. forcing = NONE /\ nth \in 1 .. 7
  BY DEF SuiteInit
<1>6. QED
  BY <1>1, <1>2, <1>3, <1>4, <1>5 DEF SuiteTypeOK

\* The suite, the controller and the cluster stay well-typed: a pod that is
\* terminating runs, and only a service that is left is being forced.
THEOREM SuiteTypeCorrect == SuiteSpec => []SuiteTypeOK
BY SuiteInitType, SuiteNextType, PTL DEF SuiteSpec

----------------------------------------------------------------------------
(* What was forced stands. *)

\* A mishap is never forgotten, and modes and phases go together.
LEMMA ModeNext ==
  ASSUME SuiteTypeOK, ModeOfPhase, [SuiteNext]_allVars
  PROVE  ModeOfPhase' /\ (mishap => mishap')
<1>1. CASE Pause \/ Resume
  BY <1>1 DEF Pause, Resume, ModeOfPhase
<1>2. ASSUME NEW s \in Services, ForceNext(s)
      PROVE  ModeOfPhase' /\ (mishap => mishap')
  BY <1>2 DEF ForceNext, ModeOfPhase
<1>3. CASE ForceCommand
  BY <1>3 DEF ForceCommand, ModeOfPhase
<1>4. CASE ForceDone
  <2>1. /\ suite = "force" /\ UNCHANGED <<turn, mishap>>
        /\ suite' = "resume" => Goal # IAAS
        /\ suite' \in {"force", "scenario", "resume"}
    BY <1>4 DEF ForceDone, SuiteTypeOK
  <2>2. turn \in 1 .. Len(Modes)
    BY <2>1, ModesType DEF SuiteTypeOK
  <2>3. Goal # IAAS => Modes[turn] # "force_iaas"
    BY DEF Goal
  <2>4. QED
    BY <2>1, <2>2, <2>3, ModesType DEF ModeOfPhase
<1>5. CASE ScenarioEnds
  BY <1>5 DEF ScenarioEnds, ModeOfPhase
<1>6. CASE Kill \/ Overtake \/ LingerEnds \/ CrashPod
  BY <1>6 DEF Kill, Overtake, LingerEnds, CrashPod, ModeOfPhase
<1>7. CASE \/ \E s \in Services : Linger(s)
           \/ Start \/ ControllerStep \/ EnvironmentStep \/ UNCHANGED allVars
  BY <1>7 DEF Linger, Start, ControllerStep, EnvironmentStep, allVars, suiteVars, ModeOfPhase
<1>8. QED
  BY <1>1, <1>2, <1>3, <1>4, <1>5, <1>6, <1>7 DEF SuiteNext

\* A pod is overtaken only when a service was forced next to it, or would be.
LEMMA OverlapNext ==
  ASSUME SuiteTypeOK, ModeOfPhase, OverlapIsMishap, [SuiteNext]_allVars
  PROVE  OverlapIsMishap'
<1> SUFFICES ASSUME ~ mishap'
             PROVE  /\ ~ lingers'
                    /\ stopping' => /\ replicas' = 0 /\ suite' = "force"
                                    /\ left' = Services /\ forcing' = NONE
  BY DEF OverlapIsMishap
<1>0. /\ ~ mishap /\ ~ lingers
      /\ stopping => replicas = 0 /\ suite = "force" /\ left = Services /\ forcing = NONE
      /\ stopping => pc # "down"
  BY ModeNext DEF OverlapIsMishap, SuiteTypeOK
<1>1. CASE Pause
  <2>1. forcing = NONE /\ forcing' = NONE /\ suite' = "force" /\ left' = Services
        /\ lingers' = lingers /\ (replicas' = 0 \/ stopping' = stopping) /\ suite = "prepare"
    BY <1>1 DEF Pause, SuiteTypeOK
  <2>2. QED
    BY <1>0, <2>1
<1>2. ASSUME NEW s \in Services, ForceNext(s)
      PROVE  ~ lingers' /\ ~ stopping'
  <2>1. mishap' = (mishap \/ pc # "down" \/ replicas = 1 \/ lingers)
        /\ stopping' = stopping /\ lingers' = lingers
    BY <1>2 DEF ForceNext
  <2>2. QED
    BY <1>0, <2>1
<1>3. CASE ForceCommand \/ ForceDone \/ Resume \/ ScenarioEnds
  <2>1. ~ stopping /\ stopping' = stopping /\ lingers' = lingers
    BY <1>0, <1>3 DEF ForceCommand, ForceDone, Resume, ScenarioEnds
  <2>2. QED
    BY <1>0, <2>1
<1>4. CASE Kill \/ CrashPod
  <2>1. ~ stopping' /\ lingers' = lingers
    BY <1>4 DEF Kill, CrashPod
  <2>2. QED
    BY <1>0, <2>1
<1>5. CASE Overtake \/ LingerEnds \/ \E s \in Services : Linger(s)
  BY <1>0, <1>5 DEF Overtake, LingerEnds, Linger
<1>6. CASE Start \/ ControllerStep \/ EnvironmentStep \/ UNCHANGED allVars
  <2>1. UNCHANGED suiteVars
    BY <1>6 DEF Start, ControllerStep, EnvironmentStep, allVars
  <2>2. QED
    BY <1>0, <2>1 DEF suiteVars
<1>7. QED
  BY <1>1, <1>2, <1>3, <1>4, <1>5, <1>6 DEF SuiteNext

\* A command that works on one service leaves the others alone.
LEMMA StandsElsewhere ==
  ASSUME NEW r \in Services, NEW a \in Backend, NEW k \in 1 .. Len(Plan(a)),
         selector \in [Services -> Selector], Apply(r, a, Plan(a)[k]),
         NEW s \in Services, s # r, NEW b, NEW c, Stands(s, b, c)
  PROVE  Stands(s, b, c)'
<1> DEFINE d == Plan(a)[k]
<1>1. CASE d.op = "up"
  BY <1>1 DEF Apply, Stands
<1>2. CASE d.op = "down"
  BY <1>2 DEF Apply, Stands
<1>3. CASE d.op = "wait"
  BY <1>3 DEF Apply, Stands, clusterVars
<1>4. CASE d.op = "patch"
  BY <1>4 DEF Apply, Stands
<1>5. QED
  BY <1>1, <1>2, <1>3, <1>4, PlanTier

\* Steps that change neither the cluster nor the suite keep what was forced.
LEMMA ForcedQuiet ==
  ASSUME ForcedStands, UNCHANGED clusterVars, UNCHANGED <<suite, turn, left, forcing, nth>>
  PROVE  ForcedStands'
BY DEF ForcedStands, Placed, Stands, Goal, clusterVars

\* So do pods that come and go.
LEMMA ForcedPods ==
  ASSUME SuiteTypeOK, ForcedStands, ClusterStep, UNCHANGED <<suite, turn, left, forcing, nth>>
  PROVE  ForcedStands'
<1>1. PICK g \in Backend : g = Goal /\ g = Goal'
  BY GoalType DEF Goal
<1>2. ASSUME NEW s \in Services, NEW b \in Backend, Placed(s, b)
      PROVE  Placed(s, b)'
  <2>1. Len(Plan(b)) \in 0 .. Len(Plan(b))
    BY PlanLength
  <2>2. QED
    BY <1>2, <2>1, PodsStand DEF Placed
<1>3. ASSUME forcing # NONE, NEW i \in 1 .. nth - 1
      PROVE  Stands(forcing, g, Plan(g)[i])'
  <2>1. /\ nth \in 1 .. Len(Plan(g)) + 1
        /\ \A k \in 1 .. nth - 1 : Stands(forcing, g, Plan(g)[k])
    BY <1>1, <1>3 DEF ForcedStands
  <2>2. PICK s \in Services, j \in 0 .. Len(Plan(g)) : s = forcing /\ j = nth - 1
    BY <1>3, <2>1, PlanLength DEF SuiteTypeOK
  <2>3. Stands(s, g, Plan(g)[i])'
    BY <1>3, <2>1, <2>2, PodsStand
  <2>4. QED
    BY <2>2, <2>3 DEF Stands
<1>4. IAAS \in Backend
  BY DEF Backend
<1>5. QED
  BY <1>1, <1>2, <1>3, <1>4 DEF ForcedStands

\* The next command of the suite, carried out, stands, and so do the earlier
\* ones and those for the services that were forced before.
LEMMA ForcedCommand ==
  ASSUME SuiteTypeOK, ForcedStands, ForceCommand, ~ mishap'
  PROVE  ForcedStands'
<1>1. PICK g \in Backend : g = Goal /\ g = Goal'
  BY GoalType DEF Goal, ForceCommand
<1>2. /\ forcing \in Services /\ forcing \in left /\ suite = "force"
      /\ nth \in 1 .. Len(Plan(g)) /\ nth' = nth + 1
      /\ Apply(forcing, g, Plan(g)[nth])
      /\ UNCHANGED <<suite, turn, left, forcing>>
      /\ selector \in [Services -> Selector]
  BY <1>1, PlanLength DEF ForceCommand, SuiteTypeOK, TypeOK, ClusterTypeOK
<1>3. PICK s \in Services, j \in Nat : s = forcing /\ j = nth
  BY <1>2
<1>4. Running(s, g, j) /\ Apply(s, g, Plan(g)[j])
  BY <1>1, <1>2, <1>3 DEF Running, ForcedStands, SuiteTypeOK, ForceCommand
<1>5. \A i \in 1 .. j : Stands(s, g, Plan(g)[i])'
  BY <1>4, ApplyStands
<1>6. ASSUME NEW r \in Services, r \notin left
      PROVE  Placed(r, g)'
  <2>1. Placed(r, g) /\ r # s
    BY <1>1, <1>2, <1>3, <1>6 DEF ForcedStands
  <2>2. QED
    BY <1>2, <1>3, <2>1, StandsElsewhere DEF Placed
<1>7. nth' - 1 = j /\ nth' \in 1 .. Len(Plan(g)) + 1 /\ forcing' = s
  BY <1>2, <1>3, PlanLength
<1>8. \A i \in 1 .. nth' - 1 : Stands(forcing, g, Plan(g)[i])'
  BY <1>5, <1>7 DEF Stands
<1>9. QED
  BY <1>1, <1>2, <1>6, <1>7, <1>8 DEF ForcedStands

\* No step that is no mishap undoes what was forced, or lets a controller next
\* to it.
LEMMA ForcedNext ==
  ASSUME SuiteTypeOK, ModeOfPhase, OverlapIsMishap, ForcedInv, [SuiteNext]_allVars
  PROVE  ForcedInv'
<1> SUFFICES ASSUME ~ mishap'
             PROVE  ForcedAlone' /\ ForcedStands'
  BY DEF ForcedInv
<1>1. ForcedAlone /\ ForcedStands
  BY ModeNext DEF ForcedInv
<1>2. CASE Pause
  <2>1. forcing' = NONE /\ suite' = "force" /\ left' = Services
    BY <1>2 DEF Pause, SuiteTypeOK
  <2>2. QED
    BY <2>1 DEF ForcedAlone, Forced, ForcedStands
<1>3. ASSUME NEW s \in Services, ForceNext(s)
      PROVE  ForcedAlone' /\ ForcedStands'
  <2>1. pc' = "down" /\ replicas' = 0
    BY <1>3 DEF ForceNext, SuiteTypeOK, vars, controllerVars
  <2>2. /\ nth' = 1 /\ 1 \in 1 .. Len(Plan(Goal)) + 1
        /\ suite' = "force" /\ suite = "force" /\ Goal' = Goal
        /\ UNCHANGED clusterVars /\ left' = left
    BY <1>3, GoalType, PlanLength DEF ForceNext, vars, Goal
  <2>3. \A r \in Services \ left : Placed(r, Goal)'
    BY <1>1, <2>2 DEF ForcedStands, Placed, Stands, clusterVars
  <2>4. QED
    BY <2>1, <2>2, <2>3 DEF ForcedAlone, ForcedStands
<1>4. CASE ForceCommand
  <2>1. pc = "down" /\ replicas = 0 /\ UNCHANGED <<pc, replicas>>
    BY <1>1, <1>4 DEF ForcedAlone, Forced, ForceCommand, controllerVars
  <2>2. QED
    BY <1>1, <1>4, <2>1, ForcedCommand DEF ForcedAlone
<1>5. CASE ForceDone
  <2>1. pc' = "down" /\ replicas' = 0
    BY <1>1, <1>5 DEF ForcedAlone, Forced, ForceDone, vars, controllerVars
  <2>2. PICK g \in Backend : g = Goal /\ g = Goal'
    BY <1>5, GoalType DEF Goal, ForceDone
  <2>3. /\ forcing \in Services /\ suite = "force" /\ nth = Len(Plan(g)) + 1
        /\ \A i \in 1 .. nth - 1 : Stands(forcing, g, Plan(g)[i])
        /\ \A r \in Services \ left : Placed(r, g)
    BY <1>1, <1>5, <2>2, PlanLength DEF ForceDone, ForcedStands, SuiteTypeOK
  <2>4. \A r \in Services \ left' : Placed(r, g)
    <3>1. Placed(forcing, g)
      BY <2>3, PlanLength DEF Placed
    <3>2. left' = left \ {forcing}
      BY <1>5 DEF ForceDone
    <3>3. QED
      BY <2>3, <3>1, <3>2
  <2>5. \A r \in Services \ left' : Placed(r, g)'
    BY <1>5, <2>4 DEF ForceDone, vars, clusterVars, Placed, Stands
  <2>6. /\ forcing' = NONE
        /\ suite' = "scenario" => left' = {} /\ g = IAAS
    BY <1>5, <2>2 DEF ForceDone
  <2>7. QED
    BY <2>1, <2>2, <2>5, <2>6 DEF ForcedAlone, ForcedStands
<1>6. CASE Resume
  <2>1. forcing' = NONE /\ suite' = "scenario" /\ Modes[turn'] # "force_iaas"
    BY <1>6 DEF Resume, SuiteTypeOK, ModeOfPhase
  <2>2. QED
    BY <2>1 DEF ForcedAlone, Forced, ForcedStands
<1>7. CASE ScenarioEnds
  <2>1. forcing' = NONE /\ suite' \in {"prepare", "over"}
    BY <1>7 DEF ScenarioEnds, SuiteTypeOK
  <2>2. QED
    BY <2>1 DEF ForcedAlone, Forced, ForcedStands
<1>8. CASE Kill \/ CrashPod
  <2>1. /\ pc' = "down" /\ UNCHANGED clusterVars
        /\ UNCHANGED <<replicas, suite, turn, left, forcing, nth>>
    BY <1>8 DEF Kill, CrashPod, Crash, Stop
  <2>2. QED
    BY <1>1, <2>1, ForcedQuiet DEF ForcedAlone, Forced
<1>9. CASE Start
  <2>1. replicas = 1 /\ UNCHANGED clusterVars /\ UNCHANGED suiteVars
    BY <1>9 DEF Start, Restart
  <2>2. QED
    BY <1>1, <2>1, ForcedQuiet DEF suiteVars, ForcedAlone, Forced
<1>10. CASE ControllerStep
  <2>1. pc # "down" /\ UNCHANGED suiteVars
    BY <1>10 DEF ControllerStep, Controller, Startup, BootRead, RunCommand, ReconcileDone, ReconcileFails, Round,
       StartRound, LoopRead, LoopReadFails, SampleMissing, SampleIaas, SampleFaas, MoveDone,
       MoveFails
  <2>2. ~ Forced /\ ~ Forced'
    BY <1>1, <2>1 DEF ForcedAlone, Forced, suiteVars
  <2>3. ForcedStands'
    BY <2>2 DEF Forced, ForcedStands
  <2>4. QED
    BY <2>2, <2>3 DEF ForcedAlone
<1>11. CASE EnvironmentStep
  <2>1. pc' = pc /\ UNCHANGED suiteVars /\ (ClusterStep \/ UNCHANGED clusterVars)
    BY <1>11 DEF EnvironmentStep, Environment, ClusterStep, LoadChanges, Tick, CalmDown,
       controllerVars
  <2>2. ForcedAlone'
    BY <1>1, <2>1 DEF suiteVars, ForcedAlone, Forced
  <2>3. ForcedStands'
    BY <1>1, <2>1, ForcedQuiet, ForcedPods DEF suiteVars
  <2>4. QED
    BY <2>2, <2>3
<1>12. CASE UNCHANGED allVars
  BY <1>1, <1>12, ForcedQuiet
     DEF allVars, suiteVars, vars, controllerVars, ForcedAlone, Forced
<1>13. CASE Overtake \/ LingerEnds \/ \E s \in Services : Linger(s)
  BY <1>13, ModeNext DEF Overtake, LingerEnds, Linger, OverlapIsMishap
<1>14. QED
  BY <1>2, <1>3, <1>4, <1>5, <1>6, <1>7, <1>8, <1>9, <1>10, <1>11, <1>12, <1>13 DEF SuiteNext

LEMMA ForcedInit == SuiteInit => ModeOfPhase /\ OverlapIsMishap /\ ForcedInv
BY DEF SuiteInit, ModeOfPhase, OverlapIsMishap, ForcedInv, ForcedAlone, Forced, ForcedStands

\* Whatever the manifests were: while a force_iaas scenario runs, every service
\* runs on its container and on nothing else, unless forcing went wrong.
THEOREM ForcedPlacementStands == SuiteSpec => []ForcedPlacementHolds
<1>1. SuiteTypeOK /\ ForcedInv => ForcedPlacementHolds
  <2>1. SUFFICES ASSUME SuiteTypeOK, ForcedStands, suite = "scenario",
                        Modes[turn] = "force_iaas", NEW s \in Services
                 PROVE  /\ ServiceBackend(s) = IAAS
                        /\ {d \in scaled : d[1] = s} = DeploymentsOf(s, IAAS)
    BY DEF ForcedInv, ForcedPlacementHolds
  <2>2. /\ \A i \in 1 .. Len(Plan(IAAS)) : Stands(s, IAAS, Plan(IAAS)[i])
        /\ scaled \subseteq Deployment /\ IAAS \in Backend
    BY <2>1 DEF ForcedStands, Placed, SuiteTypeOK, TypeOK, ClusterTypeOK, Backend
  <2>3. QED
    BY <2>2, CompletePlan DEF ServiceBackend
<1>2. SuiteTypeOK /\ ModeOfPhase /\ OverlapIsMishap /\ ForcedInv /\ [SuiteNext]_allVars =>
        SuiteTypeOK' /\ ModeOfPhase' /\ OverlapIsMishap' /\ ForcedInv'
  BY SuiteNextType, ModeNext, OverlapNext, ForcedNext
<1>3. QED
  BY <1>1, <1>2, SuiteInitType, ForcedInit, PTL DEF SuiteSpec

----------------------------------------------------------------------------
(* The suite next to the invariant of the controller. *)

\* Without a mishap the suite runs the commands of a plan as the controller
\* does, and no controller runs one at the same time.
LEMMA SuiteKeepsIInv ==
  ASSUME SuiteTypeOK, ModeOfPhase, OverlapIsMishap, ForcedInv, ~ mishap => IInv,
         [SuiteNext]_allVars
  PROVE  ~ mishap' => IInv'
<1> SUFFICES ASSUME ~ mishap'
             PROVE  IInv'
  OBVIOUS
<1>1. IInv /\ ForcedAlone /\ ForcedStands /\ TypeOK'
  BY ModeNext, SuiteNextType DEF ForcedInv, SuiteTypeOK
<1>2. CASE [Next]_vars
  BY <1>1, <1>2, NextInv
<1>3. CASE ForceCommand
  <2>1. pc' = "down"
    BY <1>1, <1>3 DEF ForcedAlone, Forced, ForceCommand, controllerVars
  <2>2. PICK s \in Services, g \in Backend, j \in Nat : s = forcing /\ g = Goal /\ j = nth
    BY <1>3, GoalType DEF ForceCommand, SuiteTypeOK
  <2>3. Running(s, g, j) /\ Apply(s, g, Plan(g)[j])
    BY <1>1, <1>3, <2>2, PlanLength DEF Running, ForcedStands, ForceCommand, IInv
  <2>4. RouteStands'
    BY <1>1, <2>3, ApplyRoute DEF IInv
  <2>5. QED
    BY <1>1, <2>1, <2>4 DEF IInv, PlanStands
<1>4. CASE Kill
  <2>1. pc' = "down" /\ UNCHANGED clusterVars
    BY <1>4 DEF Kill, Stop
  <2>2. QED
    BY <1>1, <2>1, QuietInv DEF IInv
<1>5. CASE Pause \/ (\E s \in Services : ForceNext(s)) \/ ForceDone \/ Resume \/ ScenarioEnds
  BY <1>2, <1>5 DEF Pause, ForceNext, ForceDone, Resume, ScenarioEnds
<1>6. CASE CrashPod \/ Start \/ ControllerStep \/ EnvironmentStep
  BY <1>2, <1>6, ControllerIsNext
<1>7. CASE UNCHANGED allVars
  BY <1>2, <1>7 DEF allVars
<1>8. CASE Overtake \/ LingerEnds \/ \E s \in Services : Linger(s)
  BY <1>8, ModeNext DEF Overtake, LingerEnds, Linger, OverlapIsMishap
<1>9. QED
  BY <1>3, <1>4, <1>5, <1>6, <1>7, <1>8 DEF SuiteNext

\* What the controller reconciles a service to is where it is routed to, also
\* after each command of the reconcile.
LEMMA ReconcilesRouteNext ==
  ASSUME SuiteTypeOK, OverlapIsMishap, ForcedInv, ~ mishap, IInv, ReconcilesRoute,
         [SuiteNext]_allVars, ~ mishap'
  PROVE  ReconcilesRoute'
<1> SUFFICES ASSUME pc' = "reconcile"
             PROVE  target' = ServiceBackend(cur)'
  BY DEF ReconcilesRoute
<1>1. CASE UNCHANGED <<selector, pc, cur, target>>
  BY <1>1 DEF ReconcilesRoute, ServiceBackend
<1>2. ASSUME NEW s \in Services, BootRead(s)
      PROVE  target' = ServiceBackend(cur)'
  <2>1. ServiceBackend(s) # NONE
    BY RouteUp DEF UpOf, Backend, IAAS, FAAS, NONE
  <2>2. QED
    BY <1>2, <2>1 DEF BootRead, ServiceBackend, clusterVars
<1>3. CASE RunCommand
  <2>1. pc = "reconcile" /\ UNCHANGED <<cur, target>> /\ target = ServiceBackend(cur)
    BY <1>3 DEF RunCommand, ReconcilesRoute
  <2>2. selector'[cur].backend \in Backend => selector'[cur].backend = target
    <3>1. CASE selector' = selector
      BY <2>1, <3>1 DEF ServiceBackend
    <3>2. CASE selector' = [selector EXCEPT ![cur] = [app |-> @.app, backend |-> target]]
      BY <3>2 DEF IInv, TypeOK, ClusterTypeOK
    <3>3. QED
      BY <1>3, <3>1, <3>2 DEF RunCommand, Apply, clusterVars
  <2>3. selector'[cur].backend \in Backend
    BY <1>3, RunCommandInv, <2>1 DEF RouteStands, IInv, TypeOK
  <2>4. QED
    BY <2>1, <2>2, <2>3 DEF ServiceBackend
<1>4. CASE ForceCommand
  BY <1>4 DEF ForceCommand, controllerVars, ForcedInv, ForcedAlone, Forced
<1>5. CASE ReconcileDone \/ ReconcileFails \/ Round \/ Kill \/ CrashPod \/ Start
  BY <1>5 DEF ReconcileDone, ReconcileFails, Round, StartRound, LoopRead, LoopReadFails,
     SampleMissing, SampleIaas, SampleFaas, MoveDone, MoveFails, Decide, EndVisit,
     Kill, CrashPod, Crash, Stop, Start, Restart
<1>6. CASE Pause \/ (\E s \in Services : ForceNext(s)) \/ ForceDone \/ Resume \/ ScenarioEnds
           \/ UNCHANGED allVars
  BY <1>1, <1>6 DEF Pause, ForceNext, ForceDone, Resume, ScenarioEnds, allVars, vars,
     clusterVars, controllerVars
<1>7. CASE EnvironmentStep
  BY <1>1, <1>7 DEF EnvironmentStep, Environment, ClusterStep, PodReady, PodGone, PodFails,
     LoadChanges, Tick, CalmDown, controllerVars, clusterVars
<1>8. CASE Overtake \/ LingerEnds \/ \E s \in Services : Linger(s)
  BY <1>8 DEF Overtake, LingerEnds, Linger, OverlapIsMishap
<1>9. QED
  BY <1>2, <1>3, <1>4, <1>5, <1>6, <1>7, <1>8 DEF SuiteNext, ControllerStep, Controller, Startup

\* The inductive invariant of the suite and the controller together.
THEOREM SuiteInductive ==
  ASSUME CurrentForm
  PROVE  SuiteSpec => []SuiteIInv
<1>1. SuiteInit => SuiteIInv
  <2>1. SuiteInit => IInv /\ ReconcilesRoute
    BY InitInv DEF CurrentForm, SuiteInit, Init, ReconcilesRoute
  <2>2. QED
    BY <2>1, SuiteInitType, ForcedInit DEF SuiteIInv
<1>2. SuiteIInv /\ [SuiteNext]_allVars => SuiteIInv'
  <2> SUFFICES ASSUME SuiteIInv, [SuiteNext]_allVars
               PROVE  SuiteIInv'
    OBVIOUS
  <2>1. SuiteTypeOK' /\ ModeOfPhase' /\ OverlapIsMishap' /\ ForcedInv' /\ (mishap => mishap')
    BY SuiteNextType, ModeNext, OverlapNext, ForcedNext DEF SuiteIInv
  <2>2. ~ mishap' => IInv'
    BY SuiteKeepsIInv DEF SuiteIInv
  <2>3. ~ mishap' => ReconcilesRoute'
    BY <2>1, ReconcilesRouteNext DEF SuiteIInv
  <2>4. QED
    BY <2>1, <2>2, <2>3 DEF SuiteIInv
<1>3. QED
  BY <1>1, <1>2, PTL DEF SuiteSpec

\* If pods do not fail by themselves, the suite and the controller together
\* interrupt a service only when they race or a command of the suite fails.
THEOREM SuiteNeverInterrupts ==
  ASSUME CurrentForm, ~ PodsMayFail
  PROVE  SuiteSpec => []ServedUnlessMishap
<1>1. SuiteIInv => ServedUnlessMishap
  <2>1. SUFFICES ASSUME IInv, NEW s \in Services
                 PROVE  Matches(selector[s], selector[s].backend)
    BY DEF SuiteIInv, IInv, RouteStands, ServedUnlessMishap, AlwaysServed, Serving
  <2>2. QED
    BY <2>1 DEF IInv, RouteStands, Matches
<1>2. QED
  BY <1>1, SuiteInductive, PTL

\* The startup reconcile of a resumed controller reroutes nothing, whichever of
\* its commands fail.
THEOREM ResumedControllerKeepsRoutes ==
  ASSUME CurrentForm
  PROVE  SuiteSpec => StartupKeepsRoutes
<1> DEFINE Quiet == pc \in {"boot", "reconcile"} /\ UNCHANGED suiteVars /\ ~ mishap
<1>1. SuiteIInv /\ SuiteIInv' /\ [SuiteNext]_allVars
      => [Quiet => \A s \in Services : ServiceBackend(s)' = ServiceBackend(s)]_allVars
  <2> SUFFICES ASSUME SuiteIInv, SuiteIInv', SuiteNext, Quiet, NEW s \in Services
               PROVE  ServiceBackend(s)' = ServiceBackend(s)
    OBVIOUS
  <2>1. IInv /\ ReconcilesRoute
    BY DEF SuiteIInv
  <2>2. CASE UNCHANGED selector
    BY <2>2 DEF ServiceBackend
  <2>3. CASE /\ pc = "reconcile" /\ step \in 1 .. Len(Plan(target))
             /\ Apply(cur, target, Plan(target)[step])
    <3>1. CASE selector' = [selector EXCEPT ![cur] = [app |-> @.app, backend |-> target]]
      <4>1. target = ServiceBackend(cur) /\ selector \in [Services -> Selector]
            /\ cur \in Services /\ target \in Backend
        BY <2>1, <2>3 DEF ReconcilesRoute, IInv, TypeOK, ClusterTypeOK
      <4>2. CASE s = cur
        <5>1. selector'[s].backend = target
          BY <3>1, <4>1, <4>2
        <5>2. QED
          BY <4>1, <4>2, <5>1 DEF ServiceBackend
      <4>3. CASE s # cur
        <5>1. selector'[s] = selector[s]
          BY <3>1, <4>1, <4>3
        <5>2. QED
          BY <5>1 DEF ServiceBackend
      <4>4. QED
        BY <4>2, <4>3
    <3>2. QED
      BY <2>2, <2>3, <3>1 DEF Apply, clusterVars
  <2>4. CASE ControllerStep
    <3>1. \/ \E r \in Services : BootRead(r)
          \/ RunCommand \/ ReconcileDone \/ ReconcileFails
      BY <2>4 DEF ControllerStep, Controller, Startup, Round, StartRound, LoopRead, LoopReadFails, SampleMissing,
         SampleIaas, SampleFaas, MoveDone, MoveFails
    <3>2. CASE RunCommand \/ ReconcileFails
      <4>1. pc = "reconcile" /\ step \in 1 .. Len(Plan(target))
        BY <2>1, <3>2, PlanLength
           DEF RunCommand, ReconcileFails, CommandRaises, IInv, TypeOK
      <4>2. UNCHANGED selector \/ Apply(cur, target, Plan(target)[step])
        BY <3>2 DEF RunCommand, ReconcileFails, CommandRaises, TimesOut, Errs, clusterVars
      <4>3. QED
        BY <2>2, <2>3, <4>1, <4>2
    <3>3. CASE ReconcileDone \/ \E r \in Services : BootRead(r)
      BY <2>2, <3>3 DEF ReconcileDone, BootRead, clusterVars
    <3>4. QED
      BY <3>1, <3>2, <3>3
  <2>5. ~ ForceCommand
    <3>1. nth \in 1 .. 7 /\ nth' = nth
      BY DEF SuiteIInv, SuiteTypeOK, suiteVars
    <3>2. ForceCommand => nth' = nth + 1 \/ nth' = nth + 2
      BY DEF ForceCommand
    <3>3. QED
      BY <3>1, <3>2
  <2>6. CASE Pause \/ (\E r \in Services : ForceNext(r)) \/ ForceDone \/ Resume \/ ScenarioEnds
    BY <2>2, <2>6 DEF Pause, ForceNext, ForceDone, Resume, ScenarioEnds, vars, clusterVars
  <2>7. CASE Kill \/ CrashPod \/ Start
    BY <2>2, <2>7 DEF Kill, CrashPod, Crash, Start, Restart, clusterVars
  <2>8. CASE EnvironmentStep
    BY <2>2, <2>8 DEF EnvironmentStep, Environment, ClusterStep, PodReady, PodGone, PodFails,
       LoadChanges, Tick, CalmDown, controllerVars, clusterVars
  <2>9. CASE Overtake \/ LingerEnds \/ \E r \in Services : Linger(r)
    BY <2>9 DEF Overtake, LingerEnds, Linger, SuiteIInv, OverlapIsMishap
  <2>10. QED
    BY <2>4, <2>5, <2>6, <2>7, <2>8, <2>9 DEF SuiteNext
<1>2. QED
  BY <1>1, SuiteInductive, PTL DEF SuiteSpec, StartupKeepsRoutes
=============================================================================
