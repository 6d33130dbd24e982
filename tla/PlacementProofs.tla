-------------------------- MODULE PlacementProofs --------------------------
(* Theorems about the placement controller, for any set of services, any   *)
(* thresholds and any cooldown.                                            *)
EXTENDS Placement, TLAPS

\* The pair of ghosts is an abbreviation, expanded throughout.
USE DEF ghosts

----------------------------------------------------------------------------
(* The command lists. *)

\* The move to the function, command by command.
LEMMA PlanFaas ==
  /\ Len(Plan(FAAS)) = 6
  /\ Plan(FAAS)[1] = Up("function") /\ Plan(FAAS)[2] = Wait("function")
  /\ Plan(FAAS)[3] = Up("bridge") /\ Plan(FAAS)[4] = Wait("bridge")
  /\ Plan(FAAS)[5] = Patch /\ Plan(FAAS)[6] = Down("iaas")
BY DEF Plan, FAAS

\* The move to the container, command by command.
LEMMA PlanIaas ==
  /\ Len(Plan(IAAS)) = 5
  /\ Plan(IAAS)[1] = Up("iaas") /\ Plan(IAAS)[2] = Wait("iaas")
  /\ Plan(IAAS)[3] = Patch
  /\ Plan(IAAS)[4] = Down("bridge") /\ Plan(IAAS)[5] = Down("function")
BY DEF Plan, FAAS, IAAS

\* Both lists are finite sequences of commands.
LEMMA PlanLength ==
  ASSUME NEW b \in Backend
  PROVE  Len(Plan(b)) \in {5, 6}
BY PlanFaas, PlanIaas DEF Backend

\* What a command works on is a deployment of the service.
LEMMA PlanTier ==
  ASSUME NEW b \in Backend, NEW i \in 1 .. Len(Plan(b))
  PROVE  /\ Plan(b)[i].op \in {"up", "down", "wait", "patch"}
         /\ Plan(b)[i].op # "patch" => Plan(b)[i].tier \in Tier
<1>1. CASE b = FAAS
  <2>1. i \in 1 .. 6
    BY <1>1, PlanFaas
  <2>2. QED
    BY <1>1, <2>1, PlanFaas DEF Up, Down, Wait, Patch, Tier
<1>2. CASE b = IAAS
  <2>1. i \in 1 .. 5
    BY <1>2, PlanIaas
  <2>2. QED
    BY <1>2, <2>1, PlanIaas DEF Up, Down, Wait, Patch, Tier
<1>3. QED
  BY <1>1, <1>2 DEF Backend

----------------------------------------------------------------------------
(* Type correctness. *)

\* A command carried out leaves a well-typed cluster.
LEMMA ApplyType ==
  ASSUME ClusterTypeOK, NEW s \in Services, NEW b \in Backend,
         NEW i \in 1 .. Len(Plan(b)), Apply(s, b, Plan(b)[i])
  PROVE  ClusterTypeOK'
<1> DEFINE c == Plan(b)[i]
<1>1. c.op # "patch" => <<s, c.tier>> \in Deployment
  BY PlanTier DEF Deployment
<1>2. CASE c.op = "up"
  BY <1>1, <1>2 DEF Apply, ClusterTypeOK
<1>3. CASE c.op = "down"
  BY <1>1, <1>3 DEF Apply, ClusterTypeOK
<1>4. CASE c.op = "wait"
  BY <1>4 DEF Apply, ClusterTypeOK, clusterVars
<1>5. CASE c.op = "patch"
  <2>1. /\ selector' = [selector EXCEPT ![s] = [app |-> @.app, backend |-> b]]
        /\ UNCHANGED <<scaled, ready>>
    BY <1>5 DEF Apply
  <2>2. selector' \in [Services -> Selector]
    BY <2>1 DEF ClusterTypeOK, Selector
  <2>3. QED
    BY <2>1, <2>2 DEF ClusterTypeOK
<1>6. QED
  BY <1>2, <1>3, <1>4, <1>5, PlanTier

\* A command that raises leaves a well-typed cluster.
LEMMA RaisesType ==
  ASSUME TypeOK, CommandRaises
  PROVE  ClusterTypeOK'
<1>1. step \in 1 .. Len(Plan(target)) /\ cur \in Services /\ target \in Backend
  BY PlanLength DEF TypeOK, CommandRaises
<1>2. CASE UNCHANGED clusterVars
  BY <1>2 DEF TypeOK, ClusterTypeOK, clusterVars
<1>3. CASE Apply(cur, target, Plan(target)[step])
  BY <1>1, <1>3, ApplyType DEF TypeOK
<1>4. QED
  BY <1>2, <1>3 DEF CommandRaises, TimesOut, Errs

\* The end of a visit keeps the loop's own variables well-typed.
LEMMA EndVisitType ==
  ASSUME TypeOK, NEW s \in Services, NEW l \in {"boot", "loop"}, EndVisit(s, l)
  PROVE  /\ pc' \in {"boot", "loop", "round"}
         /\ todo' \subseteq Services
         /\ pc' \in {"boot", "loop"} => todo' # {}
         /\ target' \in Backend
         /\ step' \in 1 .. Len(Plan(target')) + 1
<1>1. target' = IAAS /\ step' = 1
  BY DEF EndVisit
<1>2. QED
  BY <1>1, PlanIaas, SMTT(30) DEF EndVisit, TypeOK, Backend

\* A selector names a backend or none.
LEMMA ServiceBackendType ==
  ASSUME ClusterTypeOK, NEW s \in Services
  PROVE  ServiceBackend(s) \in Backend \cup {NONE}
BY DEF ClusterTypeOK, Selector, ServiceBackend

\* A window counter never exceeds its threshold.
LEMMA CountType ==
  ASSUME NEW threshold \in Nat \ {0}, NEW w \in 0 .. threshold, NEW counts \in BOOLEAN
  PROVE  Count(w, counts, threshold) \in 0 .. threshold
BY DEF Count

\* Clocks run down to 0.
LEMMA TickType ==
  ASSUME NEW ticks \in [Services -> 0 .. COOLDOWN]
  PROVE  TickOf(ticks) \in [Services -> 0 .. COOLDOWN]
<1>1. ASSUME NEW n \in 0 .. COOLDOWN
      PROVE  (IF n > 0 THEN n - 1 ELSE 0) \in 0 .. COOLDOWN
  BY WindowsAssumption
<1>2. \A s \in Services : ticks[s] \in 0 .. COOLDOWN
  OBVIOUS
<1>3. QED
  BY <1>1, <1>2 DEF TickOf

\* The controller starts well-typed.
LEMMA InitType == Init => TypeOK
<1> SUFFICES ASSUME Init PROVE TypeOK
  OBVIOUS
<1>1. ClusterTypeOK
  BY ClusterAssumption DEF Init, ClusterInit, ClusterTypeOK, Deployment, Tier
<1>2. step \in 1 .. Len(Plan(target)) + 1
  BY PlanIaas DEF Init
<1>3. /\ low \in [Services -> 0 .. LOW_WINDOWS_TO_FAAS]
      /\ high \in [Services -> 0 .. HIGH_WINDOWS_TO_IAAS]
      /\ cooling \in [Services -> 0 .. COOLDOWN]
      /\ resting \in [Services -> 0 .. COOLDOWN]
  BY WindowsAssumption DEF Init
<1>4. /\ pc \in PCs /\ todo \subseteq Services /\ cur \in Services
      /\ pc \in {"boot", "loop"} => todo # {}
      /\ pc # "down"
      /\ pc \notin {"reconcile", "sample", "move"}
      /\ target \in Backend
      /\ frozen \subseteq Services /\ forgotten \subseteq Services
      /\ calm \in BOOLEAN
      /\ state \in [Services -> Backend \cup {UNSET}]
      /\ cpu \in [Services -> Samples]
  BY ClusterAssumption DEF Init, PCs, Backend
<1>5. QED
  BY <1>1, <1>2, <1>3, <1>4 DEF TypeOK

\* Startup keeps the types.
LEMMA StartupType ==
  ASSUME TypeOK, Startup
  PROVE  TypeOK'
<1>1. ASSUME NEW s \in Services, BootRead(s)
      PROVE  TypeOK'
  <2>1. target' \in Backend
    BY <1>1, ServiceBackendType DEF BootRead, TypeOK, Backend
  <2>2. step' \in 1 .. Len(Plan(target')) + 1
    BY <1>1, <2>1, PlanLength DEF BootRead
  <2>3. QED
    BY <1>1, <2>1, <2>2 DEF BootRead, TypeOK, ClusterTypeOK, clusterVars, PCs
<1>2. CASE ReconcileDone
  <2>1. /\ pc' \in {"boot", "loop", "round"} /\ todo' \subseteq Services
        /\ pc' \in {"boot", "loop"} => todo' # {}
        /\ target' \in Backend /\ step' \in 1 .. Len(Plan(target')) + 1
    BY <1>2, EndVisitType DEF ReconcileDone, TypeOK
  <2>2. QED
    BY <1>2, <2>1 DEF ReconcileDone, TypeOK, ClusterTypeOK, clusterVars, PCs
<1>3. CASE ReconcileFails
  <2>1. /\ pc' \in {"boot", "loop", "round"} /\ todo' \subseteq Services
        /\ pc' \in {"boot", "loop"} => todo' # {}
        /\ target' \in Backend /\ step' \in 1 .. Len(Plan(target')) + 1
    BY <1>3, EndVisitType DEF ReconcileFails, TypeOK
  <2>2. ClusterTypeOK'
    BY <1>3, RaisesType DEF ReconcileFails
  <2>3. QED
    BY <1>3, <2>1, <2>2 DEF ReconcileFails, TypeOK, PCs, Backend
<1>4. QED
  BY <1>1, <1>2, <1>3 DEF Startup

\* A command of the running list keeps the types.
LEMMA RunCommandType ==
  ASSUME TypeOK, RunCommand
  PROVE  TypeOK'
<1>1. step \in 1 .. Len(Plan(target)) /\ cur \in Services /\ target \in Backend
  BY PlanLength DEF TypeOK, RunCommand
<1>2. ClusterTypeOK'
  BY <1>1, ApplyType DEF TypeOK, RunCommand
<1>3. step' \in 1 .. Len(Plan(target')) + 1
  BY <1>1, PlanLength DEF RunCommand
<1>4. QED
  BY <1>2, <1>3 DEF RunCommand, TypeOK

\* A decision keeps the types of the loop's own variables.
LEMMA DecideType ==
  ASSUME TypeOK, pc = "sample", NEW b \in Backend, NEW full \in BOOLEAN, Decide(b, full)
  PROVE  /\ pc' \in {"loop", "round", "move"}
         /\ todo' \subseteq Services
         /\ pc' = "loop" => todo' # {}
         /\ pc' = "move" => cur \in todo'
         /\ target' \in Backend
         /\ step' \in 1 .. Len(Plan(target')) + 1
<1>1. CASE full /\ cur \notin frozen
  BY <1>1, PlanLength DEF Decide, TypeOK
<1>2. CASE ~ (full /\ cur \notin frozen)
  <2>1. EndVisit(cur, "loop")
    BY <1>2 DEF Decide
  <2>2. pc' # "boot" /\ pc' # "move"
    BY <2>1 DEF EndVisit
  <2>3. QED
    BY <2>1, <2>2, EndVisitType DEF TypeOK
<1>3. QED
  BY <1>1, <1>2

\* A round keeps the types.
LEMMA RoundType ==
  ASSUME TypeOK, Round
  PROVE  TypeOK'
<1>1. CASE StartRound
  BY <1>1, ClusterAssumption DEF StartRound, TypeOK, ClusterTypeOK, clusterVars, PCs
<1>2. ASSUME NEW s \in Services, LoopRead(s)
      PROVE  TypeOK'
  <2>1. state' \in [Services -> Backend \cup {UNSET}]
    BY <1>2, ServiceBackendType DEF LoopRead, TypeOK
  <2>2. /\ low' \in [Services -> 0 .. LOW_WINDOWS_TO_FAAS]
        /\ high' \in [Services -> 0 .. HIGH_WINDOWS_TO_IAAS]
    BY <1>2, WindowsAssumption DEF LoopRead, TypeOK
  <2>3. QED
    BY <1>2, <2>1, <2>2 DEF LoopRead, TypeOK, ClusterTypeOK, clusterVars, PCs
<1>3. ASSUME NEW s \in Services, LoopReadFails(s)
      PROVE  TypeOK'
  <2>1. /\ pc' \in {"boot", "loop", "round"} /\ todo' \subseteq Services
        /\ pc' \in {"boot", "loop"} => todo' # {}
        /\ target' \in Backend /\ step' \in 1 .. Len(Plan(target')) + 1
    BY <1>3, EndVisitType DEF LoopReadFails
  <2>2. QED
    BY <1>3, <2>1 DEF LoopReadFails, TypeOK, ClusterTypeOK, clusterVars, PCs
<1>4. CASE SampleMissing
  <2>1. /\ pc' \in {"boot", "loop", "round"} /\ todo' \subseteq Services
        /\ pc' \in {"boot", "loop"} => todo' # {}
        /\ target' \in Backend /\ step' \in 1 .. Len(Plan(target')) + 1
    BY <1>4, EndVisitType DEF SampleMissing, TypeOK
  <2>2. QED
    BY <1>4, <2>1 DEF SampleMissing, TypeOK, ClusterTypeOK, clusterVars, PCs
<1>5. CASE SampleIaas
  <2> DEFINE windows == Count(low[cur], cpu[cur] = "low", LOW_WINDOWS_TO_FAAS)
             full == windows >= LOW_WINDOWS_TO_FAAS
  <2>1. windows \in 0 .. LOW_WINDOWS_TO_FAAS
    BY CountType, WindowsAssumption DEF TypeOK
  <2>2. /\ low' \in [Services -> 0 .. LOW_WINDOWS_TO_FAAS]
        /\ high' \in [Services -> 0 .. HIGH_WINDOWS_TO_IAAS]
    BY <1>5, <2>1, WindowsAssumption DEF SampleIaas, TypeOK
  <2>3. /\ pc' \in {"loop", "round", "move"} /\ todo' \subseteq Services
        /\ pc' = "loop" => todo' # {}
        /\ pc' = "move" => cur \in todo'
        /\ target' \in Backend /\ step' \in 1 .. Len(Plan(target')) + 1
    <3> HIDE DEF windows
    <3>1. FAAS \in Backend /\ full \in BOOLEAN /\ Decide(FAAS, full) /\ pc = "sample"
      BY <1>5 DEF SampleIaas, Backend, windows
    <3>2. QED
      BY <3>1, DecideType
  <2>4. QED
    BY <1>5, <2>2, <2>3 DEF SampleIaas, TypeOK, ClusterTypeOK, clusterVars, PCs
<1>6. CASE SampleFaas
  <2> DEFINE windows == Count(high[cur], cpu[cur] = "high", HIGH_WINDOWS_TO_IAAS)
             full == windows >= HIGH_WINDOWS_TO_IAAS
  <2>1. windows \in 0 .. HIGH_WINDOWS_TO_IAAS
    BY CountType, WindowsAssumption DEF TypeOK
  <2>2. /\ low' \in [Services -> 0 .. LOW_WINDOWS_TO_FAAS]
        /\ high' \in [Services -> 0 .. HIGH_WINDOWS_TO_IAAS]
    BY <1>6, <2>1, WindowsAssumption DEF SampleFaas, TypeOK
  <2>3. /\ pc' \in {"loop", "round", "move"} /\ todo' \subseteq Services
        /\ pc' = "loop" => todo' # {}
        /\ pc' = "move" => cur \in todo'
        /\ target' \in Backend /\ step' \in 1 .. Len(Plan(target')) + 1
    <3> HIDE DEF windows
    <3>1. IAAS \in Backend /\ full \in BOOLEAN /\ Decide(IAAS, full) /\ pc = "sample"
      BY <1>6 DEF SampleFaas, Backend, windows
    <3>2. QED
      BY <3>1, DecideType
  <2>4. QED
    BY <1>6, <2>2, <2>3 DEF SampleFaas, TypeOK, ClusterTypeOK, clusterVars, PCs
<1>7. CASE MoveDone
  <2>1. /\ pc' \in {"boot", "loop", "round"} /\ todo' \subseteq Services
        /\ pc' \in {"boot", "loop"} => todo' # {}
        /\ target' \in Backend /\ step' \in 1 .. Len(Plan(target')) + 1
    BY <1>7, EndVisitType DEF MoveDone, TypeOK
  <2>2. /\ state' \in [Services -> Backend \cup {UNSET}]
        /\ low' \in [Services -> 0 .. LOW_WINDOWS_TO_FAAS]
        /\ high' \in [Services -> 0 .. HIGH_WINDOWS_TO_IAAS]
        /\ cooling' \in [Services -> 0 .. COOLDOWN]
        /\ resting' \in [Services -> 0 .. COOLDOWN]
    BY <1>7, WindowsAssumption DEF MoveDone, TypeOK
  <2>3. QED
    BY <1>7, <2>1, <2>2 DEF MoveDone, TypeOK, ClusterTypeOK, clusterVars, PCs
<1>8. CASE MoveFails
  <2>1. /\ pc' \in {"boot", "loop", "round"} /\ todo' \subseteq Services
        /\ pc' \in {"boot", "loop"} => todo' # {}
        /\ target' \in Backend /\ step' \in 1 .. Len(Plan(target')) + 1
    BY <1>8, EndVisitType DEF MoveFails, TypeOK
  <2>2. ClusterTypeOK'
    BY <1>8, RaisesType DEF MoveFails
  <2>3. QED
    BY <1>8, <2>1, <2>2 DEF MoveFails, TypeOK, PCs
<1>9. QED
  BY <1>1, <1>2, <1>3, <1>4, <1>5, <1>6, <1>7, <1>8 DEF Round

\* So do a crash, a restart and the environment.
LEMMA RestType ==
  ASSUME TypeOK, Crash \/ Restart \/ Environment
  PROVE  TypeOK'
<1>1. CASE Crash
  <2>1. /\ low' \in [Services -> 0 .. LOW_WINDOWS_TO_FAAS]
        /\ high' \in [Services -> 0 .. HIGH_WINDOWS_TO_IAAS]
        /\ cooling' \in [Services -> 0 .. COOLDOWN]
    BY <1>1, WindowsAssumption DEF Crash, Stop
  <2>2. target' \in Backend /\ step' \in 1 .. Len(Plan(target')) + 1
    BY <1>1, PlanIaas DEF Crash, Stop, Backend
  <2>3. QED
    BY <1>1, <2>1, <2>2 DEF Crash, Stop, TypeOK, ClusterTypeOK, clusterVars, PCs
<1>2. CASE Restart
  <2>1. todo # {}
    BY <1>2, ClusterAssumption DEF Restart, TypeOK
  <2>2. QED
    BY <1>2, <2>1 DEF Restart, TypeOK, ClusterTypeOK, clusterVars, PCs
<1>3. CASE ClusterStep
  <2>1. ClusterTypeOK'
    BY <1>3 DEF ClusterStep, PodReady, PodGone, PodFails, TypeOK, ClusterTypeOK
  <2>2. QED
    BY <1>3, <2>1 DEF ClusterStep, controllerVars, TypeOK
<1>4. ASSUME NEW s \in Services, LoadChanges(s)
      PROVE  TypeOK'
  BY <1>4 DEF LoadChanges, TypeOK, ClusterTypeOK, clusterVars, controllerVars
<1>5. CASE Tick
  <2>1. cooling' \in [Services -> 0 .. COOLDOWN] /\ resting' \in [Services -> 0 .. COOLDOWN]
    BY <1>5, TickType DEF Tick, TypeOK
  <2>2. QED
    BY <1>5, <2>1 DEF Tick, TypeOK, ClusterTypeOK, clusterVars
<1>6. CASE CalmDown
  BY <1>6 DEF CalmDown, TypeOK, ClusterTypeOK, clusterVars, controllerVars
<1>7. QED
  BY <1>1, <1>2, <1>3, <1>4, <1>5, <1>6 DEF Environment

\* Every step keeps the types.
LEMMA NextType == TypeOK /\ [Next]_vars => TypeOK'
<1> SUFFICES ASSUME TypeOK, [Next]_vars
             PROVE  TypeOK'
  OBVIOUS
<1>1. CASE UNCHANGED vars
  BY <1>1 DEF vars, clusterVars, controllerVars, TypeOK, ClusterTypeOK
<1>2. CASE Next
  BY <1>2, StartupType, RunCommandType, RoundType, RestType DEF Next, Controller
<1>3. QED
  BY <1>1, <1>2

\* Every variable keeps its type: in particular a visit always concerns a
\* service of the round, and a command list never runs past its end.
THEOREM TypeCorrect == Spec => []TypeOK
BY InitType, NextType, PTL DEF Spec

----------------------------------------------------------------------------
(* The order of the commands in a plan. *)

\* Every wait follows the scale-up of the same deployment.
LEMMA WaitAfterUp ==
  ASSUME NEW b \in Backend, NEW i \in 1 .. Len(Plan(b)), Plan(b)[i].op = "wait"
  PROVE  i - 1 \in 1 .. Len(Plan(b)) /\ Plan(b)[i - 1] = Up(Plan(b)[i].tier)
<1>1. CASE b = FAAS
  <2>1. i \in {2, 4}
    BY <1>1, PlanFaas DEF Up, Down, Wait, Patch
  <2>2. QED
    BY <1>1, <2>1, PlanFaas DEF Wait
<1>2. CASE b = IAAS
  <2>1. i = 2
    BY <1>2, PlanIaas DEF Up, Down, Wait, Patch
  <2>2. QED
    BY <1>2, <2>1, PlanIaas DEF Wait
<1>3. QED
  BY <1>1, <1>2 DEF Backend

\* No command undoes an earlier one of its plan.
LEMMA NothingUndone ==
  ASSUME NEW b \in Backend, NEW j \in 1 .. Len(Plan(b)), NEW i \in 1 .. j - 1
  PROVE  /\ Plan(b)[i].op = "up" /\ Plan(b)[j].op = "down" =>
              Plan(b)[i].tier # Plan(b)[j].tier
         /\ ~ (Plan(b)[i].op = "down" /\ Plan(b)[j].op = "up")
<1>1. CASE b = FAAS
  <2>1. j \in 1 .. 6 /\ i \in 1 .. 6 /\ i < j
    BY <1>1, PlanFaas
  <2>2. Plan(b)[i].op = "down" => i = 6
    BY <1>1, <2>1, PlanFaas DEF Up, Wait, Patch
  <2>3. Plan(b)[j].op = "down" => j = 6 /\ Plan(b)[j].tier = "iaas"
    BY <1>1, <2>1, PlanFaas DEF Up, Wait, Patch, Down
  <2>4. Plan(b)[i].op = "up" => Plan(b)[i].tier # "iaas"
    BY <1>1, <2>1, PlanFaas DEF Up, Wait, Patch, Down
  <2>5. QED
    BY <2>1, <2>2, <2>3, <2>4
<1>2. CASE b = IAAS
  <2>1. j \in 1 .. 5 /\ i \in 1 .. 5 /\ i < j
    BY <1>2, PlanIaas
  <2>2. Plan(b)[i].op = "down" => i \in {4, 5}
    BY <1>2, <2>1, PlanIaas DEF Up, Wait, Patch
  <2>3. Plan(b)[j].op = "down" => Plan(b)[j].tier # "iaas"
    BY <1>2, <2>1, PlanIaas DEF Up, Wait, Patch, Down
  <2>4. Plan(b)[i].op = "up" => i = 1 /\ Plan(b)[i].tier = "iaas"
    BY <1>2, <2>1, PlanIaas DEF Up, Wait, Patch, Down
  <2>5. Plan(b)[j].op = "up" => j = 1
    BY <1>2, <2>1, PlanIaas DEF Up, Wait, Patch, Down
  <2>6. QED
    BY <2>1, <2>2, <2>3, <2>4, <2>5
<1>3. QED
  BY <1>1, <1>2 DEF Backend

\* The selector is patched only after each deployment of the new backend was
\* scaled up and waited for.
LEMMA PatchAfterWaits ==
  ASSUME NEW b \in Backend, NEW i \in 1 .. Len(Plan(b)), Plan(b)[i].op = "patch",
         NEW t \in TiersOf(b)
  PROVE  /\ \E k \in 1 .. i - 1 : Plan(b)[k] = Up(t)
         /\ \E k \in 1 .. i - 1 : Plan(b)[k] = Wait(t)
<1>1. CASE b = FAAS
  <2>1. i = 5
    BY <1>1, PlanFaas DEF Up, Down, Wait, Patch
  <2>2. t \in {"bridge", "function"}
    BY <1>1 DEF TiersOf, IAAS, FAAS
  <2>3. 1 \in 1 .. i - 1 /\ 2 \in 1 .. i - 1 /\ 3 \in 1 .. i - 1 /\ 4 \in 1 .. i - 1
    BY <2>1
  <2>4. QED
    BY <1>1, <2>2, <2>3, PlanFaas
<1>2. CASE b = IAAS
  <2>1. i = 3
    BY <1>2, PlanIaas DEF Up, Down, Wait, Patch
  <2>2. t = "iaas"
    BY <1>2 DEF TiersOf
  <2>3. 1 \in 1 .. i - 1 /\ 2 \in 1 .. i - 1
    BY <2>1
  <2>4. QED
    BY <1>2, <2>2, <2>3, PlanIaas
<1>3. QED
  BY <1>1, <1>2 DEF Backend

\* Deployments are scaled down only after the selector was patched, and only
\* those of the other backend.
LEMMA DownAfterPatch ==
  ASSUME NEW b \in Backend, NEW i \in 1 .. Len(Plan(b)), Plan(b)[i].op = "down"
  PROVE  /\ \E k \in 1 .. i - 1 : Plan(b)[k] = Patch
         /\ Plan(b)[i].tier \notin TiersOf(b)
<1>1. CASE b = FAAS
  <2>1. i = 6
    BY <1>1, PlanFaas DEF Up, Down, Wait, Patch
  <2>2. 5 \in 1 .. i - 1
    BY <2>1
  <2>3. QED
    BY <1>1, <2>1, <2>2, PlanFaas DEF TiersOf, IAAS, FAAS, Down
<1>2. CASE b = IAAS
  <2>1. i \in {4, 5}
    BY <1>2, PlanIaas DEF Up, Down, Wait, Patch
  <2>2. 3 \in 1 .. i - 1
    BY <2>1
  <2>3. QED
    BY <1>2, <2>1, <2>2, PlanIaas DEF TiersOf, Down
<1>3. QED
  BY <1>1, <1>2 DEF Backend

----------------------------------------------------------------------------
(* The inductive invariant. *)

\* The situation in which command j of the plan that leads s to b runs.
Running(s, b, j) ==
  /\ TypeOK
  /\ s \in Services /\ b \in Backend /\ j \in 1 .. Len(Plan(b))
  /\ \A i \in 1 .. j - 1 : Stands(s, b, Plan(b)[i])

\* What is known of the variables while a command list runs.
LEMMA RunningTypes ==
  ASSUME NEW s, NEW b, NEW j, Running(s, b, j)
  PROVE  /\ Plan(b)[j].op \in {"up", "down", "wait", "patch"}
         /\ selector \in [Services -> Selector]
BY PlanTier DEF Running, TypeOK, ClusterTypeOK

\* The next command, carried out, never takes a routed backend down and
\* routes only to a backend that is up.
LEMMA ApplyRoute ==
  ASSUME NEW s, NEW b, NEW j, Running(s, b, j), Apply(s, b, Plan(b)[j]), RouteStands
  PROVE  RouteStands'
<1> DEFINE c == Plan(b)[j]
<1>0. /\ RouteStands /\ s \in Services /\ b \in Backend /\ j \in 1 .. Len(Plan(b))
      /\ \A i \in 1 .. j - 1 : Stands(s, b, Plan(b)[i])
  BY DEF Running
<1>1. CASE c.op = "up"
  BY <1>0, <1>1 DEF Apply, RouteStands
<1>2. CASE c.op = "wait"
  BY <1>0, <1>2 DEF Apply, RouteStands, clusterVars
<1>3. CASE c.op = "down"
  <2>1. PICK k \in 1 .. j - 1 : Plan(b)[k] = Patch
    BY <1>0, <1>3, DownAfterPatch
  <2>2. Stands(s, b, Plan(b)[k]) /\ Plan(b)[k].op = "patch"
    BY <1>0, <2>1 DEF Patch
  <2>3. selector[s].backend = b
    BY <2>2 DEF Stands
  <2>4. <<s, c.tier>> \notin DeploymentsOf(s, b)
    BY <1>0, <1>3, DownAfterPatch DEF DeploymentsOf
  <2>5. \A r \in Services : <<s, c.tier>> \notin DeploymentsOf(r, selector[r].backend)
    BY <2>3, <2>4 DEF DeploymentsOf
  <2>6. scaled' = scaled \ {<<s, c.tier>>} /\ UNCHANGED <<selector, ready>>
    BY <1>3 DEF Apply
  <2>7. QED
    BY <1>0, <2>5, <2>6 DEF RouteStands
<1>4. CASE c.op = "patch"
  <2>1. ASSUME NEW t \in TiersOf(b)
        PROVE  /\ <<s, t>> \in scaled
               /\ ~ PodsMayFail => <<s, t>> \in ready
    <3>1. PICK k \in 1 .. j - 1 : Plan(b)[k] = Up(t)
      BY <1>0, <1>4, PatchAfterWaits
    <3>2. PICK m \in 1 .. j - 1 : Plan(b)[m] = Wait(t)
      BY <1>0, <1>4, PatchAfterWaits
    <3>3. /\ Stands(s, b, Plan(b)[k]) /\ Plan(b)[k].op = "up" /\ Plan(b)[k].tier = t
          /\ Stands(s, b, Plan(b)[m]) /\ Plan(b)[m].op = "wait" /\ Plan(b)[m].tier = t
      BY <1>0, <3>1, <3>2 DEF Up, Wait
    <3>4. QED
      BY <3>3 DEF Stands
  <2>2. /\ DeploymentsOf(s, b) \subseteq scaled
        /\ ~ PodsMayFail => DeploymentsOf(s, b) \subseteq ready
    BY <2>1 DEF DeploymentsOf
  <2>3. /\ selector' = [selector EXCEPT ![s] = [app |-> @.app, backend |-> b]]
        /\ UNCHANGED <<scaled, ready>>
    BY <1>4 DEF Apply
  <2>4. /\ selector'[s].app = NONE /\ selector'[s].backend = b
        /\ \A r \in Services \ {s} : selector'[r] = selector[r]
    BY <1>0, <2>3, RunningTypes DEF RouteStands
  <2>5. QED
    BY <1>0, <2>2, <2>3, <2>4 DEF RouteStands
<1>5. QED
  BY <1>1, <1>2, <1>3, <1>4, RunningTypes

\* The earlier commands of the plan still stand after the next one, and so
\* does that one.
LEMMA ApplyStands ==
  ASSUME NEW s, NEW b, NEW j, Running(s, b, j), Apply(s, b, Plan(b)[j]),
         NEW i \in 1 .. j
  PROVE  Stands(s, b, Plan(b)[i])'
<1> DEFINE c == Plan(b)[j]
           e == Plan(b)[i]
<1>0. /\ s \in Services /\ b \in Backend /\ j \in 1 .. Len(Plan(b))
      /\ \A k \in 1 .. j - 1 : Stands(s, b, Plan(b)[k])
      /\ c.op \in {"up", "down", "wait", "patch"}
      /\ selector \in [Services -> Selector]
  BY RunningTypes DEF Running
<1>1. i # j => i \in 1 .. j - 1 /\ Stands(s, b, e)
  BY <1>0
<1>2. i # j => /\ e.op = "up" /\ c.op = "down" => e.tier # c.tier
               /\ ~ (e.op = "down" /\ c.op = "up")
  BY <1>0, <1>1, NothingUndone
<1>3. CASE c.op = "up"
  BY <1>1, <1>2, <1>3 DEF Apply, Stands
<1>4. CASE c.op = "down"
  BY <1>1, <1>2, <1>4 DEF Apply, Stands
<1>5. CASE c.op = "wait"
  <2>1. j - 1 \in 1 .. j - 1 /\ Plan(b)[j - 1] = Up(c.tier)
    BY <1>0, <1>5, WaitAfterUp
  <2>2. <<s, c.tier>> \in scaled
    BY <1>0, <2>1 DEF Stands, Up
  <2>3. <<s, c.tier>> \in ready /\ UNCHANGED clusterVars
    BY <1>5, <2>2 DEF Apply, RolledOut
  <2>4. QED
    BY <1>1, <1>5, <2>3 DEF Stands, clusterVars
<1>6. CASE c.op = "patch"
  <2>1. /\ selector' = [selector EXCEPT ![s] = [app |-> @.app, backend |-> b]]
        /\ UNCHANGED <<scaled, ready>>
    BY <1>6 DEF Apply
  <2>2. selector'[s].backend = b
    BY <1>0, <2>1
  <2>3. QED
    BY <1>1, <1>6, <2>1, <2>2 DEF Stands
<1>7. QED
  BY <1>0, <1>3, <1>4, <1>5, <1>6

\* The next command of a move or reconcile keeps the invariant.
LEMMA RunCommandInv ==
  ASSUME IInv, RunCommand
  PROVE  PlanStands' /\ RouteStands'
<1>1. PICK s \in Services, b \in Backend, j \in Nat : s = cur /\ b = target /\ j = step
  BY PlanLength DEF IInv, TypeOK
<1>2. Running(s, b, j) /\ Apply(s, b, Plan(b)[j])
  BY <1>1, PlanLength DEF Running, IInv, TypeOK, PlanStands, RunCommand
<1>3. RouteStands'
  BY <1>2, ApplyRoute DEF IInv
<1>4. \A i \in 1 .. j : Stands(s, b, Plan(b)[i])'
  BY <1>2, ApplyStands
<1>5. step' - 1 = j /\ cur' = s /\ target' = b
  BY <1>1 DEF RunCommand
<1>6. PlanStands'
  BY <1>4, <1>5 DEF PlanStands, Stands
<1>7. QED
  BY <1>3, <1>6

\* A command that raises keeps the route, whether it took effect or not.
LEMMA RaisesInv ==
  ASSUME IInv, CommandRaises
  PROVE  RouteStands'
<1>1. CASE UNCHANGED clusterVars
  BY <1>1 DEF IInv, RouteStands, clusterVars
<1>2. CASE Apply(cur, target, Plan(target)[step])
  <2>1. PICK s \in Services, b \in Backend, j \in Nat : s = cur /\ b = target /\ j = step
    BY PlanLength DEF IInv, TypeOK
  <2>2. Running(s, b, j) /\ Apply(s, b, Plan(b)[j])
    BY <1>2, <2>1, PlanLength DEF Running, IInv, TypeOK, PlanStands, CommandRaises
  <2>3. QED
    BY <2>2, ApplyRoute DEF IInv
<1>3. QED
  BY <1>1, <1>2 DEF CommandRaises, TimesOut, Errs

\* Steps that leave the cluster alone keep the route; they keep the standing
\* of the plan when they start one or none, or leave it as it is.
LEMMA QuietInv ==
  ASSUME IInv, UNCHANGED clusterVars,
         \/ pc' \notin {"reconcile", "move"}
         \/ step' = 1
         \/ UNCHANGED <<pc, cur, target, step>>
  PROVE  PlanStands' /\ RouteStands'
<1>1. RouteStands'
  BY DEF IInv, RouteStands, clusterVars
<1>2. CASE pc' \notin {"reconcile", "move"}
  BY <1>1, <1>2 DEF PlanStands
<1>3. CASE step' = 1
  BY <1>1, <1>3 DEF PlanStands, Stands
<1>4. CASE UNCHANGED <<pc, cur, target, step>>
  BY <1>1, <1>4 DEF IInv, PlanStands, Stands, clusterVars
<1>5. QED
  BY <1>1, <1>2, <1>3, <1>4

\* A visit ends with no command list running.
LEMMA EndVisitIdle ==
  ASSUME NEW s, NEW l \in {"boot", "loop"}, EndVisit(s, l)
  PROVE  pc' \notin {"reconcile", "move"}
BY DEF EndVisit

\* A decision starts a command list at its first command or runs none.
LEMMA DecideQuiet ==
  ASSUME NEW b, NEW full, Decide(b, full)
  PROVE  pc' \notin {"reconcile", "move"} \/ step' = 1
BY EndVisitIdle DEF Decide

\* What pods that come and go leave as it is.
LEMMA PodsStay ==
  ASSUME ClusterStep
  PROVE  /\ UNCHANGED <<selector, scaled, controllerVars>>
         /\ \A e \in Deployment : ~ PodsMayFail /\ e \in scaled /\ e \in ready => e \in ready'
BY DEF ClusterStep, PodReady, PodGone, PodFails

\* What the first commands of a plan achieved outlasts pods that come and go:
\* a pod that was waited for belongs to a deployment that is scaled up.
LEMMA PodsStand ==
  ASSUME ClusterStep, NEW s \in Services, NEW b \in Backend, NEW j \in 0 .. Len(Plan(b)),
         \A k \in 1 .. j : Stands(s, b, Plan(b)[k]),
         NEW i \in 1 .. j
  PROVE  Stands(s, b, Plan(b)[i])'
<1> DEFINE e == Plan(b)[i]
<1>1. i \in 1 .. Len(Plan(b)) /\ Stands(s, b, e) /\ j \in Nat
  BY PlanLength
<1>2. ASSUME e.op = "wait", ~ PodsMayFail
      PROVE  <<s, e.tier>> \in ready'
  <2>1. <<s, e.tier>> \in Deployment
    BY <1>1, <1>2, PlanTier DEF Deployment
  <2>2. i - 1 \in 1 .. j /\ Plan(b)[i - 1] = Up(e.tier)
    BY <1>1, <1>2, WaitAfterUp
  <2>3. Stands(s, b, Up(e.tier))
    BY <2>2
  <2>4. <<s, e.tier>> \in scaled /\ <<s, e.tier>> \in ready
    BY <1>1, <1>2, <2>3 DEF Stands, Up
  <2>5. QED
    BY <1>2, <2>1, <2>4, PodsStay
<1>3. QED
  BY <1>1, <1>2, PodsStay DEF Stands

\* Pods that come and go keep the invariant: none that is routed to goes,
\* unless pods may fail.
LEMMA ClusterStepInv ==
  ASSUME IInv, ClusterStep
  PROVE  PlanStands' /\ RouteStands'
<1>1. /\ UNCHANGED <<selector, scaled, pc, cur, target, step>>
      /\ \A e \in Deployment : ~ PodsMayFail /\ e \in scaled /\ e \in ready => e \in ready'
  BY PodsStay DEF controllerVars
<1>2. RouteStands'
  <2>1. \A r \in Services, b \in Backend :
          DeploymentsOf(r, b) \subseteq Deployment
    BY DEF DeploymentsOf, Deployment, TiersOf, Tier
  <2>2. QED
    BY <1>1, <2>1 DEF IInv, RouteStands
<1>3. PlanStands'
  <2>1. SUFFICES ASSUME pc \in {"reconcile", "move"}, NEW i \in 1 .. step - 1
                 PROVE  Stands(cur, target, Plan(target)[i])'
    BY <1>1 DEF PlanStands
  <2>2. PICK s \in Services, b \in Backend, j \in Nat : s = cur /\ b = target /\ j = step - 1
    BY PlanLength DEF IInv, TypeOK
  <2>3. j \in 0 .. Len(Plan(b)) /\ \A k \in 1 .. j : Stands(s, b, Plan(b)[k])
    BY <2>1, <2>2, PlanLength DEF IInv, TypeOK, PlanStands
  <2>4. Stands(s, b, Plan(b)[i])'
    BY <2>2, <2>3, PodsStand
  <2>5. QED
    BY <1>1, <2>2, <2>4 DEF Stands
<1>4. QED
  BY <1>2, <1>3

\* The manifests of the current form establish the invariant.
LEMMA InitInv ==
  ASSUME Init, Manifests = {[app |-> NONE, backend |-> IAAS]}
  PROVE  IInv
<1>1. \A s \in Services : selector[s] = [app |-> NONE, backend |-> IAAS]
  BY DEF Init, ClusterInit
<1>2. \A s \in Services : DeploymentsOf(s, IAAS) \subseteq scaled /\ scaled = ready
  BY DEF Init, ClusterInit, DeploymentsOf, TiersOf
<1>3. ASSUME NEW s \in Services
      PROVE  selector[s].app = NONE /\ selector[s].backend = IAAS
  BY <1>1 DEF NONE, IAAS
<1>4. RouteStands
  BY <1>2, <1>3 DEF RouteStands, Backend
<1>5. PlanStands
  BY DEF Init, PlanStands
<1>6. QED
  BY <1>4, <1>5, InitType DEF IInv

\* Every step keeps the invariant.
LEMMA NextInv == IInv /\ [Next]_vars => IInv'
<1> SUFFICES ASSUME IInv, [Next]_vars
             PROVE  PlanStands' /\ RouteStands'
  BY NextType DEF IInv
<1>1. CASE UNCHANGED vars
  BY <1>1, QuietInv DEF vars, controllerVars
<1>2. ASSUME NEW s \in Services, BootRead(s)
      PROVE  PlanStands' /\ RouteStands'
  BY <1>2, QuietInv DEF BootRead
<1>3. CASE RunCommand
  BY <1>3, RunCommandInv
<1>4. CASE ReconcileDone
  BY <1>4, QuietInv, EndVisitIdle DEF ReconcileDone
<1>5. CASE ReconcileFails
  <2>1. pc' \notin {"reconcile", "move"}
    BY <1>5, EndVisitIdle DEF ReconcileFails
  <2>2. QED
    BY <1>5, <2>1, RaisesInv DEF ReconcileFails, PlanStands, Stands
<1>6. CASE StartRound
  BY <1>6, QuietInv DEF StartRound
<1>7. ASSUME NEW s \in Services, LoopRead(s)
      PROVE  PlanStands' /\ RouteStands'
  BY <1>7, QuietInv DEF LoopRead
<1>8. ASSUME NEW s \in Services, LoopReadFails(s)
      PROVE  PlanStands' /\ RouteStands'
  BY <1>8, QuietInv, EndVisitIdle DEF LoopReadFails
<1>9. CASE SampleMissing
  BY <1>9, QuietInv, EndVisitIdle DEF SampleMissing
<1>10. CASE SampleIaas
  BY <1>10, QuietInv, DecideQuiet DEF SampleIaas
<1>11. CASE SampleFaas
  BY <1>11, QuietInv, DecideQuiet DEF SampleFaas
<1>12. CASE MoveDone
  BY <1>12, QuietInv, EndVisitIdle DEF MoveDone
<1>13. CASE MoveFails
  <2>1. pc' \notin {"reconcile", "move"}
    BY <1>13, EndVisitIdle DEF MoveFails
  <2>2. QED
    BY <1>13, <2>1, RaisesInv DEF MoveFails, PlanStands, Stands
<1>14. CASE Crash
  BY <1>14, QuietInv DEF Crash, Stop
<1>15. CASE Restart
  BY <1>15, QuietInv DEF Restart
<1>16. CASE ClusterStep
  BY <1>16, ClusterStepInv
<1>17. ASSUME NEW s \in Services, LoadChanges(s)
       PROVE  PlanStands' /\ RouteStands'
  BY <1>17, QuietInv DEF LoadChanges, controllerVars
<1>18. CASE Tick
  BY <1>18, QuietInv DEF Tick
<1>19. CASE CalmDown
  BY <1>19, QuietInv DEF CalmDown, controllerVars
<1>20. QED
  BY <1>1, <1>2, <1>3, <1>4, <1>5, <1>6, <1>7, <1>8, <1>9, <1>10, <1>11, <1>12,
     <1>13, <1>14, <1>15, <1>16, <1>17, <1>18, <1>19
     DEF Next, Controller, Startup, Round, Environment

----------------------------------------------------------------------------
(* The theorems. *)

\* The manifests of k8s/gob/online-boutique-iaas.yaml.
CurrentForm == Manifests = {[app |-> NONE, backend |-> IAAS]}

\* IInv is an invariant: what the commands of a running move or reconcile
\* achieved still stands, and every routed backend is up.
THEOREM Inductive ==
  ASSUME CurrentForm
  PROVE  Spec => []IInv
<1>1. Init => IInv
  BY InitInv DEF CurrentForm
<1>2. QED
  BY <1>1, NextInv, PTL DEF Spec

\* Whatever commands fail and wherever the controller is killed, every
\* service is routed to a backend whose deployments are all scaled up.
THEOREM RoutedStaysScaled ==
  ASSUME CurrentForm
  PROVE  Spec => []RoutedIsScaled
<1>1. IInv => RoutedIsScaled
  <2>1. SUFFICES ASSUME IInv, NEW s \in Services
                 PROVE  Matches(selector[s], selector[s].backend)
    BY DEF IInv, RouteStands, RoutedIsScaled
  <2>2. QED
    BY <2>1 DEF IInv, RouteStands, Matches
<1>2. QED
  BY <1>1, Inductive, PTL

\* If pods do not fail by themselves, placement never interrupts a service.
THEOREM PlacementNeverInterrupts ==
  ASSUME CurrentForm, ~ PodsMayFail
  PROVE  Spec => []AlwaysServed
<1>1. IInv => AlwaysServed
  <2>1. SUFFICES ASSUME IInv, NEW s \in Services
                 PROVE  Matches(selector[s], selector[s].backend)
    BY DEF IInv, RouteStands, AlwaysServed, Serving
  <2>2. QED
    BY <2>1 DEF IInv, RouteStands, Matches
<1>2. QED
  BY <1>1, Inductive, PTL

----------------------------------------------------------------------------
(* The refinement of Routing. *)

\* The backends of s that are scaled up.
UpOf(s) == {b \in Backend : DeploymentsOf(s, b) \subseteq scaled}

\* The backend a deployment belongs to.
Owner(t) == IF t = "iaas" THEN IAAS ELSE FAAS

\* A tier belongs to exactly one backend.
LEMMA OwnerTier ==
  ASSUME NEW t \in Tier, NEW b \in Backend
  PROVE  t \in TiersOf(b) <=> b = Owner(t)
BY DEF Owner, TiersOf, Tier, Backend, IAAS, FAAS

\* The invariant in terms of the mapped variables.
LEMMA RouteUp ==
  ASSUME IInv, NEW s \in Services
  PROVE  ServiceBackend(s) = selector[s].backend /\ ServiceBackend(s) \in UpOf(s)
BY DEF IInv, RouteStands, ServiceBackend, UpOf

\* Scaling one deployment changes at most the backend that owns it.
LEMMA ScalingIsLocal ==
  ASSUME NEW s \in Services, NEW t \in Tier,
         \/ scaled' = scaled \cup {<<s, t>>}
         \/ scaled' = scaled \ {<<s, t>>},
         NEW r \in Services, NEW b \in Backend, r # s \/ b # Owner(t)
  PROVE  (b \in UpOf(r))' <=> b \in UpOf(r)
<1>1. <<s, t>> \notin DeploymentsOf(r, b)
  BY OwnerTier DEF DeploymentsOf
<1>2. QED
  BY <1>1 DEF UpOf

\* A command that is carried out is a step of Routing, or none.
LEMMA ApplyRefines ==
  ASSUME IInv, IInv', NEW s \in Services, NEW b \in Backend,
         NEW j \in 1 .. Len(Plan(b)), Apply(s, b, Plan(b)[j])
  PROVE  [Route!Next]_(Route!vars)
<1> DEFINE c == Plan(b)[j]
           o == Owner(c.tier)
           route == [r \in Services |-> ServiceBackend(r)]
           up == [r \in Services |-> UpOf(r)]
<1>1. /\ c.op \in {"up", "down", "wait", "patch"}
      /\ c.op # "patch" => c.tier \in Tier
  BY PlanTier
<1>2. o \in Backend
  BY DEF Owner, Backend
<1>3. Route!Next <=> \E r \in Services, e \in Backend :
          Route!ScaleUp(r, e) \/ Route!SwitchTo(r, e) \/ Route!ScaleDown(r, e)
  BY DEF Route!Next
<1>4. CASE c.op = "wait"
  BY <1>4 DEF Apply, clusterVars, Route!vars, ServiceBackend
<1>5. CASE c.op = "up"
  <2>1. scaled' = scaled \cup {<<s, c.tier>>} /\ UNCHANGED selector
    BY <1>5 DEF Apply
  <2>2. \A r \in Services, e \in Backend :
          r # s \/ e # o => ((e \in UpOf(r))' <=> e \in UpOf(r))
    BY <1>1, <1>5, <2>1, ScalingIsLocal
  <2>3. route' = route
    BY <2>1 DEF ServiceBackend
  <2>4. o \in UpOf(s) => (o \in UpOf(s))'
    BY <2>1 DEF UpOf
  <2>5. CASE (o \in UpOf(s))'
    <3>1. up' = [up EXCEPT ![s] = @ \cup {o}]
      BY <1>2, <2>2, <2>5 DEF UpOf
    <3>2. Route!ScaleUp(s, o)
      BY <2>3, <3>1 DEF Route!ScaleUp, UpOf
    <3>3. QED
      BY <1>2, <1>3, <3>2
  <2>6. CASE ~ (o \in UpOf(s))'
    <3>1. up' = up
      BY <1>2, <2>2, <2>4, <2>6 DEF UpOf
    <3>2. QED
      BY <2>3, <3>1 DEF Route!vars, UpOf
  <2>7. QED
    BY <2>5, <2>6
<1>6. CASE c.op = "down"
  <2>1. scaled' = scaled \ {<<s, c.tier>>} /\ UNCHANGED selector
    BY <1>6 DEF Apply
  <2>2. \A r \in Services, e \in Backend :
          r # s \/ e # o => ((e \in UpOf(r))' <=> e \in UpOf(r))
    BY <1>1, <1>6, <2>1, ScalingIsLocal
  <2>3. route' = route
    BY <2>1 DEF ServiceBackend
  <2>4. ~ (o \in UpOf(s))'
    <3>1. <<s, c.tier>> \in DeploymentsOf(s, o)
      BY <1>1, <1>2, <1>6, OwnerTier DEF DeploymentsOf
    <3>2. QED
      BY <2>1, <3>1 DEF UpOf
  <2>5. ServiceBackend(s) # o
    <3>1. (ServiceBackend(s) \in UpOf(s))'
      BY RouteUp, <2>1 DEF IInv, RouteStands, ServiceBackend, UpOf
    <3>2. ServiceBackend(s)' = ServiceBackend(s)
      BY <2>1 DEF ServiceBackend
    <3>3. QED
      BY <2>4, <3>1, <3>2 DEF UpOf
  <2>6. up' = [up EXCEPT ![s] = @ \ {o}]
    BY <1>2, <2>2, <2>4 DEF UpOf
  <2>7. Route!ScaleDown(s, o)
    BY <2>3, <2>5, <2>6 DEF Route!ScaleDown, UpOf
  <2>8. QED
    BY <1>2, <1>3, <2>7
<1>7. CASE c.op = "patch"
  <2>1. /\ selector' = [selector EXCEPT ![s] = [app |-> @.app, backend |-> b]]
        /\ UNCHANGED <<scaled, ready>>
    BY <1>7 DEF Apply
  <2>2. /\ selector'[s].backend = b
        /\ \A r \in Services \ {s} : selector'[r] = selector[r]
    BY <2>1 DEF IInv, TypeOK, ClusterTypeOK
  <2>3. route' = [route EXCEPT ![s] = b]
    BY <2>2 DEF ServiceBackend
  <2>4. up' = up
    BY <2>1 DEF UpOf
  <2>5. b \in UpOf(s)
    BY <2>1, <2>2 DEF IInv, RouteStands, UpOf
  <2>6. Route!SwitchTo(s, b)
    BY <2>3, <2>4, <2>5 DEF Route!SwitchTo, UpOf
  <2>7. QED
    BY <1>3, <2>6
<1>8. QED
  BY <1>1, <1>4, <1>5, <1>6, <1>7

\* What the controller and the environment do to the cluster is one command,
\* or concerns pods only.
LEMMA ClusterChanges ==
  ASSUME IInv, [Next]_vars
  PROVE  \/ UNCHANGED <<selector, scaled>>
         \/ /\ step \in 1 .. Len(Plan(target))
            /\ Apply(cur, target, Plan(target)[step])
<1>1. CASE UNCHANGED vars
  BY <1>1 DEF vars, clusterVars
<1>2. CASE Startup
  BY <1>2, PlanLength DEF Startup, BootRead, ReconcileDone, ReconcileFails,
     CommandRaises, TimesOut, Errs, clusterVars, IInv, TypeOK
<1>3. CASE RunCommand
  BY <1>3, PlanLength DEF RunCommand, IInv, TypeOK
<1>4. CASE Round
  BY <1>4, PlanLength DEF Round, StartRound, LoopRead, LoopReadFails, SampleMissing,
     SampleIaas, SampleFaas, MoveDone, MoveFails,
     CommandRaises, TimesOut, Errs, clusterVars, IInv, TypeOK
<1>5. CASE Crash \/ Restart \/ Environment
  BY <1>5 DEF Crash, Stop, Restart, Environment, ClusterStep, PodReady, PodGone, PodFails,
     LoadChanges, Tick, CalmDown, clusterVars
<1>6. QED
  BY <1>1, <1>2, <1>3, <1>4, <1>5 DEF Next, Controller

\* Placement implements Routing: callers see nothing of its commands, faults
\* and crashes but routes that lead to a backend that is scaled up.
THEOREM Refinement ==
  ASSUME CurrentForm
  PROVE  Spec => RefinesRouting
<1>1. Init => Route!Init
  <2>1. SUFFICES ASSUME Init PROVE Route!Init
    OBVIOUS
  <2>2. IInv
    BY <2>1, InitInv DEF CurrentForm
  <2>3. \A s \in Services : ServiceBackend(s) \in UpOf(s)
    BY <2>2, RouteUp
  <2>4. QED
    BY <2>3 DEF Route!Init, UpOf
<1>2. IInv /\ IInv' /\ [Next]_vars => [Route!Next]_(Route!vars)
  <2> SUFFICES ASSUME IInv, IInv', [Next]_vars
               PROVE  [Route!Next]_(Route!vars)
    OBVIOUS
  <2>1. CASE UNCHANGED <<selector, scaled>>
    BY <2>1 DEF Route!vars, ServiceBackend
  <2>2. CASE /\ step \in 1 .. Len(Plan(target))
             /\ Apply(cur, target, Plan(target)[step])
    <3>1. PICK s \in Services, b \in Backend, j \in Nat : s = cur /\ b = target /\ j = step
      BY PlanLength DEF IInv, TypeOK
    <3>2. j \in 1 .. Len(Plan(b)) /\ Apply(s, b, Plan(b)[j])
      BY <2>2, <3>1
    <3>3. QED
      BY <3>1, <3>2, ApplyRefines
  <2>3. QED
    BY <2>1, <2>2, ClusterChanges
<1>3. QED
  BY <1>1, <1>2, Inductive, PTL DEF Spec, RefinesRouting, Route!Spec

----------------------------------------------------------------------------
(* What the controller believes and counts. *)

\* Nothing has been counted until the loop begins.
CountInv ==
  /\ TypeOK
  /\ CountersMatchState
  /\ pc \in {"down", "boot", "reconcile"} => \A s \in Services : low[s] = 0 /\ high[s] = 0

\* A visit of the loop that changes the counters of the visited service only.
LEMMA CountVisit ==
  ASSUME CountInv, TypeOK', UNCHANGED state, NEW f \in Nat, NEW g \in Nat,
         low' = [low EXCEPT ![cur] = f], high' = [high EXCEPT ![cur] = g],
         f > 0 => state[cur] = IAAS, g > 0 => state[cur] = FAAS,
         pc' \notin {"down", "boot", "reconcile"}
  PROVE  CountInv'
<1>1. \A s \in Services : s # cur => low'[s] = low[s] /\ high'[s] = high[s]
  BY DEF CountInv, TypeOK
<1>2. low'[cur] = f /\ high'[cur] = g
  BY DEF CountInv, TypeOK
<1>3. ASSUME NEW s \in Services
      PROVE  (low'[s] > 0 => state[s] = IAAS) /\ (high'[s] > 0 => state[s] = FAAS)
  BY <1>1, <1>2 DEF CountInv, CountersMatchState
<1>4. CountersMatchState'
  BY <1>3 DEF CountersMatchState
<1>5. QED
  BY <1>4 DEF CountInv

LEMMA CountNext == CountInv /\ [Next]_vars => CountInv'
<1> SUFFICES ASSUME CountInv, [Next]_vars
             PROVE  CountInv'
  OBVIOUS
<1>0. TypeOK /\ TypeOK'
  BY NextType DEF CountInv
<1> DEFINE idle == {"down", "boot", "reconcile"}
<1>1. CASE /\ UNCHANGED <<state, low, high>>
           /\ pc' \in idle => pc \in idle
  BY <1>0, <1>1 DEF CountInv, CountersMatchState
<1>2. CASE ReconcileDone \/ ReconcileFails
  <2>1. /\ \A s \in Services : low[s] = 0 /\ high[s] = 0
        /\ UNCHANGED <<low, high>>
    BY <1>2 DEF CountInv, ReconcileDone, ReconcileFails
  <2>2. QED
    BY <1>0, <2>1 DEF CountInv, CountersMatchState
<1>3. ASSUME NEW s \in Services, LoopRead(s)
      PROVE  CountInv'
  <2> DEFINE adopt == ServiceBackend(s) \notin {NONE, state[s]}
  <2>1. /\ pc' = "sample"
        /\ state' = [state EXCEPT ![s] = IF adopt THEN ServiceBackend(s) ELSE @]
        /\ low' = [low EXCEPT ![s] = IF adopt THEN 0 ELSE @]
        /\ high' = [high EXCEPT ![s] = IF adopt THEN 0 ELSE @]
    BY <1>3 DEF LoopRead
  <2>2. ASSUME NEW r \in Services
        PROVE  (low'[r] > 0 => state'[r] = IAAS) /\ (high'[r] > 0 => state'[r] = FAAS)
    <3>1. CASE r = s /\ adopt
      <4>1. low'[r] = 0 /\ high'[r] = 0
        BY <1>0, <2>1, <3>1 DEF TypeOK
      <4>2. QED
        BY <4>1
    <3>2. CASE ~ (r = s /\ adopt)
      <4>1. low'[r] = low[r] /\ high'[r] = high[r] /\ state'[r] = state[r]
        BY <1>0, <2>1, <3>2 DEF TypeOK
      <4>2. QED
        BY <4>1 DEF CountInv, CountersMatchState
    <3>3. QED
      BY <3>1, <3>2
  <2>3. QED
    BY <1>0, <2>1, <2>2 DEF CountInv, CountersMatchState
<1>4. ASSUME SampleIaas \/ SampleFaas
      PROVE  CountInv'
  <2>1. pc' \notin idle /\ state' = state
    BY <1>4 DEF SampleIaas, SampleFaas, Decide, EndVisit
  <2>2. cur \in Services /\ low'[cur] \in Nat /\ high'[cur] \in Nat
    BY <1>0, <1>4 DEF TypeOK, SampleIaas, SampleFaas
  <2>3. /\ low' = [low EXCEPT ![cur] = low'[cur]]
        /\ high' = [high EXCEPT ![cur] = high'[cur]]
    BY <1>0, <1>4 DEF TypeOK, SampleIaas, SampleFaas
  <2>4. (low'[cur] > 0 => state[cur] = IAAS) /\ (high'[cur] > 0 => state[cur] = FAAS)
    BY <1>0, <1>4 DEF TypeOK, SampleIaas, SampleFaas
  <2>5. QED
    BY <1>0, <2>1, <2>2, <2>3, <2>4, CountVisit
<1>5. CASE MoveDone
  <2>1. /\ pc' \in {"loop", "round"}
        /\ state' = [state EXCEPT ![cur] = target]
        /\ low' = IF target = FAAS THEN [low EXCEPT ![cur] = 0] ELSE low
        /\ high' = IF target = IAAS THEN [high EXCEPT ![cur] = 0] ELSE high
    BY <1>5 DEF MoveDone, EndVisit
  <2>2. ASSUME NEW r \in Services
        PROVE  (low'[r] > 0 => state'[r] = IAAS) /\ (high'[r] > 0 => state'[r] = FAAS)
    <3>1. CASE r = cur
      BY <1>0, <2>1, <3>1 DEF TypeOK, Backend, IAAS, FAAS
    <3>2. CASE r # cur
      <4>1. low'[r] = low[r] /\ high'[r] = high[r] /\ state'[r] = state[r]
        BY <1>0, <2>1, <3>2 DEF TypeOK
      <4>2. QED
        BY <4>1 DEF CountInv, CountersMatchState
    <3>3. QED
      BY <3>1, <3>2
  <2>3. QED
    BY <1>0, <2>1, <2>2 DEF CountInv, CountersMatchState
<1>6. CASE Crash
  BY <1>0, <1>6 DEF Crash, Stop, CountInv, CountersMatchState
<1>7. ASSUME NEW s \in Services, BootRead(s) \/ LoopReadFails(s)
      PROVE  CountInv'
  BY <1>1, <1>7 DEF BootRead, LoopReadFails, EndVisit
<1>8. CASE RunCommand \/ StartRound \/ SampleMissing \/ MoveFails \/ Restart
  BY <1>1, <1>8 DEF RunCommand, StartRound, SampleMissing, MoveFails, Restart, EndVisit
<1>9. CASE Environment \/ UNCHANGED vars
  BY <1>1, <1>9 DEF Environment, ClusterStep, LoadChanges, Tick, CalmDown, controllerVars, vars
<1>10. QED
  BY <1>2, <1>3, <1>4, <1>5, <1>6, <1>7, <1>8, <1>9
     DEF Next, Controller, Startup, Round

\* Whatever fails or is killed, no window of one backend is counted for the
\* other.
THEOREM CountsOneBackend == Spec => []CountersMatchState
<1>1. Init => CountInv
  BY InitType DEF Init, CountInv, CountersMatchState
<1>2. CountInv => CountersMatchState
  BY DEF CountInv
<1>3. QED
  BY <1>1, <1>2, CountNext, PTL DEF Spec

\* The belief stands until the first command of a move: nothing changes a
\* selector in between.
BeliefInv == IInv /\ SamplesRoutedBackend

LEMMA BeliefNext == BeliefInv /\ [Next]_vars => BeliefInv'
<1> SUFFICES ASSUME BeliefInv, [Next]_vars,
                    pc' = "sample" \/ (pc' = "move" /\ step' = 1)
             PROVE  state'[cur'] = ServiceBackend(cur)'
  BY NextInv DEF BeliefInv, SamplesRoutedBackend
<1>0. IInv /\ TypeOK
  BY DEF BeliefInv, IInv
<1>1. CASE /\ UNCHANGED <<selector, cur, state>>
           /\ pc = "sample" \/ (pc = "move" /\ step = 1)
  BY <1>1 DEF BeliefInv, SamplesRoutedBackend, ServiceBackend
<1>2. ASSUME NEW s \in Services, LoopRead(s)
      PROVE  state'[cur'] = ServiceBackend(cur)'
  <2>1. ServiceBackend(s) # NONE
    BY <1>0, RouteUp DEF UpOf, Backend, IAAS, FAAS, NONE
  <2>2. /\ cur' = s /\ selector' = selector
        /\ state' = [state EXCEPT ![s] =
                       IF ServiceBackend(s) \notin {NONE, state[s]} THEN ServiceBackend(s) ELSE @]
    BY <1>2 DEF LoopRead, clusterVars
  <2>3. state'[s] = ServiceBackend(s)
    BY <1>0, <2>1, <2>2 DEF TypeOK
  <2>4. QED
    BY <2>2, <2>3 DEF ServiceBackend
<1>3. ASSUME NEW s \in Services, BootRead(s) \/ LoopReadFails(s)
      PROVE  FALSE
  BY <1>3 DEF BootRead, LoopReadFails, EndVisit
<1>4. CASE RunCommand
  <2>1. step \in Nat /\ step > 0 /\ step' = step + 1 /\ pc' = pc /\ pc # "sample"
    BY <1>0, <1>4, PlanLength DEF TypeOK, RunCommand
  <2>2. QED
    BY <2>1
<1>5. CASE \/ ReconcileDone \/ ReconcileFails \/ StartRound \/ SampleMissing
           \/ MoveDone \/ MoveFails \/ Crash \/ Restart
  BY <1>5 DEF ReconcileDone, ReconcileFails, StartRound, SampleMissing, MoveDone, MoveFails,
              Crash, Stop, Restart, EndVisit
<1>6. CASE SampleIaas \/ SampleFaas
  BY <1>1, <1>6 DEF SampleIaas, SampleFaas, clusterVars
<1>7. CASE Environment \/ UNCHANGED vars
  <2>1. UNCHANGED <<selector, pc, step, cur, state>>
    BY <1>7 DEF Environment, ClusterStep, PodReady, PodGone, PodFails, LoadChanges, Tick,
                CalmDown, controllerVars, clusterVars, vars
  <2>2. QED
    BY <1>1, <2>1
<1>8. QED
  BY <1>2, <1>3, <1>4, <1>5, <1>6, <1>7 DEF Next, Controller, Startup, Round

\* A move away from a backend is decided on samples of the one that is routed
\* to, also after moves that failed half way.
THEOREM SamplesAreOfRoutedBackend ==
  ASSUME CurrentForm
  PROVE  Spec => []SamplesRoutedBackend
<1>1. Init => BeliefInv
  BY InitInv DEF CurrentForm, BeliefInv, SamplesRoutedBackend, Init
<1>2. BeliefInv => SamplesRoutedBackend
  BY DEF BeliefInv
<1>3. QED
  BY <1>1, <1>2, BeliefNext, PTL DEF Spec

\* When all commands of a plan stand, the service is routed to its backend and
\* has exactly the deployments of that one.
LEMMA CompletePlan ==
  ASSUME scaled \subseteq Deployment, NEW s \in Services, NEW b \in Backend,
         \A i \in 1 .. Len(Plan(b)) : Stands(s, b, Plan(b)[i])
  PROVE  /\ {d \in scaled : d[1] = s} = DeploymentsOf(s, b)
         /\ selector[s].backend = b
<1>1. selector[s].backend = b /\ \A t \in Tier : <<s, t>> \in scaled <=> t \in TiersOf(b)
  <2>1. CASE b = FAAS
    <3>1. \A i \in 1 .. 6 : Stands(s, FAAS, Plan(FAAS)[i])
      BY <2>1, PlanFaas
    <3>2. /\ Stands(s, FAAS, Up("function")) /\ Stands(s, FAAS, Up("bridge"))
          /\ Stands(s, FAAS, Patch) /\ Stands(s, FAAS, Down("iaas"))
      BY <3>1, PlanFaas
    <3>3. QED
      BY <2>1, <3>2 DEF Stands, Up, Down, Patch, TiersOf, Tier, IAAS, FAAS
  <2>2. CASE b = IAAS
    <3>1. \A i \in 1 .. 5 : Stands(s, IAAS, Plan(IAAS)[i])
      BY <2>2, PlanIaas
    <3>2. /\ Stands(s, IAAS, Up("iaas")) /\ Stands(s, IAAS, Patch)
          /\ Stands(s, IAAS, Down("bridge")) /\ Stands(s, IAAS, Down("function"))
      BY <3>1, PlanIaas
    <3>3. QED
      BY <2>2, <3>2 DEF Stands, Up, Down, Patch, TiersOf, Tier, IAAS
  <2>3. QED
    BY <2>1, <2>2 DEF Backend
<1>2. TiersOf(b) \subseteq Tier
  BY DEF TiersOf, Tier
<1>3. \A d \in scaled : d = <<d[1], d[2]>> /\ d[1] \in Services /\ d[2] \in Tier
  BY DEF Deployment
<1>4. QED
  BY <1>1, <1>2, <1>3 DEF DeploymentsOf

\* A command list that ran to its end leaves the service with exactly the
\* deployments of its new backend.
THEOREM MovesAreExact ==
  ASSUME CurrentForm
  PROVE  Spec => []CompletedMoveIsExact
<1>1. IInv => CompletedMoveIsExact
  <2>1. SUFFICES ASSUME IInv, pc \in {"reconcile", "move"}, step > Len(Plan(target))
                 PROVE  /\ {d \in scaled : d[1] = cur} = DeploymentsOf(cur, target)
                        /\ selector[cur].backend = target
    BY DEF CompletedMoveIsExact
  <2>2. /\ target \in Backend /\ cur \in Services /\ scaled \subseteq Deployment
        /\ step = Len(Plan(target)) + 1
    <3>1. /\ target \in Backend /\ cur \in Services /\ scaled \subseteq Deployment
          /\ step \in 1 .. Len(Plan(target)) + 1
      BY <2>1 DEF IInv, TypeOK, ClusterTypeOK
    <3>2. QED
      BY <2>1, <3>1, PlanLength
  <2>3. \A i \in 1 .. Len(Plan(target)) : Stands(cur, target, Plan(target)[i])
    BY <2>1, <2>2, PlanLength DEF IInv, PlanStands
  <2>4. QED
    BY <2>2, <2>3, CompletePlan
<1>2. QED
  BY <1>1, Inductive, PTL

----------------------------------------------------------------------------
(* The cooldown. *)

\* A service that the round has yet to visit, and that was not cooling when the
\* round read the clock, is not cooling: only its own visit starts a cooldown.
CoolInv ==
  /\ TypeOK
  /\ pc \in {"loop", "sample", "move"} => \A s \in todo \ frozen : cooling[s] = 0

LEMMA CoolNext == CoolInv /\ [Next]_vars => CoolInv'
<1> SUFFICES ASSUME CoolInv, [Next]_vars, pc' \in {"loop", "sample", "move"},
                    NEW r \in Services, r \in todo', r \notin frozen'
             PROVE  cooling'[r] = 0
  <2>1. CoolInv /\ [Next]_vars => TypeOK'
    BY NextType DEF CoolInv
  <2>2. TypeOK' => todo' \subseteq Services
    BY DEF TypeOK
  <2>3. QED
    BY <2>1, <2>2 DEF CoolInv
<1>0. TypeOK
  BY DEF CoolInv
<1>1. CASE /\ UNCHANGED <<cooling, frozen>> /\ todo' \subseteq todo
           /\ pc \in {"loop", "sample", "move"}
  BY <1>1 DEF CoolInv
<1>2. CASE \/ \E s \in Services : BootRead(s)
           \/ ReconcileDone \/ ReconcileFails \/ Crash \/ Restart
  BY <1>2 DEF BootRead, ReconcileDone, ReconcileFails, Crash, Stop, Restart, EndVisit
<1>3. CASE StartRound
  BY <1>0, <1>3 DEF StartRound, TypeOK
<1>4. CASE RunCommand
  BY <1>1, <1>4 DEF RunCommand
<1>5. CASE \/ \E s \in Services : LoopRead(s) \/ LoopReadFails(s)
           \/ SampleMissing \/ SampleIaas \/ SampleFaas \/ MoveFails
  BY <1>1, <1>5 DEF LoopRead, LoopReadFails, SampleMissing, SampleIaas, SampleFaas, MoveFails,
                    Decide, EndVisit
<1>6. CASE MoveDone
  <2>1. /\ r \in todo /\ r # cur /\ r \notin frozen /\ pc = "move"
        /\ cooling' = [cooling EXCEPT ![cur] = COOLDOWN]
    BY <1>6 DEF MoveDone, EndVisit
  <2>2. cooling'[r] = cooling[r]
    BY <1>0, <2>1 DEF TypeOK
  <2>3. QED
    BY <2>1, <2>2 DEF CoolInv
<1>7. CASE Tick
  <2>1. r \in todo \ frozen /\ pc \in {"loop", "sample", "move"}
    BY <1>7 DEF Tick
  <2>2. cooling[r] = 0
    BY <2>1 DEF CoolInv
  <2>3. QED
    BY <1>7, <2>2 DEF Tick, TickOf
<1>8. CASE ClusterStep \/ CalmDown \/ (\E s \in Services : LoadChanges(s)) \/ UNCHANGED vars
  BY <1>1, <1>8 DEF ClusterStep, CalmDown, LoadChanges, controllerVars, vars
<1>9. QED
  BY <1>2, <1>3, <1>4, <1>5, <1>6, <1>7, <1>8
     DEF Next, Controller, Startup, Round, Environment

\* last_switch is the time of the last completed move, unless a stop has
\* forgotten it.
RestInv ==
  /\ TypeOK
  /\ \A s \in Services : cooling[s] = IF s \in forgotten THEN 0 ELSE resting[s]

LEMMA RestNext == RestInv /\ [Next]_vars => RestInv'
<1> SUFFICES ASSUME RestInv, [Next]_vars, NEW r \in Services
             PROVE  cooling'[r] = IF r \in forgotten' THEN 0 ELSE resting'[r]
  <2>1. RestInv /\ [Next]_vars => TypeOK'
    BY NextType DEF RestInv
  <2>2. QED
    BY <2>1 DEF RestInv
<1>0. /\ TypeOK
      /\ cooling[r] = IF r \in forgotten THEN 0 ELSE resting[r]
      /\ cooling[r] \in Nat /\ resting[r] \in Nat
  BY WindowsAssumption DEF RestInv, TypeOK
<1>1. CASE UNCHANGED <<cooling, resting, forgotten>>
  BY <1>0, <1>1
<1>2. CASE MoveDone
  <2>1. /\ cur \in Services
        /\ cooling' = [cooling EXCEPT ![cur] = COOLDOWN]
        /\ resting' = [resting EXCEPT ![cur] = COOLDOWN]
        /\ forgotten' = forgotten \ {cur}
    BY <1>0, <1>2 DEF MoveDone, TypeOK
  <2>2. CASE r = cur
    BY <1>0, <2>1, <2>2 DEF TypeOK
  <2>3. CASE r # cur
    BY <1>0, <2>1, <2>3 DEF TypeOK
  <2>4. QED
    BY <2>2, <2>3
<1>3. CASE Crash
  <2>1. /\ cooling'[r] = 0 /\ resting'[r] = resting[r]
        /\ r \in forgotten' <=> resting[r] > 0
    BY <1>3 DEF Crash, Stop
  <2>2. QED
    BY <1>0, <2>1
<1>4. CASE Tick
  <2>1. /\ cooling'[r] = IF cooling[r] > 0 THEN cooling[r] - 1 ELSE 0
        /\ resting'[r] = IF resting[r] > 0 THEN resting[r] - 1 ELSE 0
        /\ r \in forgotten' <=> r \in forgotten /\ resting'[r] > 0
    BY <1>4 DEF Tick, TickOf
  <2>2. QED
    BY <1>0, <2>1
<1>5. CASE \/ \E s \in Services : BootRead(s) \/ LoopRead(s) \/ LoopReadFails(s)
           \/ ReconcileDone \/ ReconcileFails \/ RunCommand \/ StartRound \/ SampleMissing
           \/ SampleIaas \/ SampleFaas \/ MoveFails \/ Restart
  BY <1>1, <1>5 DEF BootRead, LoopRead, LoopReadFails, ReconcileDone, ReconcileFails,
     RunCommand, StartRound, SampleMissing, SampleIaas, SampleFaas, MoveFails, Restart, ghosts
<1>6. CASE ClusterStep \/ CalmDown \/ (\E s \in Services : LoadChanges(s)) \/ UNCHANGED vars
  BY <1>1, <1>6 DEF ClusterStep, CalmDown, LoadChanges, controllerVars, vars, ghosts
<1>7. QED
  BY <1>2, <1>3, <1>4, <1>5, <1>6 DEF Next, Controller, Startup, Round, Environment

\* For any thresholds and cooldown, however long the moves of a round take and
\* however often the controller is killed: a service whose last completed move
\* the running process has made is not moved before its cooldown is over.
THEOREM CooldownHolds == Spec => CooldownRespected
<1>1. Init => CoolInv /\ RestInv
  <2>1. SUFFICES ASSUME Init PROVE CoolInv /\ RestInv
    OBVIOUS
  <2>2. TypeOK
    BY <2>1, InitType
  <2>3. QED
    BY <2>1, <2>2 DEF CoolInv, RestInv, Init
<1>2. CoolInv /\ RestInv /\ [Next]_vars =>
        [pc # "move" /\ pc' = "move" => resting[cur'] = 0 \/ cur' \in forgotten]_vars
  <2>1. SUFFICES ASSUME CoolInv, RestInv, Next, pc # "move", pc' = "move", cur' \notin forgotten
                 PROVE  resting[cur'] = 0
    OBVIOUS
  <2>2. SampleIaas \/ SampleFaas
    BY <2>1 DEF Next, Controller, Startup, Round, Environment, BootRead, ReconcileDone,
       ReconcileFails, RunCommand, StartRound, LoopRead, LoopReadFails, SampleMissing, MoveDone,
       MoveFails, Crash, Stop, Restart, ClusterStep, LoadChanges, Tick, CalmDown, EndVisit,
       controllerVars
  <2>3. cur' = cur /\ cur \notin frozen /\ pc = "sample"
    BY <2>1, <2>2 DEF SampleIaas, SampleFaas, Decide, EndVisit
  <2>4. cur \in todo /\ cur \in Services
    BY <2>1, <2>3 DEF CoolInv, TypeOK
  <2>5. cooling[cur] = 0
    BY <2>1, <2>3, <2>4 DEF CoolInv
  <2>6. QED
    BY <2>1, <2>3, <2>4, <2>5 DEF RestInv
<1>3. QED
  BY <1>1, <1>2, CoolNext, RestNext, PTL DEF Spec, CooldownRespected
=============================================================================
