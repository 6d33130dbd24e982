------------------------------ MODULE Cluster ------------------------------
(***************************************************************************)
(* The slice of the Kubernetes cluster that the hybrid shop is placed on,  *)
(* as src/self-hosted/hybrid sees it: for every managed service one        *)
(* Service object, whose selector picks the pods that answer, and three    *)
(* deployments, one pod each at most: the container ("iaas"), the gRPC     *)
(* bridge ("bridge") and the OpenFaaS function behind it ("function").     *)
(* Everything that places services (the controller, the test suites, the   *)
(* deploy scripts) acts on it through the kubectl commands below.          *)
(***************************************************************************)

CONSTANTS
  Services,      \* the managed services, the keys of SERVICES
  Manifests,     \* the selectors a freshly applied Service manifest may have
  PodsMayFail    \* whether a ready pod may stop being ready by itself

IAAS == "iaas"
FAAS == "faas"
NONE == "none"
Backend == {IAAS, FAAS}

(***************************************************************************)
(* A selector has the keys the code looks at: "app" (older manifests) and  *)
(* "mtp.backend"; NONE stands for an absent key.  The key app holds the    *)
(* name of one of the service's own deployments, so it is a backend too.   *)
(***************************************************************************)
Selector == [app : Backend \cup {NONE}, backend : Backend \cup {NONE}]

ASSUME ClusterAssumption ==
  /\ Services # {}
  /\ Manifests \subseteq Selector
  /\ PodsMayFail \in BOOLEAN

Tier == {"iaas", "bridge", "function"}
Deployment == Services \X Tier

\* The deployments that must run for a backend to answer.
TiersOf(b) == IF b = IAAS THEN {"iaas"} ELSE {"bridge", "function"}
DeploymentsOf(s, b) == {s} \X TiersOf(b)

VARIABLES
  selector,      \* the selector of each Service object
  scaled,        \* deployments whose spec.replicas is 1 (the others: 0)
  ready          \* deployments with an available pod

clusterVars == <<selector, scaled, ready>>

ClusterTypeOK ==
  /\ selector \in [Services -> Selector]
  /\ scaled \subseteq Deployment
  /\ ready \subseteq Deployment

\* The manifests are applied: containers and functions run, bridges do not.
ClusterInit ==
  /\ selector \in [Services -> Manifests]
  /\ scaled = Services \X {"iaas", "function"}
  /\ ready = scaled

----------------------------------------------------------------------------
(* Which pods a Service object sends its traffic to. *)

\* The pods of both backends carry the labels app and mtp.backend.
Matches(sel, b) ==
  /\ sel.app \in {NONE, b}
  /\ sel.backend \in {NONE, b}

\* A call to s is answered: a routed backend has all its pods ready.
Serving(s) ==
  \E b \in Backend : Matches(selector[s], b) /\ DeploymentsOf(s, b) \subseteq ready

----------------------------------------------------------------------------
(* The kubectl commands, as records, and the lists of them that move a     *)
(* service.  A wait is `kubectl rollout status`.                           *)

Up(t)   == [op |-> "up", tier |-> t]
Down(t) == [op |-> "down", tier |-> t]
Wait(t) == [op |-> "wait", tier |-> t]
Patch   == [op |-> "patch", tier |-> NONE]

\* Mutants of Plan: the patch does not wait for the pods; the old backend is
\* scaled down before the patch; the function is left running on the way back.
PlanUnawaited(b) ==
  IF b = FAAS
  THEN << Up("function"), Up("bridge"), Patch, Wait("function"), Wait("bridge"),
          Down("iaas") >>
  ELSE << Up("iaas"), Patch, Wait("iaas"), Down("bridge"), Down("function") >>
PlanDownFirst(b) ==
  IF b = FAAS
  THEN << Up("function"), Wait("function"), Up("bridge"), Wait("bridge"),
          Down("iaas"), Patch >>
  ELSE << Up("iaas"), Wait("iaas"), Down("bridge"), Down("function"), Patch >>
PlanKeepsFunction(b) ==
  IF b = FAAS
  THEN << Up("function"), Wait("function"), Up("bridge"), Wait("bridge"),
          Patch, Down("iaas") >>
  ELSE << Up("iaas"), Wait("iaas"), Patch, Down("bridge") >>

\* The command list that makes b the backend of a service.
Plan(b) ==
  IF b = FAAS
  THEN << Up("function"), Wait("function"), Up("bridge"), Wait("bridge"),
          Patch, Down("iaas") >>
  ELSE << Up("iaas"), Wait("iaas"), Patch, Down("bridge"), Down("function") >>

\* rollout status returns 0 on a deployment at zero replicas at once.
RolledOut(d) == d \notin scaled \/ d \in ready

\* Command c of a move of s to b returns 0.
Apply(s, b, c) ==
  \/ /\ c.op = "up"
     /\ scaled' = scaled \cup {<<s, c.tier>>}
     /\ UNCHANGED <<selector, ready>>
  \/ /\ c.op = "down"
     /\ scaled' = scaled \ {<<s, c.tier>>}
     /\ UNCHANGED <<selector, ready>>
  \/ /\ c.op = "wait"
     /\ RolledOut(<<s, c.tier>>)
     /\ UNCHANGED clusterVars
  \/ /\ c.op = "patch"   \* a merge patch: the key app stays
     /\ selector' = [selector EXCEPT ![s] = [app |-> @.app, backend |-> b]]
     /\ UNCHANGED <<scaled, ready>>

\* Mutant of TimesOut: rollout status without a --timeout.
NeverTimesOut(s, c) == FALSE

\* Command c runs into its --timeout, without a fault of the cluster.
TimesOut(s, c) ==
  /\ c.op = "wait"
  /\ ~ RolledOut(<<s, c.tier>>)
  /\ UNCHANGED clusterVars

\* Command c returns an error: it was refused, or it was carried out and
\* only its answer was lost.
Errs(s, b, c) ==
  \/ UNCHANGED clusterVars
  \/ c.op # "wait" /\ Apply(s, b, c)

----------------------------------------------------------------------------
(* What the cluster does by itself. *)

PodReady(d) ==
  /\ d \in scaled \ ready
  /\ ready' = ready \cup {d}
  /\ UNCHANGED <<selector, scaled>>

PodGone(d) ==
  /\ d \in ready \ scaled
  /\ ready' = ready \ {d}
  /\ UNCHANGED <<selector, scaled>>

PodFails(d) ==
  /\ PodsMayFail
  /\ d \in ready \cap scaled
  /\ ready' = ready \ {d}
  /\ UNCHANGED <<selector, scaled>>
=============================================================================
