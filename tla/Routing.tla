------------------------------ MODULE Routing ------------------------------
(***************************************************************************)
(* What placement promises to the callers of a service, whatever moves it: *)
(* traffic is only ever routed to a backend that is scaled up, and the     *)
(* backend it is routed to is never scaled down.                           *)
(***************************************************************************)

CONSTANTS Services, Backend

VARIABLES
  route,     \* the backend each service is routed to
  up         \* the backends of each service that are scaled up

vars == <<route, up>>

Init ==
  /\ up \in [Services -> SUBSET Backend]
  /\ route \in [Services -> Backend]
  /\ \A s \in Services : route[s] \in up[s]

ScaleUp(s, b) ==
  /\ up' = [up EXCEPT ![s] = @ \cup {b}]
  /\ UNCHANGED route

SwitchTo(s, b) ==
  /\ b \in up[s]
  /\ route' = [route EXCEPT ![s] = b]
  /\ UNCHANGED up

ScaleDown(s, b) ==
  /\ b # route[s]
  /\ up' = [up EXCEPT ![s] = @ \ {b}]
  /\ UNCHANGED route

Next ==
  \E s \in Services, b \in Backend : ScaleUp(s, b) \/ SwitchTo(s, b) \/ ScaleDown(s, b)

Spec == Init /\ [][Next]_vars
=============================================================================
