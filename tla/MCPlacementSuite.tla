-------------------------- MODULE MCPlacementSuite --------------------------
(* Instances of PlacementSuite for TLC. *)
EXTENDS PlacementSuite

\* The Service manifests of k8s/gob/online-boutique-iaas.yaml.
CurrentManifests == {[app |-> NONE, backend |-> IAAS]}

\* The first three scenarios of run_phase3, one of each mode.
Phase3 == <<"controller_running", "force_iaas", "force_faas_dynamic">>
=============================================================================
