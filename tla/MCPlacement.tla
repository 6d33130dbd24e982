---------------------------- MODULE MCPlacement ----------------------------
(* Instances of Placement for TLC. *)
EXTENDS Placement

\* The Service manifests of k8s/gob/online-boutique-iaas.yaml.
CurrentManifests == {[app |-> NONE, backend |-> IAAS]}

\* Older manifests, which service_backend() still recognises.
LegacyManifests == {[app |-> IAAS, backend |-> NONE]}
=============================================================================
