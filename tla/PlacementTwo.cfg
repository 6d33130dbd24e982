SPECIFICATION FairSpec
CONSTANTS
  Services = {s1, s2}
  Manifests <- CurrentManifests
  PodsMayFail = FALSE
  LOW_WINDOWS_TO_FAAS = 1
  HIGH_WINDOWS_TO_IAAS = 1
  COOLDOWN = 0
  Samples = {"low", "high"}
PROPERTY EveryServiceSampled
INVARIANT AlwaysServed
