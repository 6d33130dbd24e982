SPECIFICATION Spec
CONSTANTS
  Services = {s1}
  Manifests <- LegacyManifests
  PodsMayFail = FALSE
  LOW_WINDOWS_TO_FAAS = 1
  HIGH_WINDOWS_TO_IAAS = 1
  COOLDOWN = 1
  Samples = {"low", "high", "missing"}
INVARIANT AlwaysServed
