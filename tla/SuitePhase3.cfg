SPECIFICATION FairSuiteSpec
CONSTANTS
  Services = {s1}
  Manifests <- CurrentManifests
  PodsMayFail = FALSE
  LOW_WINDOWS_TO_FAAS = 1
  HIGH_WINDOWS_TO_IAAS = 1
  COOLDOWN = 0
  Samples = {"low", "high"}
  Modes <- Phase3
INVARIANTS SuiteTypeOK ServedUnlessMishap ForcedPlacementHolds
PROPERTIES StartupKeepsRoutes RestartHeals
