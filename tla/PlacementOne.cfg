SPECIFICATION FairSpec
CONSTANTS
  Services = {s1}
  Manifests <- CurrentManifests
  PodsMayFail = TRUE
  LOW_WINDOWS_TO_FAAS = 3
  HIGH_WINDOWS_TO_IAAS = 2
  COOLDOWN = 2
  Samples = {"low", "high", "missing"}
PROPERTIES RefinesRouting MovesEnd FollowsLoad CooldownRespected
INVARIANTS RoutedIsScaled CountersMatchState SamplesRoutedBackend CompletedMoveIsExact
