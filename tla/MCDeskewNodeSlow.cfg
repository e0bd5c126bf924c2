\* One cloud, which may take longer than sweep_duration says.
CONSTANTS
  Clouds <- AllClouds
  Steps = {2}
  MaxTime = 6
  MaxClouds = 1
SPECIFICATION Spec
INVARIANTS EarlierKnotsToo
