SPECIFICATION StartSpec
CONSTANTS
  Configs <- MCConfigs
  MaxBoots = 3
INVARIANT MountedRoutesAnswer
CHECK_DEADLOCK FALSE
