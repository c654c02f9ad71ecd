SPECIFICATION Spec

CONSTANTS
  Versions = {v1, v2}
  Ragged = {}
  Zero = zero
  Junk = junk
  NoFile = nofile
  Size <- MCSize
  Creators = {"http"}
  FollowClash = TRUE
  MaxChecks = 1
  MaxReleases = 1
  MaxRestarts = 0
  MaxFaults = 0
  MaxEvents = 2

INVARIANTS
  NoUpdateWhileFlashing

CHECK_DEADLOCK FALSE
