SPECIFICATION Spec

CONSTANTS
  Versions = {v1, v2}
  Ragged = {}
  Zero = zero
  Junk = junk
  NoFile = nofile
  Size <- MCSize
  Creators <- MCTwo
  FollowClash = TRUE
  MaxChecks = 2
  MaxReleases = 1
  MaxRestarts = 0
  MaxFaults = 0
  MaxEvents = 2

INVARIANTS
  CheckedIsStored

CHECK_DEADLOCK FALSE
