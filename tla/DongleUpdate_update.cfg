SPECIFICATION DongleSpec

CONSTANTS
  Versions = {v1, v2}
  Ragged = {v1}
  Zero = zero
  Junk = junk
  NoFile = nofile
  Size <- MCSize
  Creators = {"http", "mqtt", "daily"}
  MaxChecks = 2
  FollowClash = FALSE
  MaxReleases = 1
  MaxRestarts = 1
  MaxFaults = 1
  Named = TRUE
  MaxOffers = 1
  MaxEvents = 1

INVARIANTS
  TypeOK
  FileIsOneImage
  StoredIsServed
  NoUpdateNeeded
  SentIsFile
  ApartUnlessOverlap
  TransferGoesOn

PROPERTIES
  TransferEnds
  ChecksSettle

CHECK_DEADLOCK FALSE
