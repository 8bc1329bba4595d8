CONSTANTS
  Hosts = {g, h}
  Packages = {"p", "q", "old"}
  ProfileOf <- MixedProfileOf
  Entries <- MixedEntries
  Profiles = {"v1", "v1alpha1"}
  MaxSeq = 2
  MaxPublished = 4
SYMMETRY HostSymmetry
SPECIFICATION Spec
INVARIANTS
  HistoriesAgree
  NoReservedVersion
  NeverWedged
  PinnedDenialHolds
PROPERTIES
  AppendOnlyLog
CHECK_DEADLOCK FALSE
