SPECIFICATION FairSpec
CONSTANTS
  Services = {users}
  MaxMain = 4
  MaxBroken = 1
  MaxReruns = 1
INVARIANTS
  TypeOK
  TagsAreReleases
  TagsFollowMain
  PassedMeansReleased
PROPERTIES
  ReleasesArePermanent
  EventuallyInSync
CHECK_DEADLOCK FALSE
