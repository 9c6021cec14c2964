CONSTANTS
  MaxPatch = 3
  MaxPushes = 2
  MaxHandTags = 1
  MaxRuns = 1
  MaxFaults = 1
  NoTag = NoTag
  None = None
  Partial = Partial
SPECIFICATION FairSpec
INVARIANT ReleasesAreTheirTags
INVARIANT ReleaseCommitsAreTagged
INVARIANT ChangesAreLogged
PROPERTY PushedIsPublished
CHECK_DEADLOCK FALSE
