CONSTANTS
  Instances = {dead, alive}
  dead = dead
  alive = alive
  Live = alive
  Requests <- MCRequests
  Home = "quiet"
  MaxHold = 1
  MaxEvents = 2
SPECIFICATION FairSpec
INVARIANT NoTableIsSkipped
PROPERTY VerifiedIsRetained
PROPERTY KeepsWriterPromise
PROPERTY VerificationEnds
