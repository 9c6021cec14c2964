CONSTANTS
  ServiceSizes <- MCServiceSizes
  BfnSizes <- MCBfnSizes
  DefaultSize = 128
  MinSize = 44
  GetSize = 80
  AllModes <- MCAllModes
  Unlisted = {"longlife", "rbtt"}
  Unmapped = {"rbtt"}
  StartMin = 1
  StartMax = 2
  Gap = 1
  MaxEvents = 2
SPECIFICATION MCFairSpec
INVARIANT ChannelIsFound
PROPERTY ChosenIsWritten
PROPERTY ChargingConverges
