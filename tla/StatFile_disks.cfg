SPECIFICATION FairSpec
CONSTANTS
  Count = 2
  Kind <- Badblocks
  MaxFail = 1
PROPERTY ErrorsLight
