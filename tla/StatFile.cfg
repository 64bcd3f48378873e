SPECIFICATION FairSpec
CONSTANTS
  Count = 2
  Kind <- FailidFirst
  MaxFail = 2
INVARIANT TypeOK
INVARIANT TotalCoversShown
INVARIANT LightMeansFailure
PROPERTY TotalsNeverDrop
PROPERTY ErrorsLight
