SPECIFICATION LogFair
CONSTANTS
  MaxText = 2
INVARIANT ToldOnce
INVARIANT SevereShown
INVARIANT SameInAll
INVARIANT NoNullStream
PROPERTY ErrorsReachDevice
