SPECIFICATION Spec
CONSTANTS
  Scripts = {"first", "second"}
  Parts = 2
  MaxLeft = 2
  Faults = {"write", "umount"}
INVARIANT TypeOK
INVARIANT OwnFilesKept
INVARIANT SafeAlone
INVARIANT FixedUntouched
CHECK_DEADLOCK FALSE
