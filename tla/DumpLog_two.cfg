SPECIFICATION Spec
CONSTANTS
  Scripts = {"first", "second"}
  Parts = 2
  MaxLeft = 2
  Faults = {}
INVARIANT SafeToRemove
