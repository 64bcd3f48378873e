SPECIFICATION Spec
CONSTANTS
  Names = {"dot", "ecc", "hpl", "failid"}
  Hidden = {"dot"}
  MaxAsked = 3
CHECK_DEADLOCK FALSE
INVARIANT OnlyAskedLeftOut
INVARIANT ToldStaysOut
