SPECIFICATION UpdSpec
CONSTANTS
  LastCode = 2
  MaxAppDeaths = 1
  MaxOffers = 1
CHECK_DEADLOCK FALSE
INVARIANT OnlyVerifiedIsHandedOver
