SPECIFICATION Spec
CONSTANTS
  MaxAmount = 180
  NoAmount = NoAmount
  BadRequest = BadRequest
INVARIANTS TypeOK DepositsHonourQuotes DirectionsAgree
CHECK_DEADLOCK FALSE
