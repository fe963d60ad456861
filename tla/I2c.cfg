SPECIFICATION I2cFairSpec
CONSTANTS
  Users = {1, 2}
  Transfers <- Shapes
  Sharings = {"alone", "racing"}
INVARIANTS
  I2cTypeOK
  TransfersOwned
PROPERTIES
  VerdictIsTrue
  CallsReturn
