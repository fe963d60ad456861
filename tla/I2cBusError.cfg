SPECIFICATION I2cSpec
CONSTANTS
  Users = {1, 2}
  Transfers <- Shapes
  Sharings = {"alone"}
INVARIANTS
  OkMeansDone
