SPECIFICATION Spec
CONSTANTS
  Types = {"mouse"}
  Keys <- MCKeys
  Elements = 2
  S8Min <- MCS8Min
  S8Max = 3
  S16 = 16
  Moves <- MCMoves
  Buttons = {0, 1}
  Lens = {3, 4}
  IdleRates = {0}
  LedBytes <- MCLedBytes
  MaxMoves = 3
  MaxKeys = 4
  Reset <- MCNoReset
VIEW HidView
PROPERTIES
  WheelReported
