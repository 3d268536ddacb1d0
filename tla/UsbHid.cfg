SPECIFICATION Spec
CONSTANTS
  Types = {"mouse", "tablet", "keypad", "keyboard"}
  Keys <- MCKeys
  Elements = 2
  S8Min <- MCS8Min
  S8Max = 3
  S16 = 16
  Moves <- MCMoves
  Buttons = {0, 1}
  Lens = {3, 4}
  IdleRates = {0, 1}
  LedBytes <- MCLedBytes
  MaxMoves = 2
  MaxKeys = 4
VIEW HidView
INVARIANTS
  HidTypeOK
  MotionConserved
PROPERTIES
  MotionDelivered
  IdleReportsState
