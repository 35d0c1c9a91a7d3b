SPECIFICATION TextSpec
CONSTANTS
  PortMod = 3
  Ports = {3, 5}
  Coarse = 2
  MaxPower = 4
  Powers = {3, 5}
  DemoNames = {"id", "unknown"}
  OrderNames = {"GRB", "unknown"}
  MaxOptions = 2
  Letter <- MCLetter
  Digit <- MCDigit
  Pieces <- MCPieces
  MaxText = 12
INVARIANTS SavedIsValid SettingsSurvive SavedIsFound CutOffRefused FindsFirst
