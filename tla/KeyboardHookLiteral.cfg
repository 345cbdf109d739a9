SPECIFICATION Spec
CONSTANTS
  Ctrls <- MCCtrls
  Alts <- MCAlts
  V = "V"
  Unknowns <- MCUnknowns
  NoKey = "none"
PROPERTY
  HotkeyNeverLiteral
