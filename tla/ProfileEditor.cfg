SPECIFICATION EditSpec
CONSTANTS
  Goroutines = {g}
  Arrays = {a1, a2, a3, a4}
  Texts = {x, y}
  Languages = {en, pt}
  Nil = Nil
  MaxLen = 2
  MaxOps = 6
SYMMETRY MCSymmetry
INVARIANTS
  EditsKept
  RestartRestores
PROPERTIES
  NothingBeforeSave
CHECK_DEADLOCK FALSE
