CONSTANTS
  Proc = {p1, p2}
  Size = 3
  Nul = Nul
  MaxTyped = 4
  MaxRead = 4
SYMMETRY ProcSymmetry
SPECIFICATION Spec
INVARIANTS KeysInOrder OnlyOwnKeys
