CONSTANTS
  MaxFds = 3
  Obj = {o1, o2, o3, o4}
  File = {"a", "d"}
  Dirs = {"d"}
  Size = 2
  MaxPos = 3
  Null = Null
SYMMETRY ObjSymmetry
SPECIFICATION Spec
INVARIANTS HandlesIndependent SlotsReleased ObjectsAccounted
