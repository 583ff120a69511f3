CONSTANTS
  Name = {"a", "b", ".", ".."}
  Erased = {"x"}
  SubDir = {"s", "t"}
  Volumes <- MCVolumes
  MaxPath = 4
SPECIFICATION Spec
INVARIANTS LookupSound LookupComplete ItemsBalanced
