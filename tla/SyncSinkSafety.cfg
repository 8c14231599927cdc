CONSTANTS
  c1 = c1
  c2 = c2
  o1 = o1
  o2 = o2
  Callers <- TwoCallers
  Owners <- TwoOwners
SPECIFICATION Spec
SYMMETRY Symmetry
INVARIANTS
  TypeOK
  SafeOnceRemoved
  LetGoShut
CHECK_DEADLOCK FALSE
