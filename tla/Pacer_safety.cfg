SPECIFICATION Spec
SYMMETRY MCSymmetry
CONSTANTS
  r1 = r1
  r2 = r2
  Request = {r1, r2}
  Setting <- MCSetting
  Patience = {2, 6}
  Margin = 1
  MaxTime = 3
INVARIANTS
  TypeOK
  MainRetainsCapacity
PROPERTIES
  AdmittedInOrder
