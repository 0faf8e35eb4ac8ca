SPECIFICATION Spec
SYMMETRY Interchangeable
VIEW View
CONSTANTS
  Validator = Validator
  Owner = Owner
  None = None
  Borrower = {b1, b2}
  Conn = {c1, c2, c3, c4}
  MinSize = 2
  MaxSize = 2
  MaxUses = 2
INVARIANTS
  OneBorrower
  OpenBounded
  NoLeak
  NoneLost
  ClosedIsEmpty
PROPERTIES
  ImplementsLending
