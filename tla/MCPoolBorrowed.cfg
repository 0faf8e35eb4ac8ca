SPECIFICATION Spec
CONSTANTS
  Validator = Validator
  Owner = Owner
  None = None
  Borrower = {b1}
  Conn = {c1, c2}
  MinSize = 1
  MaxSize = 1
  MaxUses = 2
INVARIANTS
  BorrowedKeptOpen
