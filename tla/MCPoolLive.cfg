SPECIFICATION FairSpec
VIEW View
CONSTANTS
  Validator = Validator
  Owner = Owner
  None = None
  Borrower = {b1, b2}
  Conn = {c1, c2}
  MinSize = 1
  MaxSize = 1
  MaxUses = 2
PROPERTIES
  WindsDown
