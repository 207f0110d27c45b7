SPECIFICATION Spec
CONSTANTS
  a = a
  b = b
  Blank = Blank
  Texts <- MCTexts
  Ops <- AllOps
  MaxLines = 2
  MaxHunk = 3
INVARIANTS
  InsertOnlyIsExact
  OutsideIsUntouched
CHECK_DEADLOCK FALSE
