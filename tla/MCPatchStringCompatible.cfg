SPECIFICATION Spec
CONSTANTS
  a = a
  b = b
  Blank = Blank
  Texts <- MCTexts
  Ops <- ReplaceOps
  MaxLines = 2
  MaxHunk = 3
INVARIANT CompatibleIsApplied
CHECK_DEADLOCK FALSE
