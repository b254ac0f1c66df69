SPECIFICATION Spec
CONSTANTS
  Lines <- MCLines
  MaxLines = 3
  Spaces = {" "}
  ContextSizes = {0, 1}
INVARIANTS
  CachesAreFresh
  OperationsAreADiff
  WrittenIsADiff
