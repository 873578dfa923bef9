CONSTANTS
  IntMax = 7
  MaxIterations = 4
  Mantissa = 4
  MaxParts = 3
  BodyWrites = {"h"}
  UMax = 60
  MaxBody = 10
  MaxSets = 20
  MaxDepth = 3
  MaxOpens = 4
  MaxRun = 2
  MaxTemplates = 1
  MaxFields = 2
SPECIFICATION Spec
INVARIANTS ScriptExact OneBranch  CursorSound LinearTime
