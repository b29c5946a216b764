SPECIFICATION Spec
CONSTANTS
  Name <- MCName
  Lower <- MCLower
  Paths <- MCPaths
  Real = {"r", "s"}
  Dumpers = {"one"}
  InitTree <- MCInitTree
  WriterFirst = FALSE
INVARIANTS TypeOK NoDataRaces DumpIsSnapshot
PROPERTIES NeverStuck
