SPECIFICATION Spec
CONSTANTS
  Name <- MCName
  Lower <- MCLower
  Paths <- MCPaths
  Real = {"r1", "r2"}
  Kinds = {"dir"}
INVARIANTS TypeOK NoOrphans NamesFollowKeys
PROPERTIES MergeKeepsDeleted ImplementsLinkMap
VIEW Trees
