SPECIFICATION Spec
CONSTANTS
  Links <- MCLinks
  Files <- MCFiles
  To <- MCTo
  Execs = {"e"}
  MaxStates = 2
  MaxProcs = 1
  Faults = {"mount"}
  Freed = {"success", "failure", "hang"}
PROPERTY WaitsForAnswer
