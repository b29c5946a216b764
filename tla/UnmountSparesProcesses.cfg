SPECIFICATION Spec
CONSTANTS
  Links <- MCLinks
  Files <- MCFiles
  To <- MCTo
  Execs = {"e"}
  MaxStates = 2
  MaxProcs = 1
  Faults = {}
  Freed = {"failure"}
PROPERTY UnmountSparesProcesses
