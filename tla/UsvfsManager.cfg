SPECIFICATION Spec
CONSTANTS
  Links <- MCLinks
  Files <- MCFiles
  To <- MCTo
  Execs = {"e"}
  MaxStates = 2
  MaxProcs = 1
  Faults = {"open", "upper", "clone", "poll", "mount", "die", "wait", "fork"}
  Freed = {"failure"}
INVARIANTS TypeOK OneOwner MountsReachable
PROPERTIES MountsChangeLocked ImplementsMounting CallsReturn
VIEW System
