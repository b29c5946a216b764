SPECIFICATION Spec
CONSTANTS
  Name <- MCName
  Lower <- MCLower
  HostDirs <- MCHostDirs
  Layers <- OneLayer
  Relayers <- OneLayer
  Links <- NoLink
  UpperDir = ""
  InitDisk <- FlatDisk
  Depth = 2
  Paths <- FewPaths
  MaxNodes = 9
  Workload = {"nest"}
  Faults = {FALSE}
PROPERTY RenamedIsReadable
VIEW System
