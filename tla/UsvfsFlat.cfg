SPECIFICATION Spec
CONSTANTS
  Name <- MCName
  Lower <- MCLower
  HostDirs <- MCHostDirs
  Layers <- MCLayers
  Relayers <- MCLayers
  Links <- NoLink
  UpperDir = ""
  InitDisk <- FlatDisk
  Depth = 2
  Paths <- MCPaths
  MaxNodes = 9
  Workload = {"rmdirFull", "stale", "remount"}
  Faults = {FALSE, TRUE}
INVARIANT FdMapAgrees
PROPERTY ImplementsVfs
VIEW System
