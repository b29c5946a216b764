SPECIFICATION Spec
CONSTANTS
  Name <- MCName
  Lower <- MCLower
  HostDirs <- MCHostDirs
  Layers <- MCLayers
  Relayers <- WithUpper
  Links <- NoLink
  UpperDir = "upper"
  InitDisk <- FlatDisk
  Depth = 2
  Paths <- MCPaths
  MaxNodes = 9
  Workload = {"remount"}
  Faults = {FALSE}
INVARIANTS FdMapAgrees NoCaseTwins
PROPERTIES CreationConfined ImplementsVfs
VIEW System
