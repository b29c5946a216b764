SPECIFICATION Spec
CONSTANTS
  Name <- MCName
  Lower <- MCLower
  HostDirs <- MCHostDirs
  Layers <- MCLayers
  Relayers <- MCLayers
  Links <- NoLink
  UpperDir = ""
  InitDisk <- LayeredDisk
  Depth = 2
  Paths <- FewPaths
  MaxNodes = 8
  Workload = {"rmdirFull"}
  Faults = {FALSE}
PROPERTY RmdirEmptyOnly
VIEW System
