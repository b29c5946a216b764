SPECIFICATION Spec
CONSTANTS
  Name <- DotName
  Lower <- DotLower
  HostDirs <- MCHostDirs
  Layers <- MCLayers
  Relayers <- MCLayers
  Links <- LinkAsF
  UpperDir = ""
  InitDisk <- LinkedDisk
  Depth = 2
  Paths <- DotPaths
  MaxNodes = 9
  Workload = {"remake", "replace", "nest", "moveDir", "rmdirFull", "stale", "dotDirectory"}
  Faults = {FALSE, TRUE}
INVARIANT TypeOK
PROPERTY RefusedKeepsTree
VIEW System
