SPECIFICATION Spec
CONSTANTS
  Name <- MCName
  Lower <- MCLower
  EndsOf <- MCEndsOf
  Disk <- MCDisk
  LeadsTo <- MCLeadsTo
  MountPoints <- MCMountPoints
  Sources <- MCSources
  Files <- MCFiles
  Targets = {"D"}
  SkipFiles = {"g"}
  SkipDirs = {"d"}
  UpperDirs <- MCUpperDirs
  MaxFds = 6
  MaxMounts = 2
  UpperShared = FALSE
INVARIANTS TypeOK DescriptorsLead
PROPERTIES LinkedIsServed ImplementsOverlays
VIEW System
CHECK_DEADLOCK FALSE
CONSTRAINT FewLeaked
