SPECIFICATION Spec
CONSTANTS
  Size = 2
  Commands <- OnlyDownload
  MaxFaults = 1
INVARIANTS RerunContinues
