SPECIFICATION Spec
CONSTANTS
  Size = 3
  Commands <- AllCommands
  MaxFaults = 2
INVARIANTS VerifiedResult FetchNeverMismatches ResumeSucceeds
PROPERTIES StaysPrefix FetchConverges
