SPECIFICATION Spec
CONSTANTS
  NumStreams = 6
  workers = 2
  PageID <- MCPage
  Wanted <- MCWanted
  Pages <- MCPages
INVARIANTS NoneSkipped BoundedReadAhead NoGoroutineLeft NilMeansAll
PROPERTIES Returns Refines
