SPECIFICATION Spec
CONSTANTS
  Size = 8
  streamRetries = 5
INVARIANTS ExactBytes EofMeansAll GivesUpLate
PROPERTIES Ends
