SPECIFICATION Spec
CONSTANTS
  c1 = c1
  c2 = c2
  Caller <- TwoCallers
  RetryAfter <- LongWait
  retries = 1
  delay = 2
  MaxAhead = 1
INVARIANTS GivesUpAfterRetries
PROPERTIES SlotsApart HonoursRetryAfter CallReturns
