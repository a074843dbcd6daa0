SPECIFICATION FairSpec
CONSTANTS
  c1 = c1
  c2 = c2
  p1 = p1
  p2 = p2
  s1 = s1
  s2 = s2
  i1 = i1
  i2 = i2
  CallIds = {c1}
  ProviderIds = {p1}
  Keys = {}
  MaxArrivals = 1
  None = None
  Provider = twilio
  Interviews = {i1}
  Starts = {s1}
  Ends = {e1}
  Reported <- RingingToDone
  WithCallId = {TRUE}
  MaxRetries = 0
  MaxCrashes = 0
INVARIANT EndMarksCancelled
CHECK_DEADLOCK FALSE
