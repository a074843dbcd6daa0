SPECIFICATION FairSpec
CONSTANTS
  c1 = c1
  c2 = c2
  p1 = p1
  p2 = p2
  s1 = s1
  s2 = s2
  i1 = i1
  i2 = i2
  CallIds = {c1}
  ProviderIds = {p1, p2}
  Keys = {}
  MaxArrivals = 1
  None = None
  Provider = vapi
  Interviews = {i1}
  Starts = {s1}
  Ends = {e1}
  Reported <- VapiReports
  WithCallId = {TRUE}
  MaxRetries = 1
  MaxCrashes = 1
INVARIANTS RecordedEndEnds RefusedOnlyForSecondPhone
PROPERTY PhoneOverSettles
CHECK_DEADLOCK FALSE
