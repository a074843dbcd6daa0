SPECIFICATION Spec
CONSTANTS
  c1 = c1
  c2 = c2
  p1 = p1
  p2 = p2
  s1 = s1
  s2 = s2
  i1 = i1
  i2 = i2
  CallIds = {c1, c2}
  ProviderIds = {p1, p2}
  Keys = {k1}
  MaxArrivals = 2
  None = None
  Provider = twilio
  Interviews = {i1, i2}
  Starts = {s1, s2}
  Ends = {}
  Reported <- AnsweredToDone
  WithCallId = {TRUE, FALSE}
  MaxRetries = 0
  MaxCrashes = 1
SYMMETRY Symmetric
INVARIANTS KeyDialsOnce NoCrossTalk NoticeNotLost
CHECK_DEADLOCK FALSE
