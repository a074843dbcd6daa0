SPECIFICATION MCSpec
CONSTANTS
  g2 = g2
  r2 = r2
  Ids = {a1, a2}
  Keys <- ReminderKeys
  None = None
  Gateways = {g1, g2}
  Delays = {1, 2}
  MaxAttempts = 2
  RetryBase = 1
  StaleAfter = 3
  Batch = 2
  DispatchTime = 1
  MaxLate = 1
  MaxFaults = 1
  Interviews = {v}
  Offsets = {1, 2}
  Channels = {whatsapp}
  MaxChannels = 1
  Starts = {2, 3}
  Requests = {r1, r2}
INVARIANTS ClaimsExclusive PerformedAccounted RemindersKept
PROPERTIES OutcomeFinal EveryActionSettles
CHECK_DEADLOCK FALSE
