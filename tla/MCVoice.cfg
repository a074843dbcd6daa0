SPECIFICATION MCSpec
CONSTANTS
  v1 = v1
  v2 = v2
  d1 = d1
  d2 = d2
  d3 = d3
  Ids = {v1, v2}
  Callers = {c1, c2}
  Pollers = {p}
  Sweepers = {w}
  MaxSessions = 1
  MaxAudio = 1
  MaxEvents = 1
  Chunks = {1}
  MaxQueue = 2
  Clients = {d1, d2, d3}
  MaxRecording = 1
  Pieces = {1}
  Sids = {s}
  Phones = {p1, p2}
  Starts = {r1, r2}
  Ends = {e}
  Webhooks = {w1, w2}
  MaxRetries = 1
  Capacity = 2
  MaxTaken = 4
  None = None
SYMMETRY Symmetric
INVARIANTS AudioAccounted NothingLeftBehind SpeechOver StudioIsExact ManagedKeepsTrack
PROPERTIES ImplementsPool OverIsOver StudioImplementsPool
CHECK_DEADLOCK FALSE
