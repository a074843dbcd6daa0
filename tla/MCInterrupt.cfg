SPECIFICATION CutSpec
CONSTANTS
  Ids = {v1}
  Callers = {c1}
  Pollers = {p}
  Sweepers = {}
  MaxSessions = 1
  MaxAudio = 1
  MaxEvents = 1
  Chunks = {1}
  MaxQueue = 2
INVARIANT OneCutPerSpeech
CHECK_DEADLOCK FALSE
