SPECIFICATION MCSpec
CONSTANTS
  c1 = c1
  c2 = c2
  p1 = p1
  p2 = p2
  CallIds = {c1, c2}
  ProviderIds = {p1, p2}
  Providers = {twilio}
  Interviews = {i1}
  Keys = {k1}
  EventIds <- NoticeIds
  Notices <- LateNotices
  MaxArrivals = 2
  None = None
SYMMETRY Symmetric
INVARIANTS AuditMatchesRow UniqueLinks PlansAreRight
PROPERTIES EndedIsFinal EachEventOnce ImplementsRegister
CHECK_DEADLOCK FALSE
