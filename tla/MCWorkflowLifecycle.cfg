SPECIFICATION MCSpec
CONSTANTS
  ann = ann
  bob = bob
  good = good
  b1 = b1
  None = None
  Contents = {good, bad}
  Sound = {good}
  Subjects = {ann, bob}
  Keys = {k1}
  Bindings = {b1, b2}
  Starters = {s1}
  MaxVersions = 2
  MaxDeployments = 4
  MaxTests = 1
  MaxApprovals = 1
SYMMETRY Symmetric
INVARIANTS UniqueRows RanOnlyProven PinnedIsProven DisabledIsStopped
PROPERTIES ImplementsRegister FoundWhileEnabled ProductionGoesOn
CHECK_DEADLOCK FALSE
