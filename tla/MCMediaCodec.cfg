SPECIFICATION Spec
CONSTANTS
  Samples = {0, 100, 1000, 10000}
  MaxLength = 2
CHECK_DEADLOCK FALSE
INVARIANT HeardAsSent
