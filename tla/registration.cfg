\* Two chains to register by two calls, one chain configured from the start;
\* one crash.
SPECIFICATION FairSpec
CONSTANTS
  x = x
  y = y
  z = z
  k1 = k1
  k2 = k2
  Chain = {x, y, z}
  Configured = {z}
  NoChain = none
  Call = {k1, k2}
  MaxCrashes = 1
INVARIANTS
  ScannedOnce
  ConfigurationKept
PROPERTY CreatedIsServed
CHECK_DEADLOCK FALSE
