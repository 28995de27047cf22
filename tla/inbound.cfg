CONSTANTS
  Messages = {m1, m2}
  Contents <- MCContents
  Sustained = 3
  MaxReboots = 1
SPECIFICATION Spec
INVARIANTS TypeOK StatusTells WarnsOnce ShownWhole
PROPERTIES ImplementsChannel ConnectsEventually
CHECK_DEADLOCK FALSE
