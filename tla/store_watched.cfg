\* access.json: an update, a valid and an invalid hand-edit, two reloads that
\* may overlap, the file may be removed, one crash.
SPECIFICATION FairSpec
CONSTANTS
  Updates = {u1}
  Edits = {e1, e2}
  Invalid = {e2}
  Reloads = {r1, r2}
  MaxUnlinks = 1
  PathWatch = TRUE
  MaxCrashes = 1
INVARIANT CacheValid
PROPERTY Converges
CHECK_DEADLOCK FALSE
