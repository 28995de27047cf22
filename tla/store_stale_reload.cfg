\* access.json, watched, and no hand-edit at all: the reload that an update
\* triggers is enough.  Expected to be violated.
SPECIFICATION Spec
CONSTANTS
  Updates = {u1, u2, u3}
  Edits = {}
  Invalid = {}
  Reloads = {r1}
  MaxUnlinks = 0
  PathWatch = TRUE
  MaxCrashes = 0
INVARIANT NoLostUpdate
CHECK_DEADLOCK FALSE
