\* peers.json: no watcher.  One valid pair of updates that race, one update
\* whose result fails the schema, one hand-edit, one crash.
SPECIFICATION FairSpec
CONSTANTS
  Updates = {u1, u2, u3}
  Edits = {e1}
  Invalid = {u3}
  Reloads = {}
  MaxUnlinks = 0
  PathWatch = FALSE
  MaxCrashes = 1
INVARIANTS NoLostUpdate NoDirtyRead NoTornFile
PROPERTIES UpdatesSettle ImplementsAtomicStore
CHECK_DEADLOCK FALSE
