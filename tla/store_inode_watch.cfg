\* access.json on a platform where fs.watch follows the inode: one update,
\* then one hand-edit.  Expected to be violated.
SPECIFICATION FairSpec
CONSTANTS
  Updates = {u1}
  Edits = {e1}
  Invalid = {}
  Reloads = {r1}
  MaxUnlinks = 0
  PathWatch = FALSE
  MaxCrashes = 0
PROPERTY Converges
CHECK_DEADLOCK FALSE
