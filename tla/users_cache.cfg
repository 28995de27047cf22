\* Two lookups at once, any number one after the other, three people and room
\* for two of them, and one screen name that may pass from one to another.
SPECIFICATION Spec
CONSTANTS
  Users = {1, 2, 3}
  Names = {n1}
  None = None
  Lookups = {l1, l2}
  Limit = 2
  MaxAnswers = 3
  MaxChanges = 2
INVARIANTS TypeOK KeepsLatest IndexCovers
PROPERTY LookupsReturn
