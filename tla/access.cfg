\* Two admin calls of any kind, two messages of any kind, one reload at a time.
SPECIFICATION Spec
CONSTANTS
  Dms = {d1, d2}
  Groups = {g1, g2}
  Users = {u1, u2}
  Codes = {k1, k2}
  Entries <- MCEntries
  Found <- MCFound
  Requests = {q1, q2}
  Messages = {m1, m2}
  Reloads = {r1}
  None = None
  MaxEntries = 1
INVARIANTS TypeOK ToldCodesWork AllowedNotPending OneDenyReply NoStranger
PROPERTY OperatorAdmits
SYMMETRY Symmetry
