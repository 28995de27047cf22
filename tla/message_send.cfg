\* Two calls with short texts to two conversations; VK answers in either way.
SPECIFICATION Spec
CONSTANTS
  Calls = {s1, s2}
  Peers = {p1, p2}
  None = None
  Texts <- MCTexts
  MaxLength = 3
  Lookback = 2
  RingLimit = 2
  Modulus = 2
  MaxNow = 2
  MaxPeople = 1
INVARIANTS TypeOK SentWhole RepliesMatchPeer
SYMMETRY Symmetry
\* The calls end, and the bounds on the clock and on people's messages are reached.
CHECK_DEADLOCK FALSE
