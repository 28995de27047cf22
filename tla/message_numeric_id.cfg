\* VK answers with the message_id: a person's message is taken for the bot's.
SPECIFICATION Spec
CONSTANTS
  Calls = {s1, s2}
  Peers = {p1, p2}
  None = None
  Texts <- ShortTexts
  MaxLength = 3
  Lookback = 2
  RingLimit = 2
  Modulus = 2
  MaxNow = 2
  MaxPeople = 1
INVARIANT NoStrangeReply
SYMMETRY Symmetry
\* The calls end, and the bounds on the clock and on people's messages are reached.
CHECK_DEADLOCK FALSE
