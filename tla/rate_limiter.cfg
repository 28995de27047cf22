\* Three calls share a bucket of two tokens that refills at 2 tokens per 3
\* ticks, so waits are rounded and the refill shortcut is taken.
SPECIFICATION FairSpec
CONSTANTS
  Callers = {c1, c2, c3}
  Capacity = 2
  Rate = 2
  Second = 3
  RetryBase = 1
  MaxAttempts = 3
  MaxSetback = 1
  Setbacks = 1
INVARIANTS TypeOK WindowBound NoOversleep
PROPERTY CallsReturn
