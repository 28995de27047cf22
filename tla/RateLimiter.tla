----------------------------- MODULE RateLimiter -----------------------------
(***************************************************************************)
(* RateLimiter (server/src/vk/rate-limiter.ts): the token bucket every VK  *)
(* API call goes through, and the retry of calls that VK rejects with      *)
(* error 6.                                                                *)
(*                                                                         *)
(* Time is discrete: a tick is the resolution of Date.now.  Tokens are     *)
(* counted in units of 1/Second of a token, so that a tick is worth Rate   *)
(* units and all arithmetic is in integers.  Time is kept relative to      *)
(* lastRefillAt and to the timers, so the state space is finite although   *)
(* the clock runs forever.                                                 *)
(***************************************************************************)
EXTENDS Integers

CONSTANTS
  Callers,      \* the calls of withRetry that may be under way at once
  Capacity,     \* capacity of the bucket, in tokens
  Rate,         \* refillPerSec
  Second,       \* ticks per second
  RetryBase,    \* RETRY_BASE_MS, in ticks
  MaxAttempts,  \* RETRY_MAX_ATTEMPTS
  MaxSetback,   \* bound on how far the wall clock is ever set back, in ticks
  Setbacks      \* bound on how often it is

ASSUME LimiterAssumption ==
  /\ Capacity \in Nat \ {0}
  /\ Rate \in Nat \ {0}
  /\ Second \in Nat \ {0}
  /\ RetryBase \in Nat
  /\ MaxAttempts \in Nat \ {0}
  /\ MaxSetback \in Nat
  /\ Setbacks \in Nat

Token == Second
Full == Capacity * Second

VARIABLES
  tokens,    \* this.tokens
  credit,    \* what the time since this.lastRefillAt is worth; < 0 if set back
  state,     \* where each call is
  attempt,   \* its attempt counter
  wait,      \* the ticks left of its sleep
  setbacks,  \* how often the clock has been set back (bounded by Setbacks)
  load       \* the requests in excess of the sustained rate (history)

vars == <<tokens, credit, state, attempt, wait, setbacks, load>>
bucketVars == <<tokens, credit, load>>

States == {"idle", "asleep", "calling", "backoff", "ok", "failed"}
Returned == {"ok", "failed"}

AtMost(x, bound) == IF x <= bound THEN x ELSE bound
AtLeast(x, bound) == IF x >= bound THEN x ELSE bound
CeilDiv(x, d) == (x + d - 1) \div d

Init ==
  /\ tokens = Full
  /\ credit = 0
  /\ state = [c \in Callers |-> "idle"]
  /\ attempt = [c \in Callers |-> 0]
  /\ wait = [c \in Callers |-> 0]
  /\ setbacks = 0
  /\ load = 0

-----------------------------------------------------------------------------
(***************************************************************************)
(* acquire and refill                                                      *)
(***************************************************************************)

\* Fault: no refill while there is a token, however much time has passed.
FaultRefillWhenEmpty == credit <= 0 \/ tokens >= Token

\* refill leaves the bucket alone: the clock has not moved forward, or what
\* it is worth is less than a token and there is a token anyway.
NoRefill == credit <= 0 \/ (credit < Token /\ tokens >= Token)

\* Fault: the bucket is not capped.
FaultUncapped == IF NoRefill THEN tokens ELSE tokens + credit

Refilled == IF NoRefill THEN tokens ELSE AtMost(tokens + credit, Full)

\* Fault: the wait for a whole token instead of the missing part.
FaultWholeToken == AtLeast(CeilDiv(Token, Rate), 1)

\* The time until the deficit is refilled, rounded up, at least a tick.
Shortage == AtLeast(CeilDiv(Token - Refilled, Rate), 1)

\* One turn of acquire's loop: take a token and go on to the call, or sleep.
TryAcquire(c) ==
  /\ credit' = IF NoRefill THEN credit ELSE 0
  /\ \/ /\ Refilled >= Token
        /\ tokens' = Refilled - Token
        /\ load' = load + Token
        /\ state' = [state EXCEPT ![c] = "calling"]
        /\ UNCHANGED wait
     \/ /\ Refilled < Token
        /\ tokens' = Refilled
        /\ state' = [state EXCEPT ![c] = "asleep"]
        /\ wait' = [wait EXCEPT ![c] = Shortage]
        /\ UNCHANGED load
  /\ UNCHANGED setbacks

-----------------------------------------------------------------------------
(***************************************************************************)
(* withRetry                                                               *)
(***************************************************************************)

\* A new call; the callers come back without end.
Begin(c) ==
  /\ state[c] \in {"idle"} \union Returned
  /\ attempt' = [attempt EXCEPT ![c] = 1]
  /\ TryAcquire(c)

\* The sleep in acquire is over.  Timers may fire late, never early.
Wake(c) ==
  /\ state[c] = "asleep"
  /\ wait[c] = 0
  /\ TryAcquire(c)
  /\ UNCHANGED attempt

\* Fault: the attempts are not counted.
FaultUncounted(c) ==
  /\ state[c] = "backoff"
  /\ wait[c] = 0
  /\ TryAcquire(c)
  /\ UNCHANGED attempt

\* The backoff is over: the next attempt needs a token like the first.
Retry(c) ==
  /\ state[c] = "backoff"
  /\ wait[c] = 0
  /\ attempt' = [attempt EXCEPT ![c] = @ + 1]
  /\ TryAcquire(c)

\* VK answers "too many requests" and attempts are left.
TooMany(c) ==
  /\ state[c] = "calling"
  /\ attempt[c] < MaxAttempts
  /\ state' = [state EXCEPT ![c] = "backoff"]
  /\ wait' = [wait EXCEPT ![c] = RetryBase * attempt[c]]
  /\ UNCHANGED <<bucketVars, attempt, setbacks>>

\* The call succeeds, or fails with another error or on the last attempt.
Return(c) ==
  /\ state[c] = "calling"
  /\ \E end \in Returned : state' = [state EXCEPT ![c] = end]
  /\ UNCHANGED <<bucketVars, attempt, wait, setbacks>>

-----------------------------------------------------------------------------
\* A tick of the clock.  Credit beyond a full bucket makes no difference.
Tick ==
  /\ credit' = AtMost(credit + Rate, Full)
  /\ wait' = [c \in Callers |-> AtLeast(wait[c] - 1, 0)]
  /\ load' = AtLeast(load - Rate, 0)
  /\ UNCHANGED <<tokens, state, attempt, setbacks>>

\* The wall clock is set back; timers are not affected.  When the credit
\* was capped, the bucket may in truth stay fuller than this says, as it
\* does without the set-back.
SetBack ==
  /\ setbacks < Setbacks
  /\ setbacks' = setbacks + 1
  /\ \E d \in 1..MaxSetback : credit' = credit - d * Rate
  /\ UNCHANGED <<tokens, state, attempt, wait, load>>

CallerStep(c) == Wake(c) \/ Retry(c) \/ TooMany(c) \/ Return(c)

Next ==
  \/ \E c \in Callers : Begin(c) \/ CallerStep(c)
  \/ Tick
  \/ SetBack

Spec == Init /\ [][Next]_vars

(***************************************************************************)
(* Fairness: time passes, timers fire, and VK (or the HTTP timeout)        *)
(* answers every request.                                                  *)
(***************************************************************************)
FairSpec ==
  /\ Spec
  /\ WF_vars(Tick)
  /\ \A c \in Callers : WF_vars(CallerStep(c))

-----------------------------------------------------------------------------
(***************************************************************************)
(* The types of the variables.                                             *)
(***************************************************************************)
TypeOK ==
  /\ tokens \in 0..Full
  /\ credit \in Int /\ credit <= Full
  /\ state \in [Callers -> States]
  /\ attempt \in [Callers -> 0..MaxAttempts]
  /\ wait \in [Callers -> Nat]
  /\ setbacks \in 0..Setbacks
  /\ load \in Nat

(***************************************************************************)
(* The quota.  load is the largest value, over all intervals that end now, *)
(* of the requests made in the interval, less what Rate allows in it: in   *)
(* any interval of w ticks fewer than Capacity + 1 + Rate * w / Second     *)
(* requests leave.  The "+ 1" is the price of refill's shortcut, which     *)
(* takes a token from a full bucket without using up the time that was     *)
(* worth less than one.                                                    *)
(***************************************************************************)
WindowBound == load < Full + Token

(***************************************************************************)
(* No call sleeps past the moment its token is due, whatever other calls   *)
(* take or refill meanwhile: a tick before its timer fires there is less   *)
(* than a token in the bucket (acquire, msUntilNext).                      *)
(***************************************************************************)
NoOversleep ==
  \A c \in Callers : state[c] = "asleep" /\ wait[c] > 0 =>
    tokens + credit + (wait[c] - 1) * Rate < Token

(***************************************************************************)
(* A call returns unless new calls keep coming for ever: neither the loop  *)
(* in acquire, in which those that wait compete for tokens, nor the        *)
(* retries go on without end.  acquire has no queue, so a stream of new    *)
(* calls may take every token a sleeper wakes for; each of them is a call  *)
(* that gets through in its place.                                         *)
(***************************************************************************)
NewCallsForEver == []<><<\E c \in Callers : Begin(c)>>_vars

CallsReturn ==
  NewCallsForEver \/ \A c \in Callers : state[c] = "asleep" ~> state[c] \in Returned
==============================================================================
