-------------------------- MODULE RateLimiterProofs --------------------------
(***************************************************************************)
(* Type correctness and the quota of RateLimiter, for every capacity,      *)
(* rate, clock resolution and number of calls.                             *)
(***************************************************************************)
EXTENDS RateLimiter, TLAPS

(***************************************************************************)
(* The inductive invariant.  Whatever has been taken in excess of the      *)
(* sustained rate, together with what the bucket holds and what the time   *)
(* since the last refill is worth, stays below a full bucket and a token;  *)
(* unless nothing is in excess.  WindowBound alone says nothing about the  *)
(* credit that the next refill turns into tokens.  A call that backs off   *)
(* has an attempt left, which bounds the counter.                          *)
(***************************************************************************)
Worth == IF credit >= 0 THEN credit ELSE 0
Budget == load > 0 => load + tokens + Worth < Full + Token
Counted == \A c \in Callers : state[c] = "backoff" => attempt[c] < MaxAttempts
IInv == TypeOK /\ Budget /\ Counted

(***************************************************************************)
(* A full bucket holds at least a token.                                   *)
(***************************************************************************)
LEMMA Sizes == Token \in Nat /\ Full \in Nat /\ Token > 0 /\ Full >= Token
<1>1. Token \in Nat /\ Token > 0
  BY LimiterAssumption DEF Token
<1>2. Capacity * Second >= Second /\ Capacity * Second \in Nat
  BY LimiterAssumption
<1> QED
  BY <1>1, <1>2 DEF Token, Full

(***************************************************************************)
(* refill never lowers the level, and never makes more of the time than it *)
(* is worth.                                                               *)
(***************************************************************************)
LEMMA RefilledBounds ==
  ASSUME TypeOK
  PROVE  /\ Refilled \in 0..Full
         /\ Refilled <= tokens + Worth
         /\ ~NoRefill => credit > 0
<1>1. tokens \in 0..Full /\ credit \in Int
  BY DEF TypeOK
<1> QED
  BY <1>1, Sizes DEF Refilled, NoRefill, AtMost, Worth

(***************************************************************************)
(* The sleep in acquire is a whole number of ticks.                        *)
(***************************************************************************)
LEMMA ShortageType == ASSUME TypeOK PROVE Shortage \in Nat
<1>1. Refilled \in Int
  BY RefilledBounds, Sizes
<1>2. Token - Refilled + Rate - 1 \in Int /\ Rate \in Int /\ Rate > 0
  BY <1>1, Sizes, LimiterAssumption
<1>3. CeilDiv(Token - Refilled, Rate) \in Int
  BY <1>2 DEF CeilDiv
<1> QED
  BY <1>3 DEF Shortage, AtLeast

(***************************************************************************)
(* A turn of acquire's loop keeps the budget: a token is paid for by the   *)
(* tokens and the credit it consumes.                                      *)
(***************************************************************************)
LEMMA TryAcquireKeepsBudget ==
  ASSUME IInv, NEW c \in Callers, TryAcquire(c)
  PROVE  Budget' /\ tokens' \in 0..Full /\ load' \in Nat
                 /\ credit' \in Int /\ credit' <= Full
<1> USE Sizes
<1>1. /\ tokens \in 0..Full /\ load \in Nat
      /\ credit \in Int /\ credit <= Full /\ Budget
  BY DEF IInv, TypeOK
<1>2. Refilled \in 0..Full /\ Refilled <= tokens + Worth /\ (~NoRefill => credit > 0)
  BY RefilledBounds DEF IInv
<1>3. NoRefill => Refilled = tokens /\ credit' = credit
  BY DEF Refilled, TryAcquire
<1>4. ~NoRefill => credit' = 0
  BY DEF TryAcquire
<1>5. CASE Refilled >= Token
  <2>1. tokens' = Refilled - Token /\ load' = load + Token
    BY <1>5, <1>2 DEF TryAcquire
  <2>2. CASE NoRefill
    <3>1. Worth < Token
      BY <2>2, <1>1, <1>3, <1>5 DEF NoRefill, Worth
    <3> QED
      BY <1>1, <1>3, <1>5, <2>1, <2>2, <3>1 DEF Budget, Worth
  <2>3. CASE ~NoRefill
    BY <1>1, <1>2, <1>4, <1>5, <2>1, <2>3 DEF Budget, Worth
  <2> QED
    BY <2>2, <2>3
<1>6. CASE Refilled < Token
  <2>1. tokens' = Refilled /\ load' = load
    BY <1>6, <1>2 DEF TryAcquire
  <2> QED
    BY <1>1, <1>2, <1>3, <1>4, <2>1 DEF Budget, Worth
<1> QED
  BY <1>2, <1>5, <1>6

(***************************************************************************)
(* A turn of acquire's loop keeps the types of the caller's variables.     *)
(***************************************************************************)
LEMMA TryAcquireTypes ==
  ASSUME IInv, NEW c \in Callers, TryAcquire(c)
  PROVE  /\ state' \in [Callers -> States]
         /\ \A d \in Callers : state'[d] = "backoff" => d # c /\ state[d] = "backoff"
         /\ wait' \in [Callers -> Nat]
         /\ setbacks' \in 0..Setbacks
<1>1. Shortage \in Nat
  BY ShortageType DEF IInv
<1> QED
  BY <1>1 DEF TryAcquire, IInv, TypeOK, States

LEMMA InitInvariant == Init => IInv
BY Sizes, LimiterAssumption DEF Init, IInv, TypeOK, Budget, Counted, States

LEMMA NextInvariant == IInv /\ [Next]_vars => IInv'
<1> SUFFICES ASSUME IInv, [Next]_vars PROVE IInv'
  OBVIOUS
<1> USE LimiterAssumption, Sizes
<1> USE DEF IInv
<1>1. ASSUME NEW c \in Callers, TryAcquire(c), attempt' \in [Callers -> 0..MaxAttempts],
              \A d \in Callers \ {c} : attempt'[d] = attempt[d]
      PROVE  IInv'
  BY <1>1, TryAcquireKeepsBudget, TryAcquireTypes DEF TypeOK, Counted
<1>2. ASSUME NEW c \in Callers, Begin(c) PROVE IInv'
  BY <1>1, <1>2 DEF Begin, TypeOK
<1>3. ASSUME NEW c \in Callers, Wake(c) PROVE IInv'
  BY <1>1, <1>3 DEF Wake, TypeOK
<1>4. ASSUME NEW c \in Callers, Retry(c) PROVE IInv'
  <2>1. attempt[c] < MaxAttempts
    BY <1>4 DEF Retry, Counted
  <2> QED
    BY <1>1, <1>4, <2>1 DEF Retry, TypeOK
<1>5. ASSUME NEW c \in Callers, TooMany(c) PROVE IInv'
  <2>1. RetryBase * attempt[c] \in Nat
    BY DEF TypeOK
  <2> QED
    BY <1>5, <2>1 DEF TooMany, bucketVars, TypeOK, States, Budget, Worth, Counted
<1>6. ASSUME NEW c \in Callers, Return(c) PROVE IInv'
  BY <1>6 DEF Return, bucketVars, TypeOK, States, Returned, Budget, Worth, Counted
<1>7. CASE Tick
  BY <1>7 DEF Tick, TypeOK, AtMost, AtLeast, Budget, Worth, Counted
<1>8. CASE SetBack
  <2>1. PICK d \in 1..MaxSetback : credit' = credit - d * Rate
    BY <1>8 DEF SetBack
  <2>2. d * Rate \in Nat
    OBVIOUS
  <2> QED
    BY <1>8, <2>1, <2>2 DEF SetBack, TypeOK, Budget, Worth, Counted
<1>9. CASE UNCHANGED vars
  BY <1>9 DEF vars, TypeOK, Budget, Worth, Counted
<1> QED
  BY <1>2, <1>3, <1>4, <1>5, <1>6, <1>7, <1>8, <1>9 DEF Next, CallerStep

(***************************************************************************)
(* The variables keep their types.                                         *)
(***************************************************************************)
THEOREM TypeCorrect == Spec => []TypeOK
<1>1. IInv => TypeOK
  BY DEF IInv
<1> QED
  BY <1>1, InitInvariant, NextInvariant, PTL DEF Spec

(***************************************************************************)
(* In every interval fewer requests leave than the capacity, the refill    *)
(* during the interval and one more (RateLimiter.acquire).                 *)
(***************************************************************************)
THEOREM Quota == Spec => []WindowBound
<1>1. IInv => WindowBound
  BY Sizes DEF IInv, Budget, TypeOK, WindowBound, Worth
<1> QED
  BY <1>1, InitInvariant, NextInvariant, PTL DEF Spec

-----------------------------------------------------------------------------
(***************************************************************************)
(* The sleep in acquire is the shortest that fills the deficit: a tick     *)
(* less does not.                                                          *)
(***************************************************************************)
LEMMA CeilDivTight ==
  ASSUME NEW x \in Nat \ {0}, NEW d \in Nat \ {0}
  PROVE  CeilDiv(x, d) \in Nat /\ (CeilDiv(x, d) - 1) * d < x
<1> DEFINE q == (x + d - 1) \div d
<1>1. q \in Nat /\ d * q <= x + d - 1
  OBVIOUS
<1>2. (q - 1) * d = d * q - d
  BY <1>1
<1> HIDE DEF q
<1>3. (q - 1) * d < x
  BY <1>1, <1>2
<1> QED
  BY <1>1, <1>3 DEF CeilDiv, q

LEMMA ShortageTight ==
  ASSUME TypeOK, Refilled < Token
  PROVE  Shortage \in Nat \ {0} /\ Refilled + (Shortage - 1) * Rate < Token
<1>1. Refilled \in Nat /\ Token - Refilled \in Nat \ {0} /\ Rate \in Nat \ {0}
  BY RefilledBounds, Sizes, LimiterAssumption
<1> DEFINE s == CeilDiv(Token - Refilled, Rate)
<1>2. s \in Nat /\ (s - 1) * Rate < Token - Refilled
  BY <1>1, CeilDivTight
<1>3. Shortage = IF s >= 1 THEN s ELSE 1
  BY DEF Shortage, AtLeast
<1> HIDE DEF s
<1>4. (Shortage - 1) * Rate < Token - Refilled
  BY <1>1, <1>2, <1>3
<1>5. (Shortage - 1) * Rate \in Int
  BY <1>1, <1>2, <1>3
<1> QED
  BY <1>1, <1>2, <1>3, <1>4, <1>5, Sizes

(***************************************************************************)
(* What a call has still to sleep, in tokens.                              *)
(***************************************************************************)
Remaining(c) == (wait[c] - 1) * Rate

(***************************************************************************)
(* A clock that was set back is a debt, and where there is less in the     *)
(* bucket the rest of a sleep brings it to less.                           *)
(***************************************************************************)
LEMMA Sinks ==
  ASSUME NEW level \in Int, NEW debt \in Int, debt <= 0
  PROVE  level + debt <= level
OBVIOUS

LEMMA Lowered ==
  ASSUME NEW have \in Int, NEW now \in Int, NEW rest \in Int, have + rest < Token, now <= have
  PROVE  now + rest < Token
BY Sizes

(***************************************************************************)
(* A turn of acquire's loop never brings the tokens that another call      *)
(* sleeps for closer, for refill only moves credit into the bucket; and a  *)
(* call that goes to sleep finds no credit left unused.                    *)
(***************************************************************************)
LEMMA TryAcquireKeepsSleepers ==
  ASSUME IInv, NoOversleep, NEW c \in Callers, TryAcquire(c)
  PROVE  NoOversleep'
<1> USE Sizes, LimiterAssumption
<1>1. /\ TypeOK /\ tokens \in 0..Full /\ credit \in Int /\ credit <= Full
      /\ state \in [Callers -> States] /\ wait \in [Callers -> Nat]
  BY DEF IInv, TypeOK
<1>2. Refilled \in 0..Full
  BY <1>1, RefilledBounds
<1>3. /\ NoRefill => Refilled = tokens /\ credit' = credit
      /\ ~NoRefill => Refilled <= tokens + credit /\ credit' = 0
  BY <1>1 DEF TryAcquire, Refilled, AtMost
<1>4. /\ tokens + credit \in Int /\ tokens' + credit' \in Int /\ Refilled + credit' \in Int
      /\ Refilled \in Int /\ credit' \in Int
      /\ tokens' + credit' <= tokens + credit
  BY <1>1, <1>2, <1>3 DEF TryAcquire
<1>5. ASSUME NEW d \in Callers \ {c}, state'[d] = "asleep", wait'[d] > 0
      PROVE  tokens' + credit' + (wait'[d] - 1) * Rate < Token
  <2>1. state[d] = "asleep" /\ wait'[d] = wait[d] /\ wait[d] \in Nat
    BY <1>1, <1>5 DEF TryAcquire
  <2>2. Remaining(d) \in Int /\ tokens + credit + Remaining(d) < Token
    BY <1>5, <2>1 DEF NoOversleep, Remaining
  <2>3. tokens' + credit' + Remaining(d) < Token
    BY <1>4, <2>2, Lowered
  <2> QED
    BY <2>1, <2>3 DEF Remaining
<1>6. ASSUME state'[c] = "asleep"
      PROVE  tokens' + credit' + (wait'[c] - 1) * Rate < Token
  <2>1. Refilled < Token /\ tokens' = Refilled /\ wait'[c] = Shortage
    BY <1>1, <1>6 DEF TryAcquire
  <2>2. Refilled + credit' <= Refilled
    <3>1. credit' <= 0
      BY <1>1, <1>3, <2>1 DEF NoRefill
    <3>2. Refilled \in Int /\ credit' \in Int
      BY <1>4
    <3> QED
      BY <3>1, <3>2, Sinks
  <2>3. Shortage \in Nat /\ Refilled + (Shortage - 1) * Rate < Token
    BY <1>1, <2>1, ShortageTight
  <2>4. (Shortage - 1) * Rate \in Int
    BY <2>3
  <2>5. Refilled + credit' + (Shortage - 1) * Rate < Token
    BY <1>4, <2>2, <2>3, <2>4, Lowered
  <2> QED
    BY <2>1, <2>5
<1> QED
  BY <1>5, <1>6 DEF NoOversleep

LEMMA NextKeepsSleepers == IInv /\ NoOversleep /\ [Next]_vars => NoOversleep'
<1> SUFFICES ASSUME IInv, NoOversleep, [Next]_vars PROVE NoOversleep'
  OBVIOUS
<1> USE LimiterAssumption, Sizes
<1>0. /\ tokens \in Nat /\ credit \in Int
      /\ state \in [Callers -> States] /\ wait \in [Callers -> Nat]
  BY DEF IInv, TypeOK
<1>1. ASSUME NEW c \in Callers, Begin(c) \/ Wake(c) \/ Retry(c) PROVE NoOversleep'
  BY <1>1, TryAcquireKeepsSleepers DEF Begin, Wake, Retry
<1>2. ASSUME NEW c \in Callers, TooMany(c) \/ Return(c) PROVE NoOversleep'
  <2>1. \A d \in Callers : state'[d] = "asleep" => state[d] = "asleep" /\ wait'[d] = wait[d]
    BY <1>0, <1>2 DEF TooMany, Return, Returned
  <2>2. UNCHANGED <<tokens, credit>>
    BY <1>2 DEF TooMany, Return, bucketVars
  <2> QED
    BY <2>1, <2>2 DEF NoOversleep
<1>3. CASE Tick
  <2> SUFFICES ASSUME NEW c \in Callers, state'[c] = "asleep", wait'[c] > 0
               PROVE  tokens' + credit' + (wait'[c] - 1) * Rate < Token
    BY DEF NoOversleep
  <2>1. /\ state[c] = "asleep" /\ wait[c] \in Nat /\ wait'[c] = wait[c] - 1 /\ wait[c] > 0
        /\ tokens' = tokens /\ credit' \in Int /\ credit' <= credit + Rate
    BY <1>0, <1>3 DEF Tick, AtLeast, AtMost
  <2>2. Remaining(c) \in Int /\ tokens + credit + Remaining(c) < Token
    BY <2>1 DEF NoOversleep, Remaining
  <2>3. (wait'[c] - 1) * Rate = Remaining(c) - Rate
    BY <2>1 DEF Remaining
  <2> QED
    BY <1>0, <2>1, <2>2, <2>3
<1>4. CASE SetBack
  <2>1. PICK b \in 1..MaxSetback : credit' = credit - b * Rate
    BY <1>4 DEF SetBack
  <2>2. credit' \in Int /\ credit' <= credit /\ UNCHANGED <<tokens, state, wait>>
    <3>1. b * Rate \in Nat
      OBVIOUS
    <3> QED
      BY <1>0, <1>4, <2>1, <3>1 DEF SetBack
  <2> SUFFICES ASSUME NEW c \in Callers, state[c] = "asleep", wait[c] > 0
               PROVE  tokens + credit' + Remaining(c) < Token
    BY <2>2 DEF NoOversleep, Remaining
  <2>3. Remaining(c) \in Int /\ tokens + credit + Remaining(c) < Token
    BY <1>0 DEF NoOversleep, Remaining
  <2> QED
    BY <1>0, <2>2, <2>3
<1>5. CASE UNCHANGED vars
  BY <1>5 DEF vars, NoOversleep
<1> QED
  BY <1>1, <1>2, <1>3, <1>4, <1>5 DEF Next, CallerStep

(***************************************************************************)
(* A tick before a sleeping call's timer fires there is less than a token  *)
(* for it, whatever other calls take and however the clock is set back     *)
(* meanwhile: no call sleeps longer than it has to (msUntilNext).          *)
(***************************************************************************)
THEOREM SleepsNoLonger == Spec => []NoOversleep
<1>1. Init => NoOversleep
  BY DEF Init, NoOversleep
<1> QED
  BY <1>1, InitInvariant, NextInvariant, NextKeepsSleepers, PTL DEF Spec

==============================================================================
