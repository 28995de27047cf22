------------------------------- MODULE LongPoll -------------------------------
(***************************************************************************)
(* The long-poll transport: LongPollService                                *)
(* (server/src/modules/inbound/long-poll.service.ts), what it tells the    *)
(* StatusRegistry (server/src/common/status.ts) and the warnings it pushes *)
(* to the session.                                                         *)
(*                                                                         *)
(* VK answers a start, refuses the token or fails it in another way; what  *)
(* vk-io does once it polls is its own.  The MCP client opens its session  *)
(* some time after the process has started, and a warning pushed before    *)
(* that is gone.  stop() has no caller and is left out.                    *)
(***************************************************************************)
EXTENDS Naturals

CONSTANT Sustained  \* SUSTAINED_BACKOFF_ATTEMPTS

ASSUME LongPollAssumption == Sustained \in Nat \ {0}

Tokens == {"missing", "refused", "good"}
Causes == {"missing", "refused", "unreachable"}

VARIABLES
  token,      \* VK_TOKEN of this process: .env is read at startup only
  reachable,  \* whether VK answers updates.start()
  loop,       \* "off", then what startWithBackoff is doing
  failures,   \* the failed attempts of this process, counted up to Sustained + 1
  warned,     \* sustainedWarningSent
  connected,  \* RuntimeStatus.vkConnected
  lastError,  \* RuntimeStatus.lastError: its cause, or "none"
  session,    \* whether the client has opened the MCP session
  pushed      \* how often each cause was pushed as a warning (history)

pollVars == <<token, reachable, loop, failures, warned, connected, lastError,
              session, pushed>>

LoopStates == {"off", "starting", "sleeping", "running", "ended"}

Booted ==
  /\ loop = "off"
  /\ failures = 0
  /\ warned = FALSE
  /\ connected = FALSE
  /\ lastError = "none"
  /\ session = FALSE
  /\ pushed = [c \in Causes |-> 0]

PollInit ==
  /\ token \in Tokens
  /\ reachable \in BOOLEAN
  /\ Booted

-----------------------------------------------------------------------------
\* Mutant: the error of the last attempt is kept.
FaultMarkConnected == connected' = TRUE /\ UNCHANGED lastError

MarkConnected ==
  /\ connected' = TRUE
  /\ lastError' = "none"

MarkDisconnected(cause) ==
  /\ connected' = FALSE
  /\ lastError' = cause

\* A notification, sent once and not kept: nobody reads it before the session.
Warn(cause) == pushed' = [pushed EXCEPT ![cause] = @ + 1]

-----------------------------------------------------------------------------
Start ==
  /\ loop = "off"
  /\ IF token = "missing"
     THEN /\ loop' = "ended"
          /\ MarkDisconnected("missing")
          /\ Warn("missing")
     ELSE /\ loop' = "starting"
          /\ UNCHANGED <<connected, lastError, pushed>>
  /\ UNCHANGED <<token, reachable, failures, warned, session>>

\* updates.start() returns: polling goes on until the process ends.
Connect ==
  /\ loop = "starting"
  /\ token = "good" /\ reachable
  /\ loop' = "running"
  /\ MarkConnected
  /\ warned' = FALSE
  /\ UNCHANGED <<token, reachable, failures, session, pushed>>

\* VK answers with error 5: no further attempt.
Refuse ==
  /\ loop = "starting"
  /\ token = "refused" /\ reachable
  /\ loop' = "ended"
  /\ MarkDisconnected("refused")
  /\ Warn("refused")
  /\ UNCHANGED <<token, reachable, failures, warned, session>>

\* attempt + 1, as far as anything compares it.
Counted == IF failures <= Sustained THEN failures + 1 ELSE failures

\* Mutant: the warning is repeated with every attempt after the third.
FaultDue == Counted >= Sustained

\* When the warning about a VK that cannot be reached is due.
Due == Counted = Sustained /\ ~warned

\* Any other failure of updates.start().
FailToStart ==
  /\ loop = "starting"
  /\ ~reachable
  /\ loop' = "sleeping"
  /\ MarkDisconnected("unreachable")
  /\ failures' = Counted
  /\ IF Due
     THEN warned' = TRUE /\ Warn("unreachable")
     ELSE UNCHANGED <<warned, pushed>>
  /\ UNCHANGED <<token, reachable, session>>

\* Mutant: the loop gives up with the warning.
FaultWake ==
  /\ loop = "sleeping"
  /\ loop' = IF warned THEN "ended" ELSE "starting"
  /\ UNCHANGED <<token, reachable, failures, warned, connected, lastError, session, pushed>>

\* The back-off is over.
Wake ==
  /\ loop = "sleeping"
  /\ loop' = "starting"
  /\ UNCHANGED <<token, reachable, failures, warned, connected, lastError, session, pushed>>

\* VK comes within reach, or is lost, while the loop still needs it.
ReachChanges ==
  /\ loop \in {"off", "starting", "sleeping"}
  /\ reachable' = ~reachable
  /\ UNCHANGED <<token, loop, failures, warned, connected, lastError, session, pushed>>

\* The process serves stdio and starts the loop in one go, so the client comes later.
OpenSession ==
  /\ loop # "off"
  /\ ~session
  /\ session' = TRUE
  /\ UNCHANGED <<token, reachable, loop, failures, warned, connected, lastError, pushed>>

\* The session ends and takes the process with it; the next one reads .env again.
Reboot ==
  /\ loop' = "off"
  /\ failures' = 0
  /\ warned' = FALSE
  /\ connected' = FALSE
  /\ lastError' = "none"
  /\ session' = FALSE
  /\ pushed' = [c \in Causes |-> 0]
  /\ token' \in Tokens
  /\ UNCHANGED reachable

LoopStep == Start \/ Connect \/ Refuse \/ FailToStart \/ Wake

PollStep == LoopStep \/ ReachChanges \/ OpenSession

\* The process runs, VK answers or the request fails, and timers fire.
PollFairness == WF_pollVars(LoopStep)

-----------------------------------------------------------------------------
PollTypeOK ==
  /\ token \in Tokens
  /\ loop \in LoopStates
  /\ failures \in 0..(Sustained + 1)
  /\ reachable \in BOOLEAN /\ warned \in BOOLEAN
  /\ connected \in BOOLEAN /\ session \in BOOLEAN
  /\ lastError \in Causes \union {"none"}
  /\ pushed \in [Causes -> Nat]

\* /state tells the truth about the loop whatever order attempts, failures and
\* back-offs come in: it says connected exactly while the loop polls, and from
\* the first failure until then it names the cause of the latest one: the warning
\* alone would not do, for it may be pushed before there is a session to read it.
StatusTells ==
  /\ connected <=> loop = "running"
  /\ loop = "running" => lastError = "none"
  /\ loop = "ended" => lastError = token
  /\ loop = "sleeping" => lastError = "unreachable"
  /\ loop = "starting" => lastError = IF failures > 0 THEN "unreachable" ELSE "none"

\* Each warning is pushed at most once in the life of a process, and exactly
\* when its cause is established: the long outage after the third attempt that
\* failed, neither earlier nor again while it lasts.
WarnsOnce ==
  /\ \A c \in Causes : pushed[c] <= 1
  /\ pushed["unreachable"] = 1 <=> failures >= Sustained
  /\ loop = "ended" <=> pushed["missing"] + pushed["refused"] = 1

\* Whatever happened before, a process with a good token polls once VK stays
\* within reach: no failure and no length of an outage ends the attempts.
ConnectsEventually ==
  (<>[]reachable) => <>[](token = "good" => loop = "running")
===============================================================================
