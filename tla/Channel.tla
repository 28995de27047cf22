-------------------------------- MODULE Channel --------------------------------
(***************************************************************************)
(* What a person who writes to the bot may count on, and the session too:  *)
(* a message that was let in is shown exactly once as long as the session  *)
(* lives, and the click on a verdict button is never shown (step           *)
(* "Verdict short-circuit" of InboundService.handle,                       *)
(* server/src/modules/inbound/inbound.service.ts).  Nothing is promised    *)
(* about the order of two messages.                                        *)
(***************************************************************************)
CONSTANT Messages

VARIABLES
  open,   \* whether a session listens
  click,  \* whether each message is the click on a verdict button
  fate    \* "new", "waiting" once let in, "shown" or "gone"

vars == <<open, click, fate>>

Fates == {"new", "waiting", "shown", "gone"}

Init ==
  /\ open = FALSE
  /\ click \in [Messages -> BOOLEAN]
  /\ fate = [m \in Messages |-> "new"]

Open == ~open /\ open' = TRUE /\ UNCHANGED <<click, fate>>

\* The session ends, and the process with what it had not shown yet.
Close ==
  /\ open' = FALSE
  /\ fate' = [m \in Messages |-> IF fate[m] = "waiting" THEN "gone" ELSE fate[m]]
  /\ UNCHANGED click

LetIn(m) ==
  /\ fate[m] = "new" /\ ~click[m]
  /\ fate' = [fate EXCEPT ![m] = "waiting"]
  /\ UNCHANGED <<open, click>>

TurnAway(m) ==
  /\ fate[m] = "new"
  /\ fate' = [fate EXCEPT ![m] = "gone"]
  /\ UNCHANGED <<open, click>>

\* A session that listens is shown the message; without one it is lost.
Settle(m) ==
  /\ fate[m] = "waiting"
  /\ fate' = [fate EXCEPT ![m] = IF open THEN "shown" ELSE "gone"]
  /\ UNCHANGED <<open, click>>

Next ==
  \/ Open
  \/ Close
  \/ \E m \in Messages : LetIn(m) \/ TurnAway(m) \/ Settle(m)

\* What may happen, and what must.
Safe == Init /\ [][Next]_vars
Fair == \A m \in Messages : WF_vars(Settle(m))

Spec == Safe /\ Fair
===============================================================================
