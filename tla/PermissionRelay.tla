--------------------------- MODULE PermissionRelay ---------------------------
(***************************************************************************)
(* PermissionRelayService                                                  *)
(* (server/src/modules/permission-relay/permission-relay.service.ts): it   *)
(* asks the person in a paired DM to allow or deny a tool call, and tells  *)
(* the session the verdict of the button that person taps.                 *)
(*                                                                         *)
(* A prompt is one permission_request notification.  Two prompts may carry *)
(* the same request id (a re-issued request); the map of pending prompts   *)
(* and the buttons know only the id.  Between two awaits the code runs     *)
(* without interruption, which makes the gate (AccessGate.check) and the   *)
(* handling of a tap one step.                                             *)
(***************************************************************************)
EXTENDS Naturals, Sequences, FiniteSets

CONSTANTS
  Requests,  \* request ids
  Prompts,   \* permission_request notifications
  ReqOf,     \* the request id each prompt carries
  NoPrompt,  \* pending.get() of an id that is not in the map
  DMs,       \* the peer ids of people; a DM's peer id is its user's id
  MaxTaps    \* bound on the taps under way at once

ASSUME RelayAssumption ==
  /\ ReqOf \in [Prompts -> Requests]
  /\ IsFiniteSet(Prompts)
  /\ NoPrompt \notin Prompts
  /\ DMs \subseteq Nat \ {0}
  /\ MaxTaps \in Nat

NoPeer == 0
Behaviours == {"allow", "deny"}
Taps == [req : Requests, behavior : Behaviours, from : DMs, group : BOOLEAN]

VARIABLES
  chats,     \* the DMs in access.json
  disabled,  \* dmPolicy is "disabled", the kill switch
  phase,     \* what has become of each prompt
  peer,      \* the activator each prompt was sent to
  shown,     \* the prompts whose keyboard VK has delivered
  pending,   \* this.pending: the prompt waiting for an answer, per id
  armed,     \* the prompts whose auto-deny timer runs
  taps,      \* button clicks on their way through long poll
  emitted    \* the verdicts sent to the session, per id (history)

vars == <<chats, disabled, phase, peer, shown, pending, armed, taps, emitted>>
accessVars == <<chats, disabled>>

(***************************************************************************)
(* "fallback" prompts are left to the terminal, "dropped" ones have left   *)
(* the map without a verdict.                                              *)
(***************************************************************************)
Open == {"sending", "pending"}
Ended == {"fallback", "superseded", "answered", "expired", "dropped", "abandoned"}
Phases == {"idle"} \union Open \union Ended

Init ==
  /\ chats \in SUBSET DMs
  /\ disabled = FALSE
  /\ phase = [p \in Prompts |-> "idle"]
  /\ peer = [p \in Prompts |-> NoPeer]
  /\ shown = {}
  /\ pending = [r \in Requests |-> NoPrompt]
  /\ armed = {}
  /\ taps = {}
  /\ emitted = [r \in Requests |-> <<>>]

-----------------------------------------------------------------------------
(***************************************************************************)
(* handleRequest                                                           *)
(***************************************************************************)

\* findFirstDmActivator.  The keys of chats are integers, which
\* Object.entries lists in ascending order, whatever the insertion order.
FirstDm(c) == c \in chats /\ \A d \in chats : c <= d

HandleRequest(p) ==
  /\ phase[p] = "idle"
  /\ \/ /\ chats = {}
        /\ phase' = [phase EXCEPT ![p] = "fallback"]
        /\ UNCHANGED peer
     \/ \E c \in chats :
          /\ FirstDm(c)
          /\ peer' = [peer EXCEPT ![p] = c]
          /\ phase' = [phase EXCEPT ![p] = "sending"]
  /\ UNCHANGED <<accessVars, shown, pending, armed, taps, emitted>>

\* VK shows the message with its keyboard; the response is still under way.
Deliver(p) ==
  /\ phase[p] = "sending"
  /\ shown' = shown \union {p}
  /\ UNCHANGED <<accessVars, phase, peer, pending, armed, taps, emitted>>

\* The send fails, or only its response or a later chunk does.
SendFailed(p) ==
  /\ phase[p] = "sending"
  /\ phase' = [phase EXCEPT ![p] = "fallback"]
  /\ UNCHANGED <<accessVars, peer, shown, pending, armed, taps, emitted>>

\* The answer to p will be awaited; the prompt that had the id no longer.
Registered(p) ==
  [q \in Prompts |-> IF q = p THEN "pending"
                     ELSE IF q = pending[ReqOf[p]] THEN "superseded"
                     ELSE phase[q]]

\* Fault: a re-issued request leaves the previous timer armed.
FaultKeepOldTimer(p) ==
  /\ phase[p] = "sending"
  /\ p \in shown
  /\ phase' = Registered(p)
  /\ pending' = [pending EXCEPT ![ReqOf[p]] = p]
  /\ armed' = armed \union {p}
  /\ UNCHANGED <<accessVars, peer, shown, taps, emitted>>

\* Fault: the previous timer is armed again, also when there is none.
FaultRearm(p) ==
  /\ phase[p] = "sending"
  /\ p \in shown
  /\ phase' = Registered(p)
  /\ pending' = [pending EXCEPT ![ReqOf[p]] = p]
  /\ armed' = armed \union {p, pending[ReqOf[p]]}
  /\ UNCHANGED <<accessVars, peer, shown, taps, emitted>>

\* The send has returned: forget the prompt that had this id, arm the
\* timer and register the new one.
SendOk(p) ==
  /\ phase[p] = "sending"
  /\ p \in shown
  /\ phase' = Registered(p)
  /\ pending' = [pending EXCEPT ![ReqOf[p]] = p]
  /\ armed' = (armed \ {pending[ReqOf[p]]}) \union {p}
  /\ UNCHANGED <<accessVars, peer, shown, taps, emitted>>

-----------------------------------------------------------------------------
(***************************************************************************)
(* tryResolveVerdict, behind the gate                                      *)
(***************************************************************************)

\* A person taps a button of a keyboard shown to them.  A client may also
\* offer the button in a group; a tap from there is marked.
Tap(p, b, group) ==
  LET t == [req |-> ReqOf[p], behavior |-> b, from |-> peer[p], group |-> group] IN
  /\ p \in shown
  /\ Cardinality(taps) < MaxTaps
  /\ taps' = taps \union {t}
  /\ UNCHANGED <<accessVars, phase, peer, shown, pending, armed, emitted>>

Received(t) == t \in taps /\ taps' = taps \ {t}

\* Fault: the verdict is looked at before the gate.
FaultNoGate(t) == TRUE

\* AccessGate.check of a message from a person's DM.
GateAllows(t) == ~disabled /\ t.from \in chats

\* Fault: forget cancels the timer and leaves the entry in the map.
FaultForgetTimerOnly(r, end) ==
  /\ armed' = armed \ {pending[r]}
  /\ UNCHANGED <<phase, pending>>

\* forget(id): out of the map, timer cancelled.
Forget(r, end) ==
  /\ phase' = [phase EXCEPT ![pending[r]] = end]
  /\ pending' = [pending EXCEPT ![r] = NoPrompt]
  /\ armed' = armed \ {pending[r]}

\* emitVerdict.  A notification that fails is logged and not repeated, so
\* what is recorded is the attempt.
Emit(r, b) == emitted' = [emitted EXCEPT ![r] = Append(@, b)]

\* Nothing comes of the tap: the gate drops it (or, to an unpaired DM,
\* replies), it comes from a group, or no prompt with its id is pending.
IgnoreTap(t) ==
  /\ Received(t)
  /\ t.group \/ ~GateAllows(t) \/ pending[t.req] = NoPrompt
  /\ UNCHANGED <<accessVars, phase, peer, shown, pending, armed, emitted>>

Matches(t) ==
  /\ ~t.group
  /\ GateAllows(t)
  /\ pending[t.req] # NoPrompt

\* Fault: the prompt is looked up but not removed.
FaultNoForget(t) ==
  /\ Received(t)
  /\ Matches(t)
  /\ t.from = peer[pending[t.req]]
  /\ Emit(t.req, t.behavior)
  /\ UNCHANGED <<accessVars, phase, peer, shown, pending, armed>>

\* The tap of the person the pending prompt was sent to decides.
AnswerTap(t) ==
  /\ Received(t)
  /\ Matches(t)
  /\ t.from = peer[pending[t.req]]
  /\ Forget(t.req, "answered")
  /\ Emit(t.req, t.behavior)
  /\ UNCHANGED <<accessVars, peer, shown>>

\* Another person's tap: the prompt has already been forgotten when the
\* sender is compared.
ForeignTap(t) ==
  /\ Received(t)
  /\ Matches(t)
  /\ t.from # peer[pending[t.req]]
  /\ Forget(t.req, "dropped")
  /\ UNCHANGED <<accessVars, peer, shown, emitted>>

(***************************************************************************)
(* expire: the timer of p fires.  It denies whatever prompt the id has in  *)
(* the map, and returns if there is none.                                  *)
(***************************************************************************)
Expire(p) ==
  LET r == ReqOf[p] IN
  /\ p \in armed
  /\ IF pending[r] = NoPrompt
     THEN /\ armed' = armed \ {p}
          /\ UNCHANGED <<phase, pending, emitted>>
     ELSE /\ phase' = [phase EXCEPT ![pending[r]] = "expired"]
          /\ pending' = [pending EXCEPT ![r] = NoPrompt]
          /\ armed' = armed \ {p, pending[r]}
          /\ Emit(r, "deny")
  /\ UNCHANGED <<accessVars, peer, shown, taps>>

-----------------------------------------------------------------------------
(***************************************************************************)
(* The environment                                                         *)
(***************************************************************************)

\* Pairing, removal of a chat and the kill switch, as AccessStore serves them.
AccessChanges ==
  /\ \/ /\ \E c \in DMs : chats' \in {chats \union {c}, chats \ {c}}
        /\ UNCHANGED disabled
     \/ /\ disabled' = ~disabled
        /\ UNCHANGED chats
  /\ UNCHANGED <<phase, peer, shown, pending, armed, taps, emitted>>

\* The process ends and with it the session that asked.  The keyboards
\* stay in the DMs.
Restart ==
  /\ phase' = [p \in Prompts |-> IF phase[p] \in Open THEN "abandoned" ELSE phase[p]]
  /\ pending' = [r \in Requests |-> NoPrompt]
  /\ armed' = {}
  /\ UNCHANGED <<accessVars, peer, shown, taps, emitted>>

Next ==
  \/ \E p \in Prompts :
       HandleRequest(p) \/ Deliver(p) \/ SendFailed(p) \/ SendOk(p) \/ Expire(p)
  \/ \E p \in Prompts, b \in Behaviours, group \in BOOLEAN : Tap(p, b, group)
  \/ \E t \in Taps : IgnoreTap(t) \/ AnswerTap(t) \/ ForeignTap(t)
  \/ AccessChanges
  \/ Restart

Spec == Init /\ [][Next]_vars

(***************************************************************************)
(* Fairness: a send returns (VkClient gives up after its retries), and an  *)
(* armed timer fires.  Nothing obliges a person to tap.                    *)
(***************************************************************************)
Fairness ==
  \A p \in Prompts : WF_vars(SendOk(p) \/ SendFailed(p)) /\ WF_vars(Expire(p))

FairSpec == Spec /\ Fairness

-----------------------------------------------------------------------------
(***************************************************************************)
(* The types of the variables.                                             *)
(***************************************************************************)
TypeOK ==
  /\ chats \subseteq DMs
  /\ disabled \in BOOLEAN
  /\ phase \in [Prompts -> Phases]
  /\ peer \in [Prompts -> DMs \union {NoPeer}]
  /\ shown \subseteq Prompts
  /\ pending \in [Requests -> Prompts \union {NoPrompt}]
  /\ armed \subseteq Prompts
  /\ taps \subseteq Taps
  /\ emitted \in [Requests -> Seq(Behaviours)]

(***************************************************************************)
(* The timers that run are those of the prompts in the map (forget and     *)
(* handleRequest): no prompt is denied by the timer of an earlier prompt   *)
(* with its id, and none waits without a timer.                            *)
(***************************************************************************)
TimersMatchPending == armed = {pending[r] : r \in Requests} \ {NoPrompt}

(***************************************************************************)
(* The session gets at most one verdict per prompt it sent, however the    *)
(* taps of an impatient user, a late tap and the timer race                *)
(* (tryResolveVerdict and expire both go through forget).                  *)
(***************************************************************************)
Asked(r) == {p \in Prompts : ReqOf[p] = r /\ phase[p] # "idle"}
OneVerdict == \A r \in Requests : Len(emitted[r]) <= Cardinality(Asked(r))

(***************************************************************************)
(* A tool call is allowed only in the step that handles an Allow tapped in *)
(* a DM by the person the pending prompt was sent to, while that DM is on  *)
(* the allowlist and the kill switch is off.                               *)
(***************************************************************************)
Allowed(r) == emitted'[r] # emitted[r] /\ emitted'[r][Len(emitted'[r])] = "allow"

AllowIsAuthorised ==
  [][\A r \in Requests : Allowed(r) =>
       /\ pending[r] # NoPrompt
       /\ peer[pending[r]] \in chats
       /\ ~disabled
       /\ \E t \in taps \ taps' :
            /\ t.req = r
            /\ t.behavior = "allow"
            /\ t.from = peer[pending[r]]
            /\ ~t.group]_vars

(***************************************************************************)
(* Every prompt comes to an end although nobody answers (expire: "a lapsed *)
(* request can't leave the session waiting").  One that is dropped by a    *)
(* stranger's tap (ForeignTap) ends too, without a verdict.                *)
(***************************************************************************)
PromptsEnd == \A p \in Prompts : phase[p] = "sending" ~> phase[p] \in Ended
==============================================================================
