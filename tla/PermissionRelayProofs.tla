------------------------ MODULE PermissionRelayProofs ------------------------
(***************************************************************************)
(* The safety properties of PermissionRelay, for every number of requests, *)
(* prompts, re-issues, people and taps under way.                          *)
(***************************************************************************)
EXTENDS PermissionRelay, FiniteSetTheorems, SequenceTheorems, TLAPS

(***************************************************************************)
(* The map holds, under an id, a pending prompt of that id.                *)
(***************************************************************************)
PendingOK ==
  \A r \in Requests : pending[r] # NoPrompt =>
    ReqOf[pending[r]] = r /\ phase[pending[r]] = "pending"

(***************************************************************************)
(* Who is asked, or can see a keyboard, is a person.                       *)
(***************************************************************************)
PeerOK == \A p \in Prompts : phase[p] = "sending" \/ p \in shown => peer[p] \in DMs

(***************************************************************************)
(* Each verdict ends a prompt of its own.                                  *)
(***************************************************************************)
Decided(r) == {p \in Prompts : ReqOf[p] = r /\ phase[p] \in {"answered", "expired"}}
DecidedOK == \A r \in Requests : Len(emitted[r]) = Cardinality(Decided(r))

(***************************************************************************)
(* The inductive invariant.  The timers match the map only because the map *)
(* never holds a prompt under another's id, so that forgetting one id      *)
(* leaves the timers of the others alone.                                  *)
(***************************************************************************)
IInv == TypeOK /\ TimersMatchPending /\ PendingOK /\ PeerOK /\ DecidedOK

LEMMA InitInvariant == Init => IInv
<1> SUFFICES ASSUME Init PROVE IInv
  OBVIOUS
<1>1. TypeOK
  <2>1. emitted \in [Requests -> Seq(Behaviours)]
    BY DEF Init
  <2>2. phase \in [Prompts -> Phases]
    BY DEF Init, Phases
  <2> QED
    BY <2>1, <2>2 DEF Init, TypeOK
<1>2. TimersMatchPending
  BY DEF Init, TimersMatchPending
<1>3. PendingOK /\ PeerOK
  BY DEF Init, PendingOK, PeerOK
<1>4. DecidedOK
  <2> SUFFICES ASSUME NEW r \in Requests
               PROVE  Len(emitted[r]) = Cardinality(Decided(r))
    BY DEF DecidedOK
  <2>1. Decided(r) = {}
    BY DEF Decided, Init
  <2>2. emitted[r] = <<>>
    BY DEF Init
  <2> QED
    BY <2>1, <2>2, FS_EmptySet
<1> QED
  BY <1>1, <1>2, <1>3, <1>4 DEF IInv

(***************************************************************************)
(* A step that ends no prompt with a verdict and emits none keeps          *)
(* DecidedOK.                                                              *)
(***************************************************************************)
LEMMA NothingDecided ==
  ASSUME DecidedOK, UNCHANGED emitted,
         \A p \in Prompts :
           (phase'[p] \in {"answered", "expired"}) = (phase[p] \in {"answered", "expired"})
  PROVE  DecidedOK'
<1>1. \A r \in Requests : Decided(r)' = Decided(r)
  BY DEF Decided
<1> QED
  BY <1>1 DEF DecidedOK

(***************************************************************************)
(* A step that ends the pending prompt of r with a verdict and emits one   *)
(* for r keeps DecidedOK.                                                  *)
(***************************************************************************)
LEMMA OneDecided ==
  ASSUME IInv,
         NEW r \in Requests, pending[r] # NoPrompt,
         NEW b \in Behaviours, Emit(r, b),
         NEW end \in {"answered", "expired"},
         phase' = [phase EXCEPT ![pending[r]] = end]
  PROVE  DecidedOK'
<1> DEFINE p == pending[r]
<1>1. p \in Prompts /\ ReqOf[p] = r /\ phase[p] = "pending"
  BY DEF IInv, PendingOK, TypeOK
<1>2. phase \in [Prompts -> Phases] /\ emitted \in [Requests -> Seq(Behaviours)]
  BY DEF IInv, TypeOK
<1>3. Decided(r)' = Decided(r) \union {p} /\ p \notin Decided(r)
  BY <1>1, <1>2 DEF Decided
<1>4. IsFiniteSet(Decided(r))
  BY RelayAssumption, FS_Subset DEF Decided
<1>5. Cardinality(Decided(r)') = Cardinality(Decided(r)) + 1
  BY <1>3, <1>4, FS_AddElement
<1>6. Len(emitted'[r]) = Len(emitted[r]) + 1
  BY <1>2, AppendProperties DEF Emit
<1>7. ASSUME NEW q \in Requests, q # r
      PROVE  Decided(q)' = Decided(q) /\ emitted'[q] = emitted[q]
  BY <1>1, <1>2, <1>7 DEF Decided, Emit
<1> QED
  BY <1>5, <1>6, <1>7 DEF DecidedOK, IInv

(***************************************************************************)
(* Forgetting the prompt of an id keeps the timers and the map in step.    *)
(***************************************************************************)
LEMMA ForgetKeepsTimers ==
  ASSUME IInv,
         NEW r \in Requests, pending[r] # NoPrompt,
         NEW end \in Ended, Forget(r, end)
  PROVE  TimersMatchPending' /\ PendingOK'
<1>1. /\ phase \in [Prompts -> Phases]
      /\ pending \in [Requests -> Prompts \union {NoPrompt}]
      /\ armed = {pending[q] : q \in Requests} \ {NoPrompt}
      /\ PendingOK
  BY DEF IInv, TypeOK, TimersMatchPending
<1>2. \A q \in Requests : pending'[q] = IF q = r THEN NoPrompt ELSE pending[q]
  BY <1>1 DEF Forget
<1>3. \A q \in Requests : q # r /\ pending[q] # NoPrompt => pending[q] # pending[r]
  BY <1>1 DEF PendingOK
<1>4. TimersMatchPending'
  BY <1>1, <1>2, <1>3 DEF Forget, TimersMatchPending
<1>5. PendingOK'
  BY <1>1, <1>2, <1>3 DEF Forget, PendingOK
<1> QED
  BY <1>4, <1>5

LEMMA ForgetTypes ==
  ASSUME IInv,
         NEW r \in Requests, pending[r] # NoPrompt,
         NEW end \in Ended, Forget(r, end)
  PROVE  /\ phase' \in [Prompts -> Phases]
         /\ pending' \in [Requests -> Prompts \union {NoPrompt}]
         /\ armed' \subseteq Prompts
BY DEF IInv, TypeOK, Forget, Phases

(***************************************************************************)
(* A timer that runs is that of the prompt in the map, so expire forgets   *)
(* it like tryResolveVerdict does.                                         *)
(***************************************************************************)
LEMMA ExpireForgets ==
  ASSUME IInv, NEW p \in Prompts, Expire(p)
  PROVE  /\ pending[ReqOf[p]] = p
         /\ Forget(ReqOf[p], "expired")
         /\ Emit(ReqOf[p], "deny")
<1>1. PICK r \in Requests : pending[r] = p
  BY DEF Expire, IInv, TimersMatchPending
<1>2. r = ReqOf[p] /\ p # NoPrompt
  BY <1>1, RelayAssumption DEF IInv, PendingOK
<1> QED
  BY <1>1, <1>2 DEF Expire, Forget

LEMMA NextInvariant == IInv /\ [Next]_vars => IInv'
<1> SUFFICES ASSUME IInv, [Next]_vars PROVE IInv'
  OBVIOUS
<1> USE RelayAssumption
<1>0. TypeOK /\ TimersMatchPending /\ PendingOK /\ PeerOK /\ DecidedOK
  BY DEF IInv
<1>1. ASSUME NEW p \in Prompts, HandleRequest(p) PROVE IInv'
  <2>1. TypeOK'
    <3>1. /\ phase' \in [Prompts -> Phases]
          /\ peer' \in [Prompts -> DMs \union {NoPeer}]
      <4>1. CASE chats = {}
        BY <1>0, <1>1, <4>1 DEF HandleRequest, TypeOK, Phases, Ended
      <4>2. ASSUME NEW c \in chats,
                   peer' = [peer EXCEPT ![p] = c],
                   phase' = [phase EXCEPT ![p] = "sending"]
            PROVE  <3>1!:
        BY <1>0, <4>2 DEF TypeOK, Phases, Open
      <4> QED
        BY <1>1, <4>1, <4>2 DEF HandleRequest
    <3> QED
      BY <1>0, <1>1, <3>1 DEF HandleRequest, TypeOK, accessVars
  <2>2. TimersMatchPending' /\ PendingOK'
    BY <1>0, <1>1 DEF HandleRequest, TimersMatchPending, PendingOK, TypeOK
  <2>3. PeerOK'
    BY <1>0, <1>1 DEF HandleRequest, FirstDm, PeerOK, TypeOK
  <2>4. DecidedOK'
    BY <1>0, <1>1, NothingDecided DEF HandleRequest, TypeOK
  <2> QED
    BY <2>1, <2>2, <2>3, <2>4 DEF IInv
<1>2. ASSUME NEW p \in Prompts, Deliver(p) PROVE IInv'
  <2>1. TypeOK'
    BY <1>0, <1>2 DEF Deliver, TypeOK, accessVars
  <2>2. TimersMatchPending' /\ PendingOK' /\ PeerOK'
    BY <1>0, <1>2 DEF Deliver, TimersMatchPending, PendingOK, PeerOK
  <2>3. DecidedOK'
    BY <1>0, <1>2, NothingDecided DEF Deliver
  <2> QED
    BY <2>1, <2>2, <2>3 DEF IInv
<1>3. ASSUME NEW p \in Prompts, SendFailed(p) PROVE IInv'
  <2>1. TypeOK'
    BY <1>0, <1>3 DEF SendFailed, TypeOK, Phases, Ended, accessVars
  <2>2. TimersMatchPending' /\ PendingOK' /\ PeerOK'
    BY <1>0, <1>3 DEF SendFailed, TimersMatchPending, PendingOK, PeerOK, TypeOK
  <2>3. DecidedOK'
    BY <1>0, <1>3, NothingDecided DEF SendFailed, TypeOK
  <2> QED
    BY <2>1, <2>2, <2>3 DEF IInv
<1>4. ASSUME NEW p \in Prompts, SendOk(p) PROVE IInv'
  <2>1. /\ phase' = Registered(p)
        /\ pending' = [pending EXCEPT ![ReqOf[p]] = p]
        /\ armed' = (armed \ {pending[ReqOf[p]]}) \union {p}
        /\ phase[p] = "sending" /\ p \in shown
        /\ UNCHANGED <<chats, disabled, peer, shown, taps, emitted>>
    BY <1>4 DEF SendOk, accessVars
  <2>2. TypeOK'
    BY <1>0, <2>1 DEF TypeOK, Registered, Phases, Open, Ended
  <2>3. \A r \in Requests : pending[r] # p
    BY <1>0, <2>1 DEF PendingOK
  <2>4. \A r \in Requests : r # ReqOf[p] /\ pending[r] # NoPrompt =>
          pending[r] # pending[ReqOf[p]]
    BY <1>0 DEF PendingOK, TypeOK
  <2>5. \A r \in Requests : pending'[r] = IF r = ReqOf[p] THEN p ELSE pending[r]
    BY <1>0, <2>1 DEF TypeOK
  <2>6. TimersMatchPending'
    BY <1>0, <2>1, <2>3, <2>4, <2>5 DEF TimersMatchPending, TypeOK
  <2>7. PendingOK'
    BY <1>0, <2>1, <2>3, <2>4, <2>5 DEF PendingOK, Registered, TypeOK
  <2>8. PeerOK'
    BY <1>0, <2>1 DEF PeerOK, Registered
  <2>9. \A q \in Prompts :
          (phase'[q] \in {"answered", "expired"}) = (phase[q] \in {"answered", "expired"})
    <3>1. ReqOf[p] \in Requests
      OBVIOUS
    <3>2. pending[ReqOf[p]] # NoPrompt => phase[pending[ReqOf[p]]] = "pending"
      BY <1>0, <3>1 DEF PendingOK
    <3> QED
      BY <2>1, <3>2 DEF Registered
  <2>10. DecidedOK'
    BY <1>0, <2>1, <2>9, NothingDecided
  <2> QED
    BY <2>2, <2>6, <2>7, <2>8, <2>10 DEF IInv
<1>5. ASSUME NEW p \in Prompts, Expire(p) PROVE IInv'
  <2>1. /\ pending[ReqOf[p]] = p /\ ReqOf[p] \in Requests /\ p # NoPrompt
        /\ Forget(ReqOf[p], "expired") /\ Emit(ReqOf[p], "deny")
    BY <1>5, ExpireForgets
  <2>2. UNCHANGED <<chats, disabled, peer, shown, taps>>
    BY <1>5 DEF Expire, accessVars
  <2>3. TypeOK'
    BY <1>0, <2>1, <2>2, ForgetTypes, AppendProperties DEF TypeOK, Emit, Behaviours, Ended
  <2>4. TimersMatchPending' /\ PendingOK'
    BY <2>1, ForgetKeepsTimers DEF Ended
  <2>5. PeerOK'
    BY <1>0, <2>1, <2>2 DEF PeerOK, Forget, TypeOK
  <2>6. DecidedOK'
    BY <2>1, OneDecided DEF Forget, Behaviours
  <2> QED
    BY <2>3, <2>4, <2>5, <2>6 DEF IInv
<1>6. ASSUME NEW p \in Prompts, NEW b \in Behaviours, NEW group \in BOOLEAN, Tap(p, b, group)
      PROVE  IInv'
  <2>1. TypeOK'
    BY <1>0, <1>6 DEF Tap, TypeOK, Taps, PeerOK, accessVars
  <2>2. TimersMatchPending' /\ PendingOK' /\ PeerOK'
    BY <1>0, <1>6 DEF Tap, TimersMatchPending, PendingOK, PeerOK
  <2>3. DecidedOK'
    BY <1>0, <1>6, NothingDecided DEF Tap
  <2> QED
    BY <2>1, <2>2, <2>3 DEF IInv
<1>7. ASSUME NEW t \in Taps, IgnoreTap(t) PROVE IInv'
  <2>1. TypeOK'
    BY <1>0, <1>7 DEF IgnoreTap, Received, TypeOK, accessVars
  <2>2. TimersMatchPending' /\ PendingOK' /\ PeerOK'
    BY <1>0, <1>7 DEF IgnoreTap, TimersMatchPending, PendingOK, PeerOK
  <2>3. DecidedOK'
    BY <1>0, <1>7, NothingDecided DEF IgnoreTap
  <2> QED
    BY <2>1, <2>2, <2>3 DEF IInv
<1>8. ASSUME NEW t \in Taps, AnswerTap(t) PROVE IInv'
  <2>1. /\ t.req \in Requests /\ t.behavior \in Behaviours
        /\ pending[t.req] # NoPrompt
        /\ Forget(t.req, "answered") /\ Emit(t.req, t.behavior)
    BY <1>8 DEF AnswerTap, Matches, Taps
  <2>2. UNCHANGED <<chats, disabled, peer, shown>> /\ taps' \subseteq taps
    BY <1>8 DEF AnswerTap, Received, accessVars
  <2>3. TypeOK'
    BY <1>0, <2>1, <2>2, ForgetTypes, AppendProperties DEF TypeOK, Emit, Ended
  <2>4. TimersMatchPending' /\ PendingOK'
    BY <2>1, ForgetKeepsTimers DEF Ended
  <2>5. PeerOK'
    BY <1>0, <2>1, <2>2 DEF PeerOK, Forget, TypeOK
  <2>6. DecidedOK'
    BY <2>1, OneDecided DEF Forget
  <2> QED
    BY <2>3, <2>4, <2>5, <2>6 DEF IInv
<1>9. ASSUME NEW t \in Taps, ForeignTap(t) PROVE IInv'
  <2>1. /\ t.req \in Requests
        /\ pending[t.req] # NoPrompt
        /\ Forget(t.req, "dropped")
    BY <1>9 DEF ForeignTap, Matches, Taps
  <2>2. UNCHANGED <<chats, disabled, peer, shown, emitted>> /\ taps' \subseteq taps
    BY <1>9 DEF ForeignTap, Received, accessVars
  <2>3. TypeOK'
    BY <1>0, <2>1, <2>2, ForgetTypes DEF TypeOK, Ended
  <2>4. TimersMatchPending' /\ PendingOK'
    BY <2>1, ForgetKeepsTimers DEF Ended
  <2>5. PeerOK'
    BY <1>0, <2>1, <2>2 DEF PeerOK, Forget, TypeOK
  <2>6. phase[pending[t.req]] = "pending"
    BY <1>0, <2>1 DEF PendingOK
  <2>7. DecidedOK'
    BY <1>0, <2>1, <2>2, <2>6, NothingDecided DEF Forget, TypeOK
  <2> QED
    BY <2>3, <2>4, <2>5, <2>7 DEF IInv
<1>10. CASE AccessChanges
  <2>1. TypeOK'
    BY <1>0, <1>10 DEF AccessChanges, TypeOK
  <2>2. TimersMatchPending' /\ PendingOK' /\ PeerOK'
    BY <1>0, <1>10 DEF AccessChanges, TimersMatchPending, PendingOK, PeerOK
  <2>3. DecidedOK'
    BY <1>0, <1>10, NothingDecided DEF AccessChanges
  <2> QED
    BY <2>1, <2>2, <2>3 DEF IInv
<1>11. CASE Restart
  <2>1. TypeOK'
    BY <1>0, <1>11 DEF Restart, TypeOK, Phases, Ended, accessVars
  <2>2. TimersMatchPending' /\ PendingOK'
    BY <1>11 DEF Restart, TimersMatchPending, PendingOK
  <2>3. PeerOK'
    BY <1>0, <1>11 DEF Restart, PeerOK
  <2>4. DecidedOK'
    BY <1>0, <1>11, NothingDecided DEF Restart, Open
  <2> QED
    BY <2>1, <2>2, <2>3, <2>4 DEF IInv
<1>12. CASE UNCHANGED vars
  <2>1. TypeOK'
    BY <1>0, <1>12 DEF vars, TypeOK
  <2>2. TimersMatchPending' /\ PendingOK' /\ PeerOK'
    BY <1>0, <1>12 DEF vars, TimersMatchPending, PendingOK, PeerOK
  <2>3. DecidedOK'
    BY <1>0, <1>12, NothingDecided DEF vars
  <2> QED
    BY <2>1, <2>2, <2>3 DEF IInv
<1> QED
  BY <1>1, <1>2, <1>3, <1>4, <1>5, <1>6, <1>7, <1>8, <1>9, <1>10, <1>11, <1>12 DEF Next

-----------------------------------------------------------------------------
(***************************************************************************)
(* The variables keep their types.                                         *)
(***************************************************************************)
THEOREM TypeCorrect == Spec => []TypeOK
<1>1. IInv => TypeOK
  BY DEF IInv
<1> QED
  BY <1>1, InitInvariant, NextInvariant, PTL DEF Spec

(***************************************************************************)
(* The timers that run are those of the prompts in the map.                *)
(***************************************************************************)
THEOREM Timers == Spec => []TimersMatchPending
<1>1. IInv => TimersMatchPending
  BY DEF IInv
<1> QED
  BY <1>1, InitInvariant, NextInvariant, PTL DEF Spec

(***************************************************************************)
(* The session gets at most one verdict per prompt.                        *)
(***************************************************************************)
THEOREM AtMostOneVerdict == Spec => []OneVerdict
<1>1. IInv => OneVerdict
  <2> SUFFICES ASSUME IInv, NEW r \in Requests
               PROVE  Len(emitted[r]) <= Cardinality(Asked(r))
    BY DEF OneVerdict
  <2>1. IsFiniteSet(Asked(r)) /\ Decided(r) \subseteq Asked(r)
    BY RelayAssumption, FS_Subset DEF Asked, Decided
  <2>2. Cardinality(Decided(r)) <= Cardinality(Asked(r))
    BY <2>1, FS_Subset
  <2> QED
    BY <2>2 DEF IInv, DecidedOK
<1> QED
  BY <1>1, InitInvariant, NextInvariant, PTL DEF Spec

(***************************************************************************)
(* A verdict "allow" comes from the person who was asked, while paired and *)
(* while the kill switch is off.                                           *)
(***************************************************************************)
THEOREM Authorised == Spec => AllowIsAuthorised
<1> DEFINE Authentic ==
      \A r \in Requests : Allowed(r) =>
        /\ pending[r] # NoPrompt
        /\ peer[pending[r]] \in chats
        /\ ~disabled
        /\ \E t \in taps \ taps' :
             /\ t.req = r
             /\ t.behavior = "allow"
             /\ t.from = peer[pending[r]]
             /\ ~t.group
<1>1. IInv /\ [Next]_vars => [Authentic]_vars
  <2> SUFFICES ASSUME IInv, Next, NEW r \in Requests, Allowed(r)
               PROVE  /\ pending[r] # NoPrompt
                      /\ peer[pending[r]] \in chats
                      /\ ~disabled
                      /\ \E t \in taps \ taps' :
                           /\ t.req = r
                           /\ t.behavior = "allow"
                           /\ t.from = peer[pending[r]]
                           /\ ~t.group
    OBVIOUS
  <2>1. emitted'[r] # emitted[r] /\ emitted \in [Requests -> Seq(Behaviours)]
    BY DEF Allowed, IInv, TypeOK
  <2>2. ASSUME NEW q \in Requests, NEW b \in Behaviours, Emit(q, b)
        PROVE  r = q /\ b = "allow"
    <3>1. r = q
      BY <2>1, <2>2 DEF Emit
    <3>2. emitted'[r] = Append(emitted[r], b)
      BY <2>1, <2>2, <3>1 DEF Emit
    <3>3. emitted'[r][Len(emitted'[r])] = b
      BY <2>1, <3>2, AppendProperties
    <3> QED
      BY <3>1, <3>3 DEF Allowed
  <2>3. PICK t \in Taps : AnswerTap(t)
    <3>1. ASSUME NEW p \in Prompts, Expire(p) PROVE FALSE
      BY <2>2, <3>1, ExpireForgets, RelayAssumption DEF Behaviours
    <3> QED
      BY <2>1, <3>1 DEF Next, HandleRequest, Deliver, SendFailed, SendOk, Tap, IgnoreTap,
                        ForeignTap, AccessChanges, Restart
  <2>4. t.req = r /\ t.behavior = "allow"
    BY <2>2, <2>3 DEF AnswerTap, Taps
  <2>5. t \in taps \ taps'
    BY <2>3 DEF AnswerTap, Received
  <2> QED
    BY <2>3, <2>4, <2>5 DEF AnswerTap, Matches, GateAllows
<1> QED
  BY <1>1, InitInvariant, NextInvariant, PTL DEF Spec, AllowIsAuthorised
==============================================================================
