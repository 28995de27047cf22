---------------------------- MODULE AccessControl ----------------------------
(***************************************************************************)
(* Who may talk to the session: AccessService, PairingService, AccessGate  *)
(* and PendingGroupsRegistry (server/src/modules/access) and the part of   *)
(* InboundService (server/src/modules/inbound/inbound.service.ts) that     *)
(* acts on the gate's result.                                              *)
(*                                                                         *)
(* Admin calls and inbound messages interleave at every await.  Each       *)
(* update() of access.json is a job of the store's promise chain and takes *)
(* effect in two steps: when its turn comes it edits a copy of what is     *)
(* served and puts that into the file, and later it serves the copy.  The  *)
(* writing in between (see JsonStore) is left out: nobody sees the copy,   *)
(* and whoever reads the file before the rename might have read it before  *)
(* the copy was made.  The file is watched: a reload may read it at any    *)
(* time and serve what it has read at any later time, outside the chain.   *)
(* Nobody edits the file by hand.                                          *)
(*                                                                         *)
(* A code's random letters are abstracted to a value that is not in use.   *)
(***************************************************************************)
EXTENDS Naturals, Sequences, FiniteSets

CONSTANTS
  Dms,         \* the peer ids of people; a DM's peer id is its user's id
  Groups,      \* the peer ids of group chats
  Users,       \* the people who write in group chats
  Codes,       \* pairing codes
  Entries,     \* the group entries that may be registered
  Found,       \* the contents of access.json that the process may start from
  Requests,    \* admin calls
  Messages,    \* inbound messages
  Reloads,     \* reloads of access.json that may be under way at once
  None,        \* no entry, no peer, no operation, no content
  MaxEntries   \* MAX_ENTRIES of the registry of pending groups

Mentions == {"mention_only", "all", "reply_only"}
GroupEntry == [senders : SUBSET Users, mention : Mentions]
DmPolicies == {"pairing", "allowlist", "disabled"}

\* AccessFile: the DM and the group entries of chats, and pendingPairs, the
\* DM of each code.
File ==
  [dmPolicy : DmPolicies,
   paired : SUBSET Dms,
   groups : [Groups -> GroupEntry \union {None}],
   pairs : [Codes -> Dms \union {None}]]

ASSUME AccessAssumption ==
  /\ Entries \subseteq GroupEntry
  /\ Found \subseteq File
  /\ \A f \in Found, c \in Codes : f.pairs[c] = None
  /\ None \notin GroupEntry \union Dms \union File
  /\ Dms \intersect Groups = {}
  /\ Requests \intersect Messages = {}
  /\ MaxEntries \in Nat \ {0}

VARIABLES
  served,    \* the content of access.json that get() returns
  stored,    \* the content of access.json in the file
  snapshot,  \* what each reload under way has read
  emitted,   \* the DM each code was emitted for, until its ten minutes are over
  queue,     \* the store's writeChain: the update() calls, oldest first
  op,        \* what each admin call asks for
  stage,     \* how far each admin call and each message has got
  from,      \* the DM each message that is being answered came from
  code,      \* the code emitted for a message
  dropped,   \* PendingGroupsRegistry.entries, by lastSeen, oldest first
  denied,    \* InboundService.denyReplies: who had the reply in the last 24 h
  told,      \* the DM that was sent a code that is still good (history)
  replies,   \* the deny replies sent to a DM in these 24 h, since the start (history)
  admitted,  \* the chats that the operator has ever let in (history)
  reverted   \* a reload has put back what an update had replaced (history)

fileVars == <<served, stored, snapshot>>
history == <<told, replies, admitted, reverted>>
vars == <<fileVars, emitted, queue, op, stage, from, code, dropped, denied, history>>

Jobs == Requests \union Messages

Ops ==
  [name : {"removeDm"}, peer : Dms]
  \union [name : {"removeGroup"}, peer : Groups]
  \union [name : {"addSender"}, peer : Groups, user : Users, lookup : BOOLEAN]
  \union [name : {"removeSender"}, peer : Groups, user : Users]
  \union [name : {"addGroup"}, peer : Groups, entry : Entries]
  \union [name : {"setDmPolicy"}, policy : DmPolicies]
  \union [name : {"setMentionPolicy"}, peer : Groups, mention : Mentions]
  \union [name : {"consume"}, code : Codes]

\* A job whose update is in the file and not served yet is "written", and
\* once it is served "stored".  Whether a call ends well or is refused, fails
\* or is lost in a restart is not told apart.
RequestStages == {"idle", "resolving", "queued", "written", "stored", "ended"}
MessageStages == {"idle", "queued", "written", "stored", "denying", "ended"}

\* The chats that a content allows.
Chats(f) == f.paired \union {g \in Groups : f.groups[g] # None}

Init ==
  /\ served \in Found
  /\ stored = served
  /\ snapshot = [r \in Reloads |-> None]
  /\ emitted = [c \in Codes |-> None]
  /\ queue = <<>>
  /\ op = [q \in Requests |-> None]
  /\ stage = [j \in Jobs |-> "idle"]
  /\ from = [m \in Messages |-> None]
  /\ code = [m \in Messages |-> None]
  /\ dropped = <<>>
  /\ denied = {}
  /\ told = [c \in Codes |-> None]
  /\ replies = [d \in Dms |-> 0]
  /\ admitted = Chats(served)
  /\ reverted = FALSE

-----------------------------------------------------------------------------
(***************************************************************************)
(* Jobs of the promise chain                                               *)
(***************************************************************************)
Enqueue(j) ==
  /\ queue' = Append(queue, j)
  /\ stage' = [stage EXCEPT ![j] = "queued"]

\* The job's turn: every earlier job has settled.
Turn(j) ==
  /\ queue # <<>>
  /\ Head(queue) = j
  /\ stage[j] = "queued"

\* The job's callback has edited a copy of what is served, and the copy has
\* been renamed into place.
Store(j, f) ==
  /\ stored' = f
  /\ stage' = [stage EXCEPT ![j] = "written"]
  /\ UNCHANGED <<served, snapshot>>

\* The job leaves the chain, and its copy is served.  It is what the file
\* holds: no other job has had its turn since.
Serve(j) ==
  /\ stage[j] = "written"
  /\ served' = stored
  /\ queue' = Tail(queue)
  /\ UNCHANGED <<stored, snapshot>>

\* The admin call is over.
Answer(q) ==
  /\ stage' = [stage EXCEPT ![q] = "ended"]
  /\ op' = [op EXCEPT ![q] = None]

\* sweepExpired: without the codes in gone.
Swept(f, gone) == [f EXCEPT !.pairs = [c \in Codes |-> IF c \in gone THEN None ELSE f.pairs[c]]]

Expired(f) == {c \in Codes : f.pairs[c] # None /\ emitted[c] = None}

-----------------------------------------------------------------------------
(***************************************************************************)
(* AccessService: the checks of each call against the served state         *)
(***************************************************************************)
Known(o) ==
  \/ o.name \in {"addGroup", "setDmPolicy", "consume"}
  \/ o.name = "removeDm" /\ o.peer \in served.paired
  \/ /\ o.name \in {"removeGroup", "addSender", "removeSender", "setMentionPolicy"}
     /\ served.groups[o.peer] # None
     /\ o.name = "removeSender" => o.user \in served.groups[o.peer].senders

Call(q, o) ==
  /\ stage[q] = "idle"
  /\ \/ /\ Known(o)
        /\ op' = [op EXCEPT ![q] = o]
        /\ \/ /\ o.name = "addSender" => ~o.lookup
              /\ Enqueue(q)
           \/ /\ o.name = "addSender" /\ o.lookup
              /\ stage' = [stage EXCEPT ![q] = "resolving"]
              /\ UNCHANGED queue
     \/ /\ ~Known(o)
        /\ Answer(q)
        /\ UNCHANGED queue
  /\ UNCHANGED <<fileVars, emitted, from, code, dropped, denied, history>>

\* VK resolves the screen name, or knows no such user.
Resolve(q) ==
  /\ stage[q] = "resolving"
  /\ \/ /\ Enqueue(q)
        /\ UNCHANGED op
     \/ /\ Answer(q)
        /\ UNCHANGED queue
  /\ UNCHANGED <<fileVars, emitted, from, code, dropped, denied, history>>

(***************************************************************************)
(* AccessService: the jobs                                                 *)
(***************************************************************************)
Does(q, name) == op[q] # None /\ op[q].name = name /\ Turn(q)

RemoveChat(q) ==
  /\ \/ /\ Does(q, "removeDm")
        /\ Store(q, [served EXCEPT !.paired = @ \ {op[q].peer}])
     \/ /\ Does(q, "removeGroup")
        /\ Store(q, [served EXCEPT !.groups[op[q].peer] = None])
  /\ UNCHANGED <<emitted, queue, op, from, code, dropped, denied, history>>

\* Fault: the callback starts an entry anew when the chat has gone.
FaultEdited(g, entry) ==
  [served EXCEPT !.groups[g] =
     IF @ = None THEN [senders |-> {}, mention |-> "mention_only"] ELSE entry]

\* The callback finds the chat, or returns when it has gone meanwhile; the
\* call succeeds either way.
Edited(g, entry) ==
  IF served.groups[g] = None THEN served ELSE [served EXCEPT !.groups[g] = entry]

EditSenders(q) ==
  LET g == op[q].peer
      u == op[q].user
      entry == served.groups[g]
  IN
  /\ \/ /\ Does(q, "addSender")
        /\ Store(q, Edited(g, [entry EXCEPT !.senders = @ \union {u}]))
     \/ /\ Does(q, "removeSender")
        /\ Store(q, Edited(g, [entry EXCEPT !.senders = @ \ {u}]))
  /\ UNCHANGED <<emitted, queue, op, from, code, dropped, denied, history>>

SetMentionPolicy(q) ==
  LET g == op[q].peer IN
  /\ Does(q, "setMentionPolicy")
  /\ Store(q, Edited(g, [served.groups[g] EXCEPT !.mention = op[q].mention]))
  /\ UNCHANGED <<emitted, queue, op, from, code, dropped, denied, history>>

SetDmPolicy(q) ==
  /\ Does(q, "setDmPolicy")
  /\ Store(q, [served EXCEPT !.dmPolicy = op[q].policy])
  /\ UNCHANGED <<emitted, queue, op, from, code, dropped, denied, history>>

\* The entry replaces one that is already there.
AddGroup(q) ==
  /\ Does(q, "addGroup")
  /\ Store(q, [served EXCEPT !.groups[op[q].peer] = op[q].entry])
  /\ admitted' = admitted \union {op[q].peer}
  /\ UNCHANGED <<emitted, queue, op, from, code, dropped, denied, told, replies, reverted>>

\* The update has resolved: the call answers, and addGroup goes on.
Publish(q) ==
  /\ Serve(q)
  /\ \/ /\ op[q].name = "addGroup"
        /\ stage' = [stage EXCEPT ![q] = "stored"]
        /\ UNCHANGED op
     \/ /\ op[q].name # "addGroup"
        /\ Answer(q)
  /\ UNCHANGED <<emitted, from, code, dropped, denied, history>>

\* Fault: the group is not forgotten.
FaultNotForgotten(q) ==
  /\ stage[q] = "stored"
  /\ Answer(q)
  /\ UNCHANGED <<fileVars, emitted, queue, from, code, dropped, denied, history>>

\* The registry holds the group.
Listed(g) == \E i \in DOMAIN dropped : dropped[i] = g

\* The registry without the group, which it holds once.
Without(g) ==
  LET i == CHOOSE k \in DOMAIN dropped : dropped[k] = g IN
  IF Listed(g) THEN SubSeq(dropped, 1, i - 1) \o SubSeq(dropped, i + 1, Len(dropped))
  ELSE dropped

\* addGroup after its update: the group is no longer pending.
ForgetGroup(q) ==
  /\ stage[q] = "stored"
  /\ dropped' = Without(op[q].peer)
  /\ Answer(q)
  /\ UNCHANGED <<fileVars, emitted, queue, from, code, denied, history>>

-----------------------------------------------------------------------------
(***************************************************************************)
(* PairingService                                                          *)
(***************************************************************************)

\* Fault: an expired code is as good as another.
FaultUsableExpired(c) == served.pairs[c] # None

\* The code is in the file and is not swept first.
Usable(c) == served.pairs[c] # None /\ emitted[c] # None

Consume(q) ==
  LET c == op[q].code
      f == Swept(served, Expired(served))
  IN
  /\ Does(q, "consume")
  /\ \/ /\ Usable(c)
        /\ Store(q, [f EXCEPT !.paired = @ \union {served.pairs[c]}, !.pairs[c] = None])
        /\ told' = [told EXCEPT ![c] = None]
        /\ admitted' = admitted \union {d \in Dms : emitted[c] = d}
     \/ /\ ~Usable(c)
        /\ Store(q, f)
        /\ UNCHANGED <<told, admitted>>
  /\ UNCHANGED <<emitted, queue, op, from, code, dropped, denied, replies, reverted>>

\* emitCode's job.  Its "now" is that of the call, so codes that expired
\* while it waited may stay.
StoreCode(m) ==
  /\ Turn(m)
  /\ \E gone \in SUBSET Expired(served) :
       Store(m, [Swept(served, gone) EXCEPT !.pairs[code[m]] = from[m]])
  /\ UNCHANGED <<emitted, queue, op, from, code, dropped, denied, history>>

\* The update of emitCode has resolved.
PublishCode(m) ==
  /\ Serve(m)
  /\ stage' = [stage EXCEPT ![m] = "stored"]
  /\ UNCHANGED <<emitted, op, from, code, dropped, denied, history>>

\* Fault: emitCode does not wait for the update.
FaultTellEarly(m) == stage[m] \in {"queued", "written", "stored"}

\* The update has resolved: send the code.
Tellable(m) == stage[m] = "stored"

\* The message ends and leaves nothing behind.
End(m) ==
  /\ stage' = [stage EXCEPT ![m] = "ended"]
  /\ from' = [from EXCEPT ![m] = None]
  /\ code' = [code EXCEPT ![m] = None]

\* The DM with the code is sent, or that fails; by then the code may be used
\* or too old.
TellCode(m) ==
  /\ Tellable(m)
  /\ \/ UNCHANGED told
     \/ /\ emitted[code[m]] # None
        /\ stored.pairs[code[m]] # None
        /\ told' = [told EXCEPT ![code[m]] = from[m]]
  /\ End(m)
  /\ UNCHANGED <<fileVars, emitted, queue, op, dropped, denied, replies, admitted, reverted>>

\* Ten minutes have passed.
CodeExpires(c) ==
  /\ emitted[c] # None
  /\ emitted' = [emitted EXCEPT ![c] = None]
  /\ told' = [told EXCEPT ![c] = None]
  /\ UNCHANGED <<fileVars, queue, op, stage, from, code, dropped, denied, replies, admitted,
                 reverted>>

-----------------------------------------------------------------------------
(***************************************************************************)
(* InboundService.handle                                                   *)
(***************************************************************************)

\* What a message carries: where from, and how it addresses the bot.
Signals == {"none", "name", "reply"}
Inbound ==
  [peer : Dms, user : {None}, signal : {"none"}]
  \union [peer : Groups, user : Users, signal : Signals]

\* The group's own rules let the message through.
Admits(entry, c) ==
  /\ entry.senders = {} \/ c.user \in entry.senders
  /\ entry.mention = "mention_only" => c.signal # "none"
  /\ entry.mention = "reply_only" => c.signal = "reply"

\* AccessGate.check.
Gate(c) ==
  IF served.dmPolicy = "disabled" THEN "drop"
  ELSE IF c.peer \in Dms
  THEN IF c.peer \in served.paired THEN "allow"
       ELSE IF served.dmPolicy = "pairing" THEN "need_pair" ELSE "deny_with_reply"
  ELSE IF served.groups[c.peer] = None THEN "chat-not-allowed"
  ELSE IF Admits(served.groups[c.peer], c) THEN "allow" ELSE "drop"

\* Fault: room is made for one entry too many.
FaultRecordFull(g) ==
  IF Listed(g) THEN Append(Without(g), g)
  ELSE Append(IF Len(dropped) > MaxEntries THEN Tail(dropped) ELSE dropped, g)

\* PendingGroupsRegistry.record: the group is the latest, and the oldest
\* makes room for a new one.
Recorded(g) ==
  IF Listed(g) THEN Append(Without(g), g)
  ELSE Append(IF Len(dropped) >= MaxEntries THEN Tail(dropped) ELSE dropped, g)

Drop(m, c) ==
  /\ \/ /\ Gate(c) = "chat-not-allowed"
        /\ dropped' = Recorded(c.peer)
     \/ /\ Gate(c) = "drop"
        /\ UNCHANGED dropped
  /\ End(m)
  /\ UNCHANGED <<fileVars, emitted, queue, op, denied, history>>

\* Past the gate the message changes nothing here; see InboundPipeline.
Admit(m, c) ==
  /\ Gate(c) = "allow"
  /\ End(m)
  /\ UNCHANGED <<fileVars, emitted, queue, op, dropped, denied, history>>

\* The contents that somebody holds.
Contents == {served, stored} \union {snapshot[r] : r \in {s \in Reloads : snapshot[s] # None}}

\* generateCode, if its random letters never repeat while a code is in use.
Unused ==
  {c \in Codes : /\ emitted[c] = None
                 /\ \A m \in Messages : code[m] # c
                 /\ \A f \in Contents : f.pairs[c] = None}

\* emitCode up to its update.
NeedPair(m, c) ==
  /\ Gate(c) = "need_pair"
  /\ Enqueue(m)
  /\ \E k \in Unused :
       /\ code' = [code EXCEPT ![m] = k]
       /\ emitted' = [emitted EXCEPT ![k] = c.peer]
  /\ from' = [from EXCEPT ![m] = c.peer]
  /\ UNCHANGED <<fileVars, op, dropped, denied, history>>

\* Fault: the reply is noted once it has been sent.
FaultNoteLate(d) == denied

\* The reply is noted before it is sent.
Noted(d) == denied \union {d}

\* sendDenyReply up to its send.
Deny(m, c) ==
  /\ Gate(c) = "deny_with_reply"
  /\ \/ /\ c.peer \in denied
        /\ End(m)
        /\ UNCHANGED denied
     \/ /\ c.peer \notin denied
        /\ denied' = Noted(c.peer)
        /\ stage' = [stage EXCEPT ![m] = "denying"]
        /\ from' = [from EXCEPT ![m] = c.peer]
        /\ UNCHANGED code
  /\ UNCHANGED <<fileVars, emitted, queue, op, dropped, history>>

Handle(m) ==
  /\ stage[m] = "idle"
  /\ \E c \in Inbound : Drop(m, c) \/ Admit(m, c) \/ NeedPair(m, c) \/ Deny(m, c)

\* The reply is sent, or its send fails.
DenyReply(m) ==
  /\ stage[m] = "denying"
  /\ replies' \in {replies, [replies EXCEPT ![from[m]] = @ + 1]}
  /\ End(m)
  /\ UNCHANGED <<fileVars, emitted, queue, op, dropped, denied, told, admitted, reverted>>

\* 24 hours have passed since the reply was noted; no send takes that long.
ReplyWindowEnds(d) ==
  /\ d \in denied
  /\ \A m \in Messages : stage[m] = "denying" => from[m] # d
  /\ denied' = denied \ {d}
  /\ replies' = [replies EXCEPT ![d] = 0]
  /\ UNCHANGED <<fileVars, emitted, queue, op, stage, from, code, dropped, told, admitted,
                 reverted>>

-----------------------------------------------------------------------------
\* An update fails: the call answers an error, emitCode throws.
UpdateFails(j) ==
  /\ Turn(j)
  /\ queue' = Tail(queue)
  /\ \/ /\ j \in Requests
        /\ Answer(j)
        /\ UNCHANGED <<from, code, emitted>>
     \/ /\ j \in Messages
        /\ emitted' = [emitted EXCEPT ![code[j]] = None]
        /\ End(j)
        /\ UNCHANGED op
  /\ UNCHANGED <<fileVars, dropped, denied, history>>

(***************************************************************************)
(* The reload of a watched store (see JsonStore): it reads the file and,   *)
(* outside the chain, serves what it has read.                             *)
(***************************************************************************)
ReloadRead(r) ==
  /\ snapshot[r] = None
  /\ snapshot' = [snapshot EXCEPT ![r] = stored]
  /\ UNCHANGED <<served, stored, emitted, queue, op, stage, from, code, dropped, denied,
                 history>>

ReloadFinish(r) ==
  /\ snapshot[r] # None
  /\ served' = snapshot[r]
  /\ snapshot' = [snapshot EXCEPT ![r] = None]
  /\ reverted' = (reverted \/ snapshot[r] \notin {served, stored})
  /\ UNCHANGED <<stored, emitted, queue, op, stage, from, code, dropped, denied, told, replies,
                 admitted>>

\* The process restarts and prunes the expired codes before it serves.
Restart ==
  /\ stored' = Swept(stored, Expired(stored))
  /\ served' = stored'
  /\ snapshot' = [r \in Reloads |-> None]
  /\ emitted' = [c \in Codes |-> IF stored.pairs[c] = None THEN None ELSE emitted[c]]
  /\ queue' = <<>>
  /\ stage' = [j \in Jobs |-> IF stage[j] = "idle" THEN "idle" ELSE "ended"]
  /\ op' = [q \in Requests |-> None]
  /\ from' = [m \in Messages |-> None]
  /\ code' = [m \in Messages |-> None]
  /\ dropped' = <<>>
  /\ denied' = {}
  /\ replies' = [d \in Dms |-> 0]
  /\ UNCHANGED <<told, admitted, reverted>>

Next ==
  \/ \E q \in Requests :
       \/ \E o \in Ops : Call(q, o)
       \/ Resolve(q)
       \/ RemoveChat(q)
       \/ EditSenders(q)
       \/ SetMentionPolicy(q)
       \/ SetDmPolicy(q)
       \/ AddGroup(q)
       \/ Consume(q)
       \/ Publish(q)
       \/ ForgetGroup(q)
  \/ \E m \in Messages :
       Handle(m) \/ StoreCode(m) \/ PublishCode(m) \/ TellCode(m) \/ DenyReply(m)
  \/ \E j \in Jobs : UpdateFails(j)
  \/ \E r \in Reloads : ReloadRead(r) \/ ReloadFinish(r)
  \/ \E c \in Codes : CodeExpires(c)
  \/ \E d \in Dms : ReplyWindowEnds(d)
  \/ Restart

Spec == Init /\ [][Next]_vars

-----------------------------------------------------------------------------
(***************************************************************************)
(* The types of the variables; the registry of pending groups never holds  *)
(* more than its limit, and no group twice.                                *)
(***************************************************************************)
TypeOK ==
  /\ served \in File
  /\ stored \in File
  /\ snapshot \in [Reloads -> File \union {None}]
  /\ emitted \in [Codes -> Dms \union {None}]
  /\ queue \in Seq(Jobs)
  /\ op \in [Requests -> Ops \union {None}]
  /\ stage \in [Jobs -> RequestStages \union MessageStages]
  /\ from \in [Messages -> Dms \union {None}]
  /\ code \in [Messages -> Codes \union {None}]
  /\ dropped \in Seq(Groups)
  /\ Len(dropped) <= MaxEntries
  /\ \A i, j \in DOMAIN dropped : dropped[i] = dropped[j] => i = j
  /\ denied \subseteq Dms
  /\ told \in [Codes -> Dms \union {None}]
  /\ replies \in [Dms -> Nat]
  /\ admitted \subseteq Dms \union Groups
  /\ reverted \in BOOLEAN

(***************************************************************************)
(* A code that a person has been sent pairs that person's DM until it is   *)
(* used or expires, whatever other codes are emitted, used or swept and    *)
(* whenever the process restarts (PairingService.emitCode and consume); a  *)
(* reload that puts back what an update had replaced may take it away      *)
(* (json-store.ts:72).                                                     *)
(***************************************************************************)
ToldCodesWork ==
  ~reverted => \A c \in Codes : told[c] # None =>
    emitted[c] = told[c] /\ served.pairs[c] = told[c] /\ stored.pairs[c] = told[c]

(***************************************************************************)
(* A chat that is allowed is not offered to the operator as a pending one, *)
(* except while the call that added it finishes (AccessService.addGroup    *)
(* against PendingGroupsRegistry.record of messages that arrive meanwhile, *)
(* and against removals), until a reload puts back what an update had      *)
(* replaced.                                                               *)
(***************************************************************************)
Adding(g) ==
  \E q \in Requests : /\ stage[q] \in {"written", "stored"}
                      /\ op[q].name = "addGroup"
                      /\ op[q].peer = g

AllowedNotPending ==
  ~reverted => \A i \in DOMAIN dropped : served.groups[dropped[i]] # None => Adding(dropped[i])

(***************************************************************************)
(* A person who is not allowed gets at most one reply in 24 hours from a   *)
(* process that is not restarted, however many messages arrive while the   *)
(* first reply is being sent (InboundService.sendDenyReply).               *)
(***************************************************************************)
OneDenyReply == \A d \in Dms : replies[d] <= 1

(***************************************************************************)
(* Nobody is let in, or is about to be, whom the operator never let in: by *)
(* an addGroup, or by the use of a code that was emitted for that very DM  *)
(* less than ten minutes before.  This holds whatever reloads put back.    *)
(***************************************************************************)
NoStranger == \A f \in Contents : Chats(f) \subseteq admitted

(***************************************************************************)
(* A chat enters the file only by the operator's hand, and then its code   *)
(* is used up, and it is served only once it is in the file.  No call that *)
(* was checked against an entry brings that entry back after its removal.  *)
(* A reload that puts back what an update had replaced does.               *)
(***************************************************************************)
AdmitsGroup(q, g) == op[q] # None /\ op[q].name = "addGroup" /\ op[q].peer = g

AdmitsDm(q, d) ==
  /\ op[q] # None
  /\ op[q].name = "consume"
  /\ emitted[op[q].code] = d
  /\ stored'.pairs[op[q].code] = None

OperatorAdmits ==
  [][~reverted' =>
      /\ \A chat \in Chats(stored') \ Chats(stored) :
           \E q \in Requests :
             q = Head(queue) /\ (AdmitsGroup(q, chat) \/ AdmitsDm(q, chat))
      /\ Chats(served') \ Chats(served) \subseteq Chats(stored)]_vars
==============================================================================
