----------------------------- MODULE MessageSend -----------------------------
(***************************************************************************)
(* Sending long texts (server/src/modules/messaging/messaging.service.ts,  *)
(* server/src/vk/chunk-text.ts) and knowing one's own messages again when  *)
(* a person quotes them (RecentSentMessages, CommunityResolver and         *)
(* MentionDetector.isReplyToBot).                                          *)
(*                                                                         *)
(* A text is a sequence of blanks and letters; a piece of it is the pair   *)
(* of the offsets where it begins and ends.  The code cuts the whole text  *)
(* before it sends the first piece; here each piece is cut when it is      *)
(* sent, which is the same since the text does not change.                 *)
(*                                                                         *)
(* VK keeps a conversation per peer.  It numbers the messages of each one  *)
(* (conversation_message_id), and all messages of the community            *)
(* (message_id).  toSendResponse takes an answer that is an object with    *)
(* both numbers, and one that is the message_id alone, which its comment   *)
(* says a send to a single peer gets; the client makes no other.  Which    *)
(* one VK gives is not for the code to say, so a behavior has either.      *)
(***************************************************************************)
EXTENDS Naturals, Sequences, FiniteSets

CONSTANTS
  Calls,          \* calls of MessagingService.send, each made once
  Peers,          \* the conversations
  Texts,          \* the texts that may be sent
  None,           \* no value
  MaxLength,      \* DEFAULT_MAX, 4096 in the code
  Lookback,       \* WHITESPACE_LOOKBACK, 100 in the code
  RingLimit,      \* LIMIT of the ring, 200 in the code
  Modulus,        \* of nextRandomId's counter, 1000 in the code
  MaxNow,         \* bound on the clock
  MaxPeople       \* bound on the messages of people

Blank == " "
Letter == "x"
Person == "person"

ASSUME SendAssumption ==
  /\ Texts \subseteq Seq({Blank, Letter})
  /\ Person \notin Calls
  /\ None \notin Peers
  /\ MaxLength \in Nat \ {0}
  /\ Lookback \in Nat
  /\ RingLimit \in Nat
  /\ Modulus \in Nat \ {0}
  /\ MaxNow \in Nat
  /\ MaxPeople \in Nat

VARIABLES
  stage,     \* how far each call has got
  peer,      \* where it sends to
  text,      \* what it sends
  cursor,    \* how much of the text it has sent
  randomId,  \* the random_id of its send under way
  answer,    \* VK's answer to that send
  counter,   \* of nextRandomId
  now,       \* Date.now()
  burst,     \* the random ids drawn in this millisecond (environment)
  ring,      \* RecentSentMessages: <<peer, id>>, oldest first
  identity,  \* CommunityResolver: "fetching", "known" or "failed"
  conv,      \* VK: the messages of each conversation
  numeric    \* VK: whether it answers with the message_id alone

callVars == <<stage, peer, text, cursor, randomId, answer>>
idVars == <<counter, now, burst>>
vars == <<callVars, idVars, ring, identity, conv, numeric>>

Stages == {"idle", "next", "posting", "posted", "ok", "failed"}
Active == {"next", "posting", "posted"}

Init ==
  /\ stage = [c \in Calls |-> "idle"]
  /\ peer = [c \in Calls |-> None]
  /\ text = [c \in Calls |-> <<>>]
  /\ cursor = [c \in Calls |-> 0]
  /\ randomId = [c \in Calls |-> 0]
  /\ answer = [c \in Calls |-> 0]
  /\ counter = 0
  /\ now = 1
  /\ burst = 0
  /\ ring = <<>>
  /\ identity = "fetching"
  /\ conv = [p \in Peers |-> <<>>]
  /\ numeric \in BOOLEAN

-----------------------------------------------------------------------------
(***************************************************************************)
(* chunkText                                                               *)
(***************************************************************************)

\* The character at an offset is a blank; offsets count from 0.
BlankAt(t, i) == t[i + 1] = Blank

Latest(S) == CHOOSE i \in S : \A j \in S : j <= i
Earliest(S) == CHOOSE i \in S : \A j \in S : i <= j

\* Where the search for a blank begins.
SearchStart(lo) == IF MaxLength >= Lookback THEN lo + (MaxLength - Lookback) ELSE lo

\* The blanks that may end the piece: a blank at the very start of the
\* window does not count.
Breaks(t, lo) == {i \in SearchStart(lo) + 1 .. lo + MaxLength - 1 : BlankAt(t, i)}

\* Fault: one character more than VK takes.
FaultCut(t, lo) ==
  IF Len(t) - lo <= MaxLength + 1 THEN Len(t)
  ELSE IF Breaks(t, lo) # {} THEN Latest(Breaks(t, lo)) ELSE lo + MaxLength + 1

\* The end of the piece that begins at lo.
Cut(t, lo) ==
  IF Len(t) - lo <= MaxLength THEN Len(t)
  ELSE IF Breaks(t, lo) # {} THEN Latest(Breaks(t, lo)) ELSE lo + MaxLength

\* The blanks after a piece are skipped.
Skip(t, i) == Earliest({j \in i .. Len(t) : j = Len(t) \/ ~BlankAt(t, j)})

-----------------------------------------------------------------------------
(***************************************************************************)
(* MessagingService.sendInternal                                           *)
(***************************************************************************)

\* A tool call, a deny reply, a pairing code or a prompt.
Send(c) ==
  /\ stage[c] = "idle"
  /\ stage' = [stage EXCEPT ![c] = "next"]
  /\ \E p \in Peers, t \in Texts :
       /\ peer' = [peer EXCEPT ![c] = p]
       /\ text' = [text EXCEPT ![c] = t]
  /\ UNCHANGED <<cursor, randomId, answer, idVars, ring, identity, conv, numeric>>

NextCounter == (counter + 1) % Modulus

\* Fault: the id is the time alone.
FaultRandomId == now * Modulus

\* nextRandomId: unique, not increasing, since the counter may wrap within a
\* millisecond.
NextRandomId == (now * Modulus) + NextCounter

\* The next piece is handed to the VK client.  That fewer random ids than
\* Modulus are drawn in a millisecond is left to the environment: each
\* piece waits for VK.
Post(c) ==
  /\ stage[c] = "next"
  /\ cursor[c] < Len(text[c])
  /\ burst < Modulus
  /\ burst' = burst + 1
  /\ counter' = NextCounter
  /\ randomId' = [randomId EXCEPT ![c] = NextRandomId]
  /\ stage' = [stage EXCEPT ![c] = "posting"]
  /\ UNCHANGED <<peer, text, cursor, answer, now, ring, identity, conv, numeric>>

\* VK numbers the messages of the community.
Sent == UNION {{conv[p][i] : i \in DOMAIN conv[p]} : p \in Peers}
NewMessageId == Cardinality(Sent) + 1

\* toSendResponse: a numeric answer is taken for the number in the
\* conversation.
SendResponse(p, i) == IF numeric THEN conv'[p][i].id ELSE i

\* The messages of a conversation that were sent with a random id.
SentAs(p, r) == {i \in DOMAIN conv[p] : conv[p][i].by # Person /\ conv[p][i].random = r}

\* VK adds the piece to the conversation, unless it knows the random_id:
\* then it answers with the message that it has.
Deliver(c) ==
  LET p == peer[c]
      known == SentAs(p, randomId[c])
      number == IF known = {} THEN Len(conv[p]) + 1 ELSE Earliest(known)
      message ==
        [by |-> c, id |-> NewMessageId, random |-> randomId[c],
         lo |-> cursor[c], hi |-> Cut(text[c], cursor[c])]
  IN
  /\ stage[c] = "posting"
  /\ stage' = [stage EXCEPT ![c] = "posted"]
  /\ conv' = IF known = {} THEN [conv EXCEPT ![p] = Append(@, message)] ELSE conv
  /\ answer' = [answer EXCEPT ![c] = SendResponse(p, number)]
  /\ UNCHANGED <<peer, text, cursor, randomId, idVars, ring, identity, numeric>>

\* Fault: room is made before the new entry comes.
FaultPushed(p, i) == Append(IF Len(ring) > RingLimit THEN Tail(ring) ELSE ring, <<p, i>>)

\* RecentSentMessages.push: the oldest entries make room.
Pushed(p, i) ==
  LET longer == Append(ring, <<p, i>>) IN
  IF Len(longer) > RingLimit THEN Tail(longer) ELSE longer

\* The answer arrives.
Returned(c) ==
  LET next == Skip(text[c], Cut(text[c], cursor[c])) IN
  /\ stage[c] = "posted"
  /\ ring' = Pushed(peer[c], answer[c])
  /\ cursor' = [cursor EXCEPT ![c] = next]
  /\ stage' = [stage EXCEPT ![c] = IF next = Len(text[c]) THEN "ok" ELSE "next"]
  /\ randomId' = [randomId EXCEPT ![c] = 0]
  /\ answer' = [answer EXCEPT ![c] = 0]
  /\ UNCHANGED <<peer, text, idVars, identity, conv, numeric>>

\* These calls fail.
Fail(failing) ==
  /\ stage' = [c \in Calls |-> IF c \in failing THEN "failed" ELSE stage[c]]
  /\ randomId' = [c \in Calls |-> IF c \in failing THEN 0 ELSE randomId[c]]
  /\ answer' = [c \in Calls |-> IF c \in failing THEN 0 ELSE answer[c]]
  /\ UNCHANGED <<peer, text, cursor>>

\* The send throws, before VK has the piece or after: the pieces that were
\* sent stay, the rest is not sent.
SendThrows(c) ==
  /\ stage[c] \in {"posting", "posted"}
  /\ Fail({c})
  /\ UNCHANGED <<idVars, ring, identity, conv, numeric>>

-----------------------------------------------------------------------------
(***************************************************************************)
(* Replies                                                                 *)
(***************************************************************************)

\* CommunityResolver.prefetch: one attempt per process.
Resolved ==
  /\ identity = "fetching"
  /\ identity' \in {"known", "failed"}
  /\ UNCHANGED <<callVars, idVars, ring, conv, numeric>>

\* Fault: the conversation is not compared.
FaultReplyToBot(p, i) ==
  \/ identity = "known" /\ conv[p][i].by # Person
  \/ \E k \in DOMAIN ring : ring[k][2] = i

\* isReplyToBot for a message of conversation p that quotes message i of
\* it: the community wrote it, or it is in the ring.
ReplyToBot(p, i) ==
  \/ identity = "known" /\ conv[p][i].by # Person
  \/ \E k \in DOMAIN ring : ring[k] = <<p, i>>

\* A person writes.
Write(p) ==
  /\ Cardinality({m \in Sent : m.by = Person}) < MaxPeople
  /\ conv' = [conv EXCEPT ![p] = Append(@, [by |-> Person, id |-> NewMessageId])]
  /\ UNCHANGED <<callVars, idVars, ring, identity, numeric>>

Tick ==
  /\ now < MaxNow
  /\ now' = now + 1
  /\ burst' = 0
  /\ UNCHANGED <<callVars, counter, ring, identity, conv, numeric>>

\* The process restarts, which takes more than a millisecond.
Restart ==
  /\ now < MaxNow
  /\ now' = now + 1
  /\ burst' = 0
  /\ counter' = 0
  /\ Fail({c \in Calls : stage[c] \in Active})
  /\ ring' = <<>>
  /\ identity' = "fetching"
  /\ UNCHANGED <<conv, numeric>>

Next ==
  \/ \E c \in Calls : Send(c) \/ Post(c) \/ Deliver(c) \/ Returned(c) \/ SendThrows(c)
  \/ \E p \in Peers : Write(p)
  \/ Resolved
  \/ Tick
  \/ Restart

Spec == Init /\ [][Next]_vars

-----------------------------------------------------------------------------
Messages ==
  [by : Calls, id : Nat, random : Nat, lo : Nat, hi : Nat] \union [by : {Person}, id : Nat]

(***************************************************************************)
(* The types of the variables; the ring keeps to its limit.                *)
(***************************************************************************)
TypeOK ==
  /\ stage \in [Calls -> Stages]
  /\ peer \in [Calls -> Peers \union {None}]
  /\ text \in [Calls -> Texts \union {<<>>}]
  /\ cursor \in [Calls -> Nat]
  /\ randomId \in [Calls -> Nat]
  /\ answer \in [Calls -> Nat]
  /\ counter \in 0 .. Modulus - 1
  /\ now \in Nat
  /\ burst \in 0 .. Modulus
  /\ ring \in Seq(Peers \X Nat)
  /\ Len(ring) <= RingLimit
  /\ identity \in {"fetching", "known", "failed"}
  /\ conv \in [Peers -> Seq(Messages)]
  /\ numeric \in BOOLEAN

\* The numbers of a call's messages in its conversation.
Own(c) ==
  IF peer[c] = None THEN {} ELSE {i \in DOMAIN conv[peer[c]] : conv[peer[c]][i].by = c}

Piece(c, i) == conv[peer[c]][i]

(***************************************************************************)
(* What a call has put into the conversation are pieces of its text, each  *)
(* one that VK takes, in order, and nothing but blanks is missing between  *)
(* them, whether the call goes on, has failed half-way or has ended;       *)
(* another call that sends at the same moment changes nothing              *)
(* (chunkText, sendInternal and nextRandomId).                             *)
(***************************************************************************)
Fits(c) ==
  \A i \in Own(c) :
    /\ Piece(c, i).lo < Piece(c, i).hi
    /\ Piece(c, i).hi <= Piece(c, i).lo + MaxLength
    /\ Piece(c, i).hi <= Len(text[c])

InOrder(c) == \A i, j \in Own(c) : i < j => Piece(c, i).hi <= Piece(c, j).lo

Complete(c) ==
  /\ \A k \in 0 .. cursor[c] - 1 :
       BlankAt(text[c], k) \/ \E i \in Own(c) : k \in Piece(c, i).lo .. Piece(c, i).hi - 1
  /\ stage[c] = "ok" => cursor[c] = Len(text[c])

SentWhole == \A c \in Calls : Fits(c) /\ InOrder(c) /\ Complete(c)

(***************************************************************************)
(* "reply_to matches a cmid the bot sent to this peer recently": the quote *)
(* of a person's message is never taken for a reply to the bot, whichever  *)
(* conversations are active and before the community's identity is known   *)
(* (isReplyToBot and RecentSentMessages).  It is if VK answers with the    *)
(* message_id alone.                                                       *)
(***************************************************************************)
NoStrangeReply ==
  \A p \in Peers : \A i \in DOMAIN conv[p] : ReplyToBot(p, i) => conv[p][i].by # Person

(***************************************************************************)
(* It is not where VK answers with the number in the conversation: two     *)
(* conversations do not get in each other's way, nor do calls that fail    *)
(* half-way, late answers and restarts.                                    *)
(***************************************************************************)
RepliesMatchPeer == ~numeric => NoStrangeReply
=============================================================================
