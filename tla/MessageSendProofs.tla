--------------------------- MODULE MessageSendProofs ---------------------------
(***************************************************************************)
(* The safety of MessageSend.                                              *)
(***************************************************************************)
EXTENDS MessageSend, TLAPS, FiniteSetTheorems, WellFoundedInduction

(***************************************************************************)
(* The inductive invariant of the random ids.  An id that a send under way *)
(* carries, or that VK knows, was drawn in an earlier millisecond or is    *)
(* one of the last burst values of the counter in this one.  No two sends  *)
(* under way carry one id, and VK knows none of these.                     *)
(***************************************************************************)
Drawn(x) ==
  /\ x \in 0 .. Modulus - 1
  /\ \/ x <= counter /\ counter < x + burst
     \/ counter + Modulus < x + burst

IdOK(r) ==
  /\ r < now * Modulus + Modulus
  /\ r >= now * Modulus => Drawn(r - now * Modulus)

Posting(c) == stage[c] = "posting"
ByCall(p, i) == conv[p][i].by # Person

IdsOK ==
  /\ \A c \in Calls : Posting(c) => IdOK(randomId[c])
  /\ \A p \in Peers : \A i \in 1 .. Len(conv[p]) : ByCall(p, i) => IdOK(conv[p][i].random)
  /\ \A c, d \in Calls : Posting(c) /\ Posting(d) /\ randomId[c] = randomId[d] => c = d
  /\ \A c \in Calls : Posting(c) =>
       \A p \in Peers : \A i \in 1 .. Len(conv[p]) :
         ByCall(p, i) => conv[p][i].random # randomId[c]

(***************************************************************************)
(* The inductive invariant of a call.  The pieces that VK has end where    *)
(* the cursor is, but for the one whose answer is on its way: that is the  *)
(* last, and begins there.                                                 *)
(***************************************************************************)
IsLast(c, n) ==
  /\ Piece(c, n).lo = cursor[c]
  /\ Piece(c, n).hi = Cut(text[c], cursor[c])
  /\ \A i \in Own(c) \ {n} : i < n /\ Piece(c, i).hi <= cursor[c]

CallOK(c) ==
  /\ stage[c] = "idle" =>
       /\ peer[c] = None
       /\ cursor[c] = 0
       /\ \A p \in Peers : \A i \in 1 .. Len(conv[p]) : conv[p][i].by # c
  /\ stage[c] # "idle" => peer[c] \in Peers /\ text[c] \in Texts
  /\ cursor[c] <= Len(text[c])
  /\ stage[c] \in {"posting", "posted"} => cursor[c] < Len(text[c])
  /\ stage[c] \in {"next", "posting"} => \A i \in Own(c) : Piece(c, i).hi <= cursor[c]
  /\ stage[c] = "posted" => \E n \in Own(c) : IsLast(c, n)

CallsOK == \A c \in Calls : CallOK(c)

IInv == TypeOK /\ IsFiniteSet(Sent) /\ IdsOK /\ CallsOK /\ SentWhole

(***************************************************************************)
(* Where VK answers with the number in the conversation: the answer that   *)
(* is on its way names a message of the call, and the ring holds messages  *)
(* of the bot only.                                                        *)
(***************************************************************************)
AnswerOK(c) == stage[c] = "posted" => answer[c] \in Own(c)

RingOK ==
  \A k \in 1 .. Len(ring) :
    \E p \in Peers : \E i \in 1 .. Len(conv[p]) : ring[k] = <<p, i>> /\ ByCall(p, i)

AInv == IInv /\ (~numeric => RingOK /\ \A c \in Calls : AnswerOK(c))

-----------------------------------------------------------------------------
(***************************************************************************)
(* Least and greatest offsets.                                             *)
(***************************************************************************)
LEMMA Least == ASSUME NEW S \in SUBSET Nat, S # {} PROVE \E x \in S : \A y \in S : x <= y
<1> DEFINE R == OpToRel(<, Nat)
<1>1. PICK x \in S : \A y \in S : ~ (<<y, x>> \in R)
  BY NatLessThanWellFounded, WFMin
<1>2. \A a, b \in Nat : a < b => <<a, b>> \in R
  BY DEF OpToRel
<1>3. ASSUME NEW y \in S PROVE x <= y
  <2>1. ~ (<<y, x>> \in R)
    BY <1>1
  <2> HIDE DEF R
  <2>2. ~ (y < x)
    BY <1>2, <2>1
  <2> QED
    BY <2>2
<1> QED
  BY <1>3

LEMMA EarliestIsLeast ==
  ASSUME NEW S \in SUBSET Nat, S # {}
  PROVE  Earliest(S) \in S /\ \A j \in S : Earliest(S) <= j
BY Least DEF Earliest

LEMMA LatestIsGreatest ==
  ASSUME NEW S \in SUBSET Nat, S # {}, NEW b \in Nat, \A i \in S : i <= b
  PROVE  Latest(S) \in S /\ \A j \in S : j <= Latest(S)
<1> DEFINE T == {b - i : i \in S}
<1>1. T \in SUBSET Nat /\ T # {}
  <2>1. \A i \in S : b - i \in Nat
    OBVIOUS
  <2> QED
    BY <2>1
<1>2. PICK x \in T : \A y \in T : x <= y
  BY <1>1, Least
<1>3. PICK i \in S : x = b - i
  OBVIOUS
<1>4. ASSUME NEW j \in S PROVE j <= i
  <2>1. b - i <= b - j
    BY <1>2, <1>3
  <2> QED
    BY <2>1
<1> QED
  BY <1>4 DEF Latest

-----------------------------------------------------------------------------
(***************************************************************************)
(* chunkText: a piece is not empty, is one that VK takes and ends within   *)
(* the text, and only blanks are skipped.                                  *)
(***************************************************************************)
LEMMA CutEnds ==
  ASSUME NEW t \in Seq({Blank, Letter}), NEW lo \in Nat, lo < Len(t)
  PROVE  /\ Cut(t, lo) \in Nat
         /\ lo < Cut(t, lo) /\ Cut(t, lo) <= Len(t) /\ Cut(t, lo) <= lo + MaxLength
<1>1. MaxLength \in Nat /\ MaxLength > 0 /\ Lookback \in Nat /\ Len(t) \in Nat
  BY SendAssumption
<1>2. CASE Len(t) - lo <= MaxLength
  BY <1>1, <1>2 DEF Cut
<1>3. CASE ~(Len(t) - lo <= MaxLength) /\ Breaks(t, lo) = {}
  BY <1>1, <1>3 DEF Cut
<1>4. CASE ~(Len(t) - lo <= MaxLength) /\ Breaks(t, lo) # {}
  <2>1. SearchStart(lo) \in Nat /\ lo <= SearchStart(lo)
    BY <1>1 DEF SearchStart
  <2>2. \A i \in Breaks(t, lo) : i \in Nat /\ lo < i /\ i <= lo + MaxLength
    BY <1>1, <2>1 DEF Breaks
  <2>3. Latest(Breaks(t, lo)) \in Breaks(t, lo)
    BY <1>1, <1>4, <2>2, LatestIsGreatest, lo + MaxLength \in Nat
  <2>4. Cut(t, lo) = Latest(Breaks(t, lo))
    BY <1>4 DEF Cut
  <2> QED
    BY <1>1, <1>4, <2>2, <2>3, <2>4
<1> QED
  BY <1>2, <1>3, <1>4

LEMMA SkipEnds ==
  ASSUME NEW t \in Seq({Blank, Letter}), NEW i \in Nat, i <= Len(t)
  PROVE  /\ Skip(t, i) \in Nat /\ i <= Skip(t, i) /\ Skip(t, i) <= Len(t)
         /\ \A k \in i .. Skip(t, i) - 1 : BlankAt(t, k)
<1> DEFINE Stops == {j \in i .. Len(t) : j = Len(t) \/ ~BlankAt(t, j)}
<1>1. Stops \in SUBSET Nat /\ Len(t) \in Stops
  OBVIOUS
<1>2. Skip(t, i) \in Stops /\ \A j \in Stops : Skip(t, i) <= j
  BY <1>1, EarliestIsLeast DEF Skip
<1>3. Skip(t, i) \in Nat /\ i <= Skip(t, i) /\ Skip(t, i) <= Len(t)
  BY <1>2
<1>4. ASSUME NEW k \in i .. Skip(t, i) - 1 PROVE BlankAt(t, k)
  BY <1>2, <1>3
<1> QED
  BY <1>3, <1>4

-----------------------------------------------------------------------------
(***************************************************************************)
(* nextRandomId: the counter before and after, and the id that is drawn.   *)
(***************************************************************************)
LEMMA CounterTurns ==
  ASSUME NEW m \in Nat \ {0}, NEW a \in 0 .. m - 1
  PROVE  (a + 1) % m = IF a + 1 = m THEN 0 ELSE a + 1
OBVIOUS

LEMMA TimesGrows ==
  ASSUME NEW a \in Nat, NEW m \in Nat
  PROVE  a * m \in Nat /\ (a + 1) * m = a * m + m
OBVIOUS
-----------------------------------------------------------------------------
(***************************************************************************)
(* Messages and conversations                                              *)
(***************************************************************************)
LEMMA MessageTypes ==
  ASSUME NEW m \in Messages
  PROVE  /\ m.by \in Calls \union {Person} /\ m.id \in Nat
         /\ m.by # Person => m.by \in Calls /\ m.random \in Nat /\ m.lo \in Nat /\ m.hi \in Nat
BY SendAssumption DEF Messages

LEMMA InConversation ==
  ASSUME TypeOK, NEW p \in Peers
  PROVE  /\ Len(conv[p]) \in Nat /\ DOMAIN conv[p] = 1 .. Len(conv[p])
         /\ \A i \in 1 .. Len(conv[p]) : conv[p][i] \in Messages
BY DEF TypeOK

LEMMA OwnIs ==
  ASSUME TypeOK, NEW c \in Calls, peer[c] \in Peers
  PROVE  Own(c) = {i \in 1 .. Len(conv[peer[c]]) : conv[peer[c]][i].by = c}
BY InConversation, SendAssumption DEF Own

LEMMA PieceTypes ==
  ASSUME TypeOK, NEW c \in Calls, NEW i \in Own(c)
  PROVE  i \in Nat /\ Piece(c, i).lo \in Nat /\ Piece(c, i).hi \in Nat
<1>1. peer[c] \in Peers
  BY DEF TypeOK, Own
<1>2. i \in 1 .. Len(conv[peer[c]]) /\ conv[peer[c]][i].by = c
  BY <1>1, OwnIs
<1> QED
  BY <1>1, <1>2, InConversation, MessageTypes, SendAssumption DEF Piece

LEMMA CallTypes ==
  ASSUME TypeOK, NEW c \in Calls
  PROVE  /\ text[c] \in Seq({Blank, Letter}) /\ Len(text[c]) \in Nat
         /\ cursor[c] \in Nat /\ stage[c] \in Stages
<1>1. text[c] \in Texts \/ text[c] = <<>>
  BY DEF TypeOK
<1>2. <<>> \in Seq({Blank, Letter})
  OBVIOUS
<1>3. text[c] \in Seq({Blank, Letter})
  BY <1>1, <1>2, SendAssumption
<1> QED
  BY <1>3 DEF TypeOK

\* The messages that were there stay as they are.
Grows ==
  \A p \in Peers :
    /\ Len(conv[p]) <= Len(conv'[p])
    /\ \A i \in 1 .. Len(conv[p]) : conv'[p][i] = conv[p][i]

\* No call of cs has a new one.
NoneBy(cs) ==
  \A p \in Peers : \A i \in Len(conv[p]) + 1 .. Len(conv'[p]) : conv'[p][i].by \notin cs

LEMMA OneMore ==
  ASSUME TypeOK, NEW q \in Peers, NEW m \in Messages, conv' = [conv EXCEPT ![q] = Append(@, m)]
  PROVE  /\ conv' \in [Peers -> Seq(Messages)]
         /\ \A p \in Peers \ {q} : conv'[p] = conv[p]
         /\ Len(conv'[q]) = Len(conv[q]) + 1
         /\ conv'[q][Len(conv[q]) + 1] = m
         /\ Grows
         /\ NoneBy(Calls \ {m.by})
<1>1. conv \in [Peers -> Seq(Messages)] /\ Append(conv[q], m) \in Seq(Messages)
  BY DEF TypeOK
<1>2. conv'[q] = Append(conv[q], m) /\ \A p \in Peers \ {q} : conv'[p] = conv[p]
  BY <1>1
<1>3. conv' \in [Peers -> Seq(Messages)]
  BY <1>1
<1>4. /\ Len(conv'[q]) = Len(conv[q]) + 1
      /\ conv'[q][Len(conv[q]) + 1] = m
      /\ \A i \in 1 .. Len(conv[q]) : conv'[q][i] = conv[q][i]
  BY <1>1, <1>2
<1>5. \A p \in Peers : Len(conv[p]) \in Nat
  BY <1>1
<1>6. Grows
  <2> SUFFICES ASSUME NEW p \in Peers
               PROVE  /\ Len(conv[p]) <= Len(conv'[p])
                      /\ \A i \in 1 .. Len(conv[p]) : conv'[p][i] = conv[p][i]
    BY DEF Grows
  <2> QED
    BY <1>2, <1>4, <1>5
<1>7. NoneBy(Calls \ {m.by})
  <2> SUFFICES ASSUME NEW p \in Peers, NEW i \in Len(conv[p]) + 1 .. Len(conv'[p])
               PROVE  conv'[p][i].by \notin Calls \ {m.by}
    BY DEF NoneBy
  <2>1. p = q /\ i = Len(conv[q]) + 1
    BY <1>2, <1>4, <1>5
  <2> QED
    BY <2>1, <1>4
<1> QED
  BY <1>2, <1>3, <1>4, <1>6, <1>7

LEMMA SameMessages ==
  ASSUME TypeOK, conv' = conv
  PROVE  Grows /\ NoneBy(Calls)
BY InConversation DEF Grows, NoneBy

LEMMA SentGrows ==
  ASSUME TypeOK, IsFiniteSet(Sent), NEW q \in Peers, NEW m \in Messages,
         conv' = [conv EXCEPT ![q] = Append(@, m)]
  PROVE  IsFiniteSet(Sent')
<1>1. IsFiniteSet(Sent \union {m})
  BY FS_AddElement
<1>2. ASSUME NEW x \in Sent' PROVE x \in Sent \union {m}
  <2>1. PICK p \in Peers : x \in {conv'[p][i] : i \in DOMAIN conv'[p]}
    BY <1>2 DEF Sent
  <2>2. PICK i \in DOMAIN conv'[p] : x = conv'[p][i]
    BY <2>1
  <2>3. i \in 1 .. Len(conv'[p]) /\ Len(conv'[p]) \in Nat
    BY <2>2, OneMore
  <2>4. CASE i \in 1 .. Len(conv[p])
    <3>1. x = conv[p][i] /\ i \in DOMAIN conv[p]
      BY <2>2, <2>4, OneMore, InConversation DEF Grows
    <3> QED
      BY <3>1 DEF Sent
  <2>5. CASE i \notin 1 .. Len(conv[p])
    <3>1. p = q /\ i = Len(conv[q]) + 1
      BY <2>3, <2>5, OneMore, InConversation
    <3> QED
      BY <3>1, <2>2, OneMore
  <2> QED
    BY <2>4, <2>5
<1> QED
  BY <1>1, <1>2, FS_Subset, Sent' \subseteq Sent \union {m}

LEMMA NewId ==
  ASSUME IsFiniteSet(Sent)
  PROVE  NewMessageId \in Nat
BY FS_CardinalityType DEF NewMessageId
-----------------------------------------------------------------------------
(***************************************************************************)
(* The random ids                                                          *)
(***************************************************************************)
LEMMA IdTypes ==
  ASSUME TypeOK
  PROVE  /\ Modulus \in Nat /\ Modulus > 0 /\ now * Modulus \in Nat
         /\ counter \in Nat /\ counter < Modulus /\ burst \in Nat /\ burst <= Modulus
         /\ \A c \in Calls : randomId[c] \in Nat
         /\ \A p \in Peers : \A i \in 1 .. Len(conv[p]) : ByCall(p, i) => conv[p][i].random \in Nat
<1>1. Modulus \in Nat /\ Modulus > 0
  BY SendAssumption
<1>2. now * Modulus \in Nat
  BY <1>1, TimesGrows DEF TypeOK
<1>3. \A p \in Peers : \A i \in 1 .. Len(conv[p]) : ByCall(p, i) => conv[p][i].random \in Nat
  BY InConversation, MessageTypes DEF ByCall
<1> QED
  BY <1>1, <1>2, <1>3 DEF TypeOK

LEMMA NextCounterIs ==
  ASSUME TypeOK
  PROVE  NextCounter = IF counter + 1 = Modulus THEN 0 ELSE counter + 1
BY CounterTurns, SendAssumption DEF TypeOK, NextCounter

\* An id that is used is not drawn, and it stays one that was drawn.
LEMMA Fresh ==
  ASSUME TypeOK, NEW r \in Nat, IdOK(r), burst < Modulus
  PROVE  r # NextRandomId
<1> DEFINE x == r - now * Modulus
<1>1. SUFFICES ASSUME r = NextRandomId PROVE FALSE
  OBVIOUS
<1>2. r >= now * Modulus /\ x = NextCounter
  BY <1>1, IdTypes, NextCounterIs DEF NextRandomId
<1>3. Drawn(x)
  BY <1>2 DEF IdOK
<1> QED
  BY <1>2, <1>3, NextCounterIs, IdTypes DEF Drawn

LEMMA StaysDrawn ==
  ASSUME TypeOK, NEW r \in Nat, IdOK(r), burst < Modulus,
         burst' = burst + 1, counter' = NextCounter, now' = now
  PROVE  IdOK(r)'
<1> DEFINE x == r - now * Modulus
<1>1. CASE r < now * Modulus
  BY <1>1, IdTypes DEF IdOK
<1>2. CASE r >= now * Modulus
  <2>1. Drawn(x)
    BY <1>2 DEF IdOK
  <2>2. x \in 0 .. Modulus - 1
    BY <2>1 DEF Drawn
  <2>3. Drawn(x)'
    <3>1. CASE counter + 1 = Modulus
      BY <2>1, <2>2, <3>1, NextCounterIs, IdTypes DEF Drawn
    <3>2. CASE counter + 1 # Modulus
      BY <2>1, <2>2, <3>2, NextCounterIs, IdTypes DEF Drawn
    <3> QED
      BY <3>1, <3>2
  <2> QED
    BY <2>3 DEF IdOK
<1> QED
  BY <1>1, <1>2, IdTypes

LEMMA NewIdDrawn ==
  ASSUME TypeOK, burst < Modulus, burst' = burst + 1, counter' = NextCounter, now' = now,
         NEW r, r = NextRandomId
  PROVE  r \in Nat /\ IdOK(r)'
<1> DEFINE x == r - now * Modulus
<1>1. r = now * Modulus + NextCounter
  BY DEF NextRandomId
<1>2. NextCounter \in Nat /\ NextCounter < Modulus
  BY NextCounterIs, IdTypes
<1>3. x = NextCounter /\ r \in Nat /\ r < now * Modulus + Modulus
  BY <1>1, <1>2, IdTypes
<1>4. Drawn(x)'
  BY <1>2, <1>3, IdTypes DEF Drawn
<1> QED
  BY <1>3, <1>4 DEF IdOK

\* When the clock has moved, no used id is of this millisecond.
LEMMA StaysOld ==
  ASSUME TypeOK, NEW r \in Nat, IdOK(r), now' = now + 1
  PROVE  IdOK(r)'
<1>1. now' * Modulus = now * Modulus + Modulus
  BY TimesGrows, IdTypes DEF TypeOK
<1> QED
  BY <1>1, IdTypes DEF IdOK

(***************************************************************************)
(* VK knows no id that a send under way carries: it takes each piece for   *)
(* a new message.                                                          *)
(***************************************************************************)
Message(c) ==
  [by |-> c, id |-> NewMessageId, random |-> randomId[c],
   lo |-> cursor[c], hi |-> Cut(text[c], cursor[c])]

LEMMA Delivered ==
  ASSUME IInv, NEW c \in Calls, Deliver(c)
  PROVE  /\ peer[c] \in Peers
         /\ conv' = [conv EXCEPT ![peer[c]] = Append(@, Message(c))]
         /\ answer' = [answer EXCEPT ![c] =
                          IF numeric THEN NewMessageId ELSE Len(conv[peer[c]]) + 1]
         /\ Message(c) \in Messages
         /\ NewMessageId \in Nat
<1> DEFINE p == peer[c]
           number == Len(conv[p]) + 1
<1>1. peer[c] \in Peers /\ cursor[c] < Len(text[c]) /\ stage[c] = "posting"
  BY DEF IInv, CallsOK, CallOK, Deliver
<1>2. SentAs(p, randomId[c]) = {}
  BY <1>1, InConversation DEF IInv, IdsOK, Posting, ByCall, SentAs
<1>3. conv' = [conv EXCEPT ![p] = Append(@, Message(c))]
  BY <1>2 DEF Deliver, Message
<1>4. NewMessageId \in Nat
  BY NewId DEF IInv
<1>5. Cut(text[c], cursor[c]) \in Nat
  BY <1>1, CallTypes, CutEnds DEF IInv
<1>6. Message(c) \in Messages
  BY <1>4, <1>5, IdTypes, CallTypes DEF Message, Messages, IInv
<1>7. answer' = [answer EXCEPT ![c] = SendResponse(p, number)]
  BY <1>2 DEF Deliver
<1>8. conv'[p][number] = Message(c)
  BY <1>1, <1>3, <1>6, OneMore DEF IInv
<1>9. SendResponse(p, number) = IF numeric THEN NewMessageId ELSE number
  BY <1>8 DEF SendResponse, Message
<1> QED
  BY <1>1, <1>3, <1>4, <1>6, <1>7, <1>9

(***************************************************************************)
(* A step that draws no id keeps IdsOK: a send whose id was delivered is   *)
(* under way no longer.                                                    *)
(***************************************************************************)
LEMMA IdsKept ==
  ASSUME TypeOK, IdsOK, NEW D \in SUBSET Calls,
         \A r \in Nat : IdOK(r) => IdOK(r)',
         \A c \in D : Posting(c),
         \A c \in Calls : Posting(c)' => Posting(c) /\ c \notin D /\ randomId'[c] = randomId[c],
         Grows,
         \A p \in Peers : \A i \in Len(conv[p]) + 1 .. Len(conv'[p]) :
           conv'[p][i].by # Person => \E d \in D : conv'[p][i].random = randomId[d],
         \A p \in Peers : Len(conv'[p]) \in Nat
  PROVE  IdsOK'
<1>1. ASSUME NEW c \in Calls, Posting(c)' PROVE IdOK(randomId[c])'
  BY <1>1, IdTypes DEF IdsOK
<1>2. ASSUME NEW p \in Peers, NEW i \in 1 .. Len(conv'[p]), ByCall(p, i)'
      PROVE  \/ i \in 1 .. Len(conv[p]) /\ ByCall(p, i) /\ conv'[p][i] = conv[p][i]
             \/ \E d \in D : conv'[p][i].random = randomId[d]
  <2>1. CASE i \in 1 .. Len(conv[p])
    BY <1>2, <2>1 DEF Grows, ByCall
  <2>2. CASE i \notin 1 .. Len(conv[p])
    BY <1>2, <2>2, InConversation DEF Grows, ByCall
  <2> QED
    BY <2>1, <2>2
<1>3. ASSUME NEW p \in Peers, NEW i \in 1 .. Len(conv'[p]), ByCall(p, i)'
      PROVE  IdOK(conv[p][i].random)'
  BY <1>2, <1>3, IdTypes DEF IdsOK
<1>4. ASSUME NEW c \in Calls, NEW d \in Calls, Posting(c)', Posting(d)', randomId'[c] = randomId'[d]
      PROVE  c = d
  BY <1>4 DEF IdsOK
<1>5. ASSUME NEW c \in Calls, Posting(c)',
             NEW p \in Peers, NEW i \in 1 .. Len(conv'[p]), ByCall(p, i)'
      PROVE  conv'[p][i].random # randomId'[c]
  <2>1. randomId'[c] = randomId[c] /\ Posting(c) /\ c \notin D
    BY <1>5
  <2>2. CASE i \in 1 .. Len(conv[p]) /\ ByCall(p, i) /\ conv'[p][i] = conv[p][i]
    BY <2>1, <2>2 DEF IdsOK
  <2>3. CASE \E d \in D : conv'[p][i].random = randomId[d]
    BY <2>1, <2>3 DEF IdsOK
  <2> QED
    BY <1>2, <1>5, <2>2, <2>3
<1> QED
  BY <1>1, <1>3, <1>4, <1>5 DEF IdsOK
-----------------------------------------------------------------------------
(***************************************************************************)
(* The calls: what another call or a person does leaves a call as it is.   *)
(***************************************************************************)
LEMMA OwnKept ==
  ASSUME TypeOK, TypeOK', NEW c \in Calls, peer[c] \in Peers, peer'[c] = peer[c],
         Grows, NoneBy({c})
  PROVE  Own(c)' = Own(c) /\ \A i \in Own(c) : Piece(c, i)' = Piece(c, i)
<1> DEFINE p == peer[c]
<1>1. Own(c) = {i \in 1 .. Len(conv[p]) : conv[p][i].by = c}
  BY OwnIs
<1>2. Own(c)' = {i \in 1 .. Len(conv'[p]) : conv'[p][i].by = c}
  <2>1. DOMAIN conv'[p] = 1 .. Len(conv'[p])
    BY DEF TypeOK
  <2> QED
    BY <2>1, SendAssumption DEF Own
<1>3. Len(conv[p]) \in Nat /\ Len(conv'[p]) \in Nat /\ Len(conv[p]) <= Len(conv'[p])
  BY DEF Grows, TypeOK
<1>4. \A i \in 1 .. Len(conv[p]) : conv'[p][i] = conv[p][i]
  BY DEF Grows
<1>5. \A i \in Len(conv[p]) + 1 .. Len(conv'[p]) : conv'[p][i].by # c
  BY DEF NoneBy
<1>6. \A i \in 1 .. Len(conv'[p]) : i \in 1 .. Len(conv[p]) \/ i \in Len(conv[p]) + 1 .. Len(conv'[p])
  BY <1>3
<1>7. Own(c)' = Own(c)
  BY <1>1, <1>2, <1>3, <1>4, <1>5, <1>6
<1>8. \A i \in Own(c) : Piece(c, i)' = Piece(c, i)
  BY <1>1, <1>4 DEF Piece
<1> QED
  BY <1>7, <1>8

Whole(c) == Fits(c) /\ InOrder(c) /\ Complete(c)

LEMMA CallKept ==
  ASSUME TypeOK, TypeOK', NEW c \in Calls, CallOK(c), Whole(c),
         stage'[c] = stage[c], peer'[c] = peer[c], text'[c] = text[c], cursor'[c] = cursor[c],
         Grows, NoneBy({c})
  PROVE  CallOK(c)' /\ Whole(c)'
<1>1. CASE stage[c] = "idle"
  <2>1. Own(c) = {} /\ Own(c)' = {}
    BY <1>1, SendAssumption DEF CallOK, Own
  <2>2. \A p \in Peers : \A i \in 1 .. Len(conv'[p]) : conv'[p][i].by # c
    <3> SUFFICES ASSUME NEW p \in Peers, NEW i \in 1 .. Len(conv'[p]) PROVE conv'[p][i].by # c
      OBVIOUS
    <3>1. Len(conv[p]) \in Nat /\ Len(conv'[p]) \in Nat
      BY DEF TypeOK
    <3>2. CASE i \in 1 .. Len(conv[p])
      BY <1>1, <3>2 DEF CallOK, Grows
    <3>3. CASE i \notin 1 .. Len(conv[p])
      BY <3>1, <3>3 DEF NoneBy
    <3> QED
      BY <3>2, <3>3
  <2>3. CallOK(c)'
    BY <1>1, <2>2 DEF CallOK
  <2>4. cursor[c] = 0
    BY <1>1 DEF CallOK
  <2> QED
    BY <1>1, <2>1, <2>3, <2>4 DEF Whole, Fits, InOrder, Complete
<1>2. CASE stage[c] # "idle"
  <2>1. peer[c] \in Peers
    BY <1>2 DEF CallOK
  <2>2. Own(c)' = Own(c) /\ \A i \in Own(c) : Piece(c, i)' = Piece(c, i)
    BY <2>1, OwnKept
  <2>3. CallOK(c)'
    BY <1>2, <2>2 DEF CallOK, IsLast
  <2>4. Whole(c)'
    BY <2>2 DEF Whole, Fits, InOrder, Complete
  <2> QED
    BY <2>3, <2>4
<1> QED
  BY <1>1, <1>2

LEMMA SendCall ==
  ASSUME TypeOK, TypeOK', NEW c \in Calls, CallOK(c), Send(c)
  PROVE  CallOK(c)' /\ Whole(c)'
<1>1. stage[c] = "idle" /\ stage'[c] = "next" /\ cursor'[c] = 0 /\ conv' = conv
  BY DEF Send, CallOK, TypeOK
<1>2. peer'[c] \in Peers /\ text'[c] \in Texts
  BY DEF Send, TypeOK
<1>3. Own(c)' = {}
  <2>1. Own(c)' = {i \in DOMAIN conv[peer'[c]] : conv[peer'[c]][i].by = c}
    BY <1>1, <1>2, SendAssumption DEF Own
  <2> QED
    BY <1>1, <1>2, <2>1, InConversation DEF CallOK
<1>4. Len(text'[c]) \in Nat
  BY <1>2, SendAssumption
<1>5. CallOK(c)'
  BY <1>1, <1>2, <1>3, <1>4 DEF CallOK
<1> QED
  BY <1>1, <1>3, <1>5 DEF Whole, Fits, InOrder, Complete

LEMMA DeliverCall ==
  ASSUME IInv, TypeOK', NEW c \in Calls, Deliver(c), NEW n, n = Len(conv[peer[c]]) + 1
  PROVE  /\ CallOK(c)' /\ Whole(c)'
         /\ Own(c)' = Own(c) \union {n} /\ n \notin Own(c) /\ IsLast(c, n)'
<1> DEFINE p == peer[c]
           lo == cursor[c]
           hi == Cut(text[c], cursor[c])
<1>1. TypeOK /\ CallOK(c) /\ Whole(c)
  BY DEF IInv, CallsOK, SentWhole, Whole
<1>2. /\ stage[c] = "posting" /\ stage'[c] = "posted"
      /\ peer' = peer /\ text' = text /\ cursor' = cursor
  BY <1>1 DEF Deliver, TypeOK
<1>3. p \in Peers /\ text[c] \in Texts /\ lo < Len(text[c])
  BY <1>1, <1>2 DEF CallOK
<1>4. /\ Len(conv'[p]) = n /\ conv'[p][n] = Message(c) /\ n \in Nat
      /\ \A i \in 1 .. Len(conv[p]) : conv'[p][i] = conv[p][i]
  <2>1. conv' = [conv EXCEPT ![p] = Append(@, Message(c))] /\ Message(c) \in Messages
    BY Delivered
  <2>2. Len(conv'[p]) = Len(conv[p]) + 1 /\ conv'[p][Len(conv[p]) + 1] = Message(c) /\ Grows
    BY <1>1, <1>3, <2>1, OneMore
  <2> QED
    BY <1>1, <1>3, <2>2, InConversation DEF Grows
<1>5. Own(c) = {i \in 1 .. Len(conv[p]) : conv[p][i].by = c}
  BY <1>1, <1>3, OwnIs
<1>6. Own(c)' = {i \in 1 .. Len(conv'[p]) : conv'[p][i].by = c}
  <2>1. DOMAIN conv'[p] = 1 .. Len(conv'[p])
    BY <1>3 DEF TypeOK
  <2> QED
    BY <1>2, <1>3, <2>1, SendAssumption DEF Own
<1>7. Own(c)' = Own(c) \union {n} /\ \A i \in Own(c) : i < n
  <2>1. Message(c).by = c
    BY DEF Message
  <2>2. \A i \in 1 .. n : i = n \/ i \in 1 .. Len(conv[p])
    BY <1>4
  <2> QED
    BY <1>3, <1>4, <1>5, <1>6, <2>1, <2>2
<1>8. Piece(c, n)' = Message(c) /\ \A i \in Own(c) : Piece(c, i)' = Piece(c, i)
  BY <1>2, <1>4, <1>5 DEF Piece
<1>9. Message(c).lo = lo /\ Message(c).hi = hi
  BY DEF Message
<1>10. /\ lo \in Nat /\ hi \in Nat /\ Len(text[c]) \in Nat
       /\ lo < hi /\ hi <= Len(text[c]) /\ hi <= lo + MaxLength
  BY <1>1, <1>3, CallTypes, CutEnds
<1>11. \A i \in Own(c) : Piece(c, i).hi <= lo
  BY <1>1, <1>2 DEF CallOK
<1>12. IsLast(c, n)'
  BY <1>2, <1>7, <1>8, <1>9, <1>11 DEF IsLast
<1>13. CallOK(c)'
  BY <1>1, <1>2, <1>3, <1>7, <1>12 DEF CallOK
<1>14. Fits(c)'
  BY <1>1, <1>2, <1>7, <1>8, <1>9, <1>10 DEF Whole, Fits
<1>15. InOrder(c)'
  <2> SUFFICES ASSUME NEW i \in Own(c) \union {n}, NEW j \in Own(c) \union {n}, i < j
               PROVE  Piece(c, i)'.hi <= Piece(c, j)'.lo
    BY <1>7 DEF InOrder
  <2>1. i \in Own(c)
    BY <1>4, <1>5, <1>7
  <2>2. CASE j = n
    BY <1>8, <1>9, <1>11, <2>1, <2>2
  <2>3. CASE j # n
    BY <1>1, <1>8, <2>1, <2>3 DEF Whole, InOrder
  <2> QED
    BY <2>2, <2>3
<1>16. Complete(c)'
  BY <1>1, <1>2, <1>7, <1>8 DEF Whole, Complete
<1> QED
  BY <1>4, <1>7, <1>12, <1>13, <1>14, <1>15, <1>16 DEF Whole

LEMMA ReturnedCall ==
  ASSUME IInv, TypeOK', NEW c \in Calls, Returned(c)
  PROVE  CallOK(c)' /\ Whole(c)' /\ Own(c)' = Own(c)
<1> DEFINE cut == Cut(text[c], cursor[c])
           next == Skip(text[c], cut)
<1>1. TypeOK /\ CallOK(c) /\ Whole(c)
  BY DEF IInv, CallsOK, SentWhole, Whole
<1>2. /\ stage[c] = "posted" /\ stage'[c] = IF next = Len(text[c]) THEN "ok" ELSE "next"
      /\ cursor'[c] = next /\ peer' = peer /\ text' = text /\ conv' = conv
  BY <1>1 DEF Returned, TypeOK
<1>3. peer[c] \in Peers /\ text[c] \in Texts /\ cursor[c] < Len(text[c])
  BY <1>1, <1>2 DEF CallOK
<1>4. Own(c)' = Own(c) /\ \A i \in Own(c) : Piece(c, i)' = Piece(c, i)
  BY <1>2 DEF Own, Piece
<1>5. /\ cursor[c] \in Nat /\ cut \in Nat /\ Len(text[c]) \in Nat
      /\ cursor[c] < cut /\ cut <= Len(text[c])
  BY <1>1, <1>3, CallTypes, CutEnds
<1>6. /\ next \in Nat /\ cut <= next /\ next <= Len(text[c])
      /\ \A k \in cut .. next - 1 : BlankAt(text[c], k)
  BY <1>1, <1>5, CallTypes, SkipEnds
<1>7. PICK n \in Own(c) : IsLast(c, n)
  BY <1>1, <1>2 DEF CallOK
<1> HIDE DEF cut, next
<1>8. \A i \in Own(c) : Piece(c, i).hi <= next
  <2>1. Piece(c, n).hi = cut
    BY <1>7 DEF IsLast, cut
  <2>2. \A i \in Own(c) \ {n} : Piece(c, i).hi <= cursor[c] /\ Piece(c, i).hi \in Nat
    BY <1>1, <1>7, PieceTypes DEF IsLast
  <2> QED
    BY <1>5, <1>6, <2>1, <2>2
<1>9. CallOK(c)'
  BY <1>2, <1>3, <1>4, <1>6, <1>8 DEF CallOK
<1>10. Fits(c)' /\ InOrder(c)'
  BY <1>1, <1>2, <1>4 DEF Whole, Fits, InOrder
<1>11. ASSUME NEW k \in 0 .. next - 1
       PROVE  BlankAt(text[c], k) \/ \E i \in Own(c) : k \in Piece(c, i).lo .. Piece(c, i).hi - 1
  <2>1. CASE k < cursor[c]
    BY <1>1, <1>5, <2>1 DEF Whole, Complete
  <2>2. CASE k >= cursor[c] /\ k < cut
    <3>1. Piece(c, n).lo = cursor[c] /\ Piece(c, n).hi = cut
      BY <1>7 DEF IsLast, cut
    <3> QED
      BY <1>5, <2>2, <3>1
  <2>3. CASE k >= cut
    BY <1>5, <1>6, <2>3
  <2> QED
    BY <1>5, <2>1, <2>2, <2>3
<1>12. Complete(c)'
  BY <1>2, <1>4, <1>11 DEF Complete
<1> QED
  BY <1>4, <1>9, <1>10, <1>12 DEF Whole
LEMMA OtherStageCall ==
  ASSUME TypeOK, NEW c \in Calls, CallOK(c), Whole(c), stage[c] \in Active,
         \/ stage[c] = "next" /\ stage'[c] = "posting" /\ cursor[c] < Len(text[c])
         \/ stage'[c] = "failed",
         peer'[c] = peer[c], text'[c] = text[c], cursor'[c] = cursor[c], conv' = conv
  PROVE  CallOK(c)' /\ Whole(c)'
<1>1. Own(c)' = Own(c) /\ \A i \in Own(c) : Piece(c, i)' = Piece(c, i)
  BY DEF Own, Piece
<1>2. stage[c] # "idle"
  BY DEF Active
<1>3. CallOK(c)'
  BY <1>1, <1>2 DEF CallOK
<1> QED
  BY <1>1, <1>3 DEF Whole, Fits, InOrder, Complete

-----------------------------------------------------------------------------
(***************************************************************************)
(* The steps                                                               *)
(***************************************************************************)
LEMMA InitInvariant == Init => IInv
<1> SUFFICES ASSUME Init PROVE IInv
  OBVIOUS
<1>1. /\ <<>> \in Seq(Nat) /\ <<>> \in Seq(Messages) /\ <<>> \in Seq(Peers \X Nat)
      /\ Len(<<>>) = 0
  OBVIOUS
<1>2. TypeOK
  BY <1>1, SendAssumption DEF Init, TypeOK, Stages
<1>3. \A p \in Peers : conv[p] = <<>> /\ Len(conv[p]) = 0 /\ DOMAIN conv[p] = {}
  BY <1>1 DEF Init
<1>4. IsFiniteSet(Sent)
  <2>1. Sent = {}
    BY <1>3 DEF Sent
  <2> QED
    BY <2>1, FS_EmptySet
<1>5. IdsOK
  BY <1>3 DEF Init, IdsOK, Posting
<1>6. \A c \in Calls : Own(c) = {} /\ stage[c] = "idle" /\ cursor[c] = 0 /\ text[c] = <<>>
  BY DEF Init, Own
<1>7. CallsOK
  BY <1>1, <1>3, <1>6 DEF Init, CallsOK, CallOK
<1>8. SentWhole
  BY <1>6 DEF SentWhole, Fits, InOrder, Complete
<1> QED
  BY <1>2, <1>4, <1>5, <1>7, <1>8 DEF IInv

LEMMA RingTypes ==
  ASSUME TypeOK, NEW p \in Peers, NEW i \in Nat
  PROVE  Pushed(p, i) \in Seq(Peers \X Nat) /\ Len(Pushed(p, i)) <= RingLimit
<1> DEFINE longer == Append(ring, <<p, i>>)
<1>1. longer \in Seq(Peers \X Nat) /\ Len(longer) = Len(ring) + 1 /\ Len(ring) \in Nat
  BY DEF TypeOK
<1>2. longer # <<>>
  BY <1>1
<1>3. Tail(longer) \in Seq(Peers \X Nat) /\ Len(Tail(longer)) = Len(ring)
  BY <1>1, <1>2
<1> HIDE DEF longer
<1>4. Pushed(p, i) = IF Len(longer) > RingLimit THEN Tail(longer) ELSE longer
  BY DEF Pushed, longer
<1> QED
  BY <1>1, <1>3, <1>4, SendAssumption DEF TypeOK

LEMMA FailTypes ==
  ASSUME TypeOK, NEW failing \in SUBSET Calls, Fail(failing)
  PROVE  /\ stage' \in [Calls -> Stages]
         /\ randomId' \in [Calls -> Nat] /\ answer' \in [Calls -> Nat]
         /\ peer' = peer /\ text' = text /\ cursor' = cursor
BY DEF TypeOK, Fail, Stages

LEMMA NextTypes ==
  ASSUME IInv, [Next]_vars
  PROVE  TypeOK' /\ IsFiniteSet(Sent')
<1>0. TypeOK /\ IsFiniteSet(Sent)
  BY DEF IInv
<1>1. ASSUME NEW c \in Calls, Send(c) PROVE TypeOK' /\ conv' = conv
  BY <1>0, <1>1 DEF Send, TypeOK, Stages, idVars
<1>2. ASSUME NEW c \in Calls, Post(c) PROVE TypeOK' /\ conv' = conv
  <2>1. NextRandomId \in Nat /\ NextCounter \in 0 .. Modulus - 1
    BY <1>0, IdTypes, NextCounterIs DEF NextRandomId
  <2>2. burst' \in 0 .. Modulus
    BY <1>0, <1>2, IdTypes DEF Post
  <2> QED
    BY <1>0, <1>2, <2>1, <2>2 DEF Post, TypeOK, Stages
<1>3. ASSUME NEW c \in Calls, Deliver(c) PROVE TypeOK' /\ IsFiniteSet(Sent')
  <2>1. /\ peer[c] \in Peers /\ Message(c) \in Messages
        /\ conv' = [conv EXCEPT ![peer[c]] = Append(@, Message(c))]
        /\ answer' = [answer EXCEPT ![c] =
                         IF numeric THEN NewMessageId ELSE Len(conv[peer[c]]) + 1]
        /\ NewMessageId \in Nat
    BY <1>3, Delivered
  <2>2. conv' \in [Peers -> Seq(Messages)]
    BY <1>0, <2>1, OneMore
  <2>3. answer' \in [Calls -> Nat]
    BY <1>0, <2>1, InConversation DEF TypeOK
  <2>4. IsFiniteSet(Sent')
    BY <1>0, <2>1, SentGrows
  <2> QED
    BY <1>0, <1>3, <2>2, <2>3, <2>4 DEF Deliver, TypeOK, Stages, idVars
<1>4. ASSUME NEW c \in Calls, Returned(c) PROVE TypeOK' /\ conv' = conv
  <2> DEFINE next == Skip(text[c], Cut(text[c], cursor[c]))
  <2>1. /\ peer[c] \in Peers /\ cursor[c] < Len(text[c])
    BY <1>4 DEF IInv, CallsOK, CallOK, Returned
  <2>2. next \in Nat
    BY <1>0, <2>1, CallTypes, CutEnds, SkipEnds
  <2>3. answer[c] \in Nat
    BY <1>0 DEF TypeOK
  <2>4. ring' \in Seq(Peers \X Nat) /\ Len(ring') <= RingLimit
    BY <1>0, <1>4, <2>1, <2>3, RingTypes DEF Returned
  <2> HIDE DEF next
  <2>5. cursor' = [cursor EXCEPT ![c] = next]
    BY <1>4 DEF Returned, next
  <2>6. cursor' \in [Calls -> Nat]
    BY <1>0, <2>2, <2>3, <2>5 DEF TypeOK
  <2> QED
    BY <1>0, <1>4, <2>4, <2>6 DEF Returned, TypeOK, Stages, idVars
<1>5. ASSUME NEW c \in Calls, SendThrows(c) PROVE TypeOK' /\ conv' = conv
  <2>1. Fail({c}) /\ UNCHANGED <<idVars, ring, identity, conv, numeric>>
    BY <1>5 DEF SendThrows
  <2> QED
    BY <1>0, <2>1, FailTypes DEF TypeOK, idVars
<1>6. ASSUME NEW p \in Peers, Write(p) PROVE TypeOK' /\ IsFiniteSet(Sent')
  <2> DEFINE m == [by |-> Person, id |-> NewMessageId]
  <2>1. m \in Messages
    BY <1>0, NewId DEF Messages
  <2>2. conv' = [conv EXCEPT ![p] = Append(@, m)]
    BY <1>6 DEF Write
  <2>3. conv' \in [Peers -> Seq(Messages)] /\ IsFiniteSet(Sent')
    BY <1>0, <2>1, <2>2, OneMore, SentGrows
  <2> QED
    BY <1>0, <1>6, <2>3 DEF Write, TypeOK, callVars, idVars
<1>7. CASE Resolved
  BY <1>0, <1>7 DEF Resolved, TypeOK, callVars, idVars, Sent
<1>8. CASE Tick
  <2>1. burst' \in 0 .. Modulus /\ now' \in Nat
    BY <1>0, <1>8, IdTypes DEF Tick, TypeOK
  <2> QED
    BY <1>0, <1>8, <2>1 DEF Tick, TypeOK, callVars, Sent
<1>9. CASE Restart
  <2> DEFINE failing == {c \in Calls : stage[c] \in Active}
  <2>1. Fail(failing) /\ failing \in SUBSET Calls
    BY <1>9 DEF Restart
  <2> HIDE DEF failing
  <2>2. /\ stage' \in [Calls -> Stages]
        /\ randomId' \in [Calls -> Nat] /\ answer' \in [Calls -> Nat]
        /\ peer' = peer /\ text' = text /\ cursor' = cursor
    BY <1>0, <2>1, FailTypes
  <2>3. ring' = <<>> /\ <<>> \in Seq(Peers \X Nat) /\ Len(<<>>) <= RingLimit
    BY <1>9, SendAssumption DEF Restart
  <2>4. counter' \in 0 .. Modulus - 1 /\ burst' \in 0 .. Modulus /\ now' \in Nat
    BY <1>0, <1>9, IdTypes DEF Restart, TypeOK
  <2> QED
    BY <1>0, <1>9, <2>2, <2>3, <2>4 DEF Restart, TypeOK, Sent
<1>10. CASE UNCHANGED vars
  BY <1>0, <1>10 DEF vars, callVars, idVars, TypeOK, Sent
<1>11. conv' = conv => IsFiniteSet(Sent')
  BY <1>0 DEF Sent
<1> QED
  BY <1>1, <1>2, <1>3, <1>4, <1>5, <1>6, <1>7, <1>8, <1>9, <1>10, <1>11 DEF Next
LEMMA NextIds ==
  ASSUME IInv, TypeOK', [Next]_vars
  PROVE  IdsOK'
<1>0. /\ TypeOK /\ IdsOK
      /\ \A p \in Peers : Len(conv'[p]) \in Nat
      /\ \A c \in Calls : stage[c] \in Stages
  BY DEF IInv, TypeOK
<1>1. ASSUME now' = now, counter' = counter, burst' = burst
      PROVE  \A r \in Nat : IdOK(r) => IdOK(r)'
  BY <1>1 DEF IdOK, Drawn
<1>2. ASSUME conv' = conv, \A r \in Nat : IdOK(r) => IdOK(r)',
             \A c \in Calls : Posting(c)' => Posting(c) /\ randomId'[c] = randomId[c]
      PROVE  IdsOK'
  <2>1. Grows
    BY <1>0, <1>2, SameMessages
  <2>2. \A p \in Peers : Len(conv[p]) + 1 .. Len(conv'[p]) = {}
    BY <1>0, <1>2, InConversation
  <2> QED
    BY <1>0, <1>2, <2>1, <2>2, IdsKept, {} \in SUBSET Calls
<1>3. ASSUME NEW c \in Calls, Send(c) PROVE IdsOK'
  <2>1. \A d \in Calls : Posting(d)' => Posting(d) /\ randomId'[d] = randomId[d]
    BY <1>0, <1>3 DEF Send, Posting, TypeOK
  <2> QED
    BY <1>1, <1>2, <1>3, <2>1 DEF Send, idVars
<1>4. ASSUME NEW c \in Calls, Post(c) PROVE IdsOK'
  <2>1. /\ burst < Modulus /\ burst' = burst + 1 /\ counter' = NextCounter /\ now' = now
        /\ randomId' = [randomId EXCEPT ![c] = NextRandomId]
        /\ stage' = [stage EXCEPT ![c] = "posting"] /\ conv' = conv
    BY <1>4 DEF Post
  <2>2. \A r \in Nat : IdOK(r) => IdOK(r)' /\ r # NextRandomId
    BY <1>0, <2>1, Fresh, StaysDrawn
  <2>3. PICK new : new = NextRandomId
    OBVIOUS
  <2>4. new \in Nat /\ IdOK(new)'
    BY <1>0, <2>1, <2>3, NewIdDrawn
  <2>5. randomId'[c] = new /\ \A d \in Calls \ {c} : randomId'[d] = randomId[d]
    BY <1>0, <2>1, <2>3 DEF TypeOK
  <2>6. \A d \in Calls \ {c} : Posting(d)' => Posting(d)
    BY <1>0, <2>1 DEF TypeOK, Posting
  <2>7. \A d \in Calls \ {c} : Posting(d) => randomId[d] \in Nat /\ randomId[d] # new
    BY <1>0, <2>2, <2>3, IdTypes DEF IdsOK
  <2>8. \A p \in Peers : \A i \in 1 .. Len(conv[p]) : ByCall(p, i) =>
          conv[p][i].random \in Nat /\ conv[p][i].random # new
    BY <1>0, <2>2, <2>3, IdTypes DEF IdsOK
  <2>9. \A d \in Calls : Posting(d)' => IdOK(randomId[d])'
    <3> SUFFICES ASSUME NEW d \in Calls, Posting(d)', NEW r, r = randomId'[d]
                 PROVE  IdOK(r)'
      OBVIOUS
    <3>1. CASE d = c
      BY <2>4, <2>5, <3>1
    <3>2. CASE d # c
      BY <1>0, <2>2, <2>5, <2>6, <2>7, <3>2 DEF IdsOK
    <3> QED
      BY <3>1, <3>2
  <2>10. \A p \in Peers : \A i \in 1 .. Len(conv[p]) : ByCall(p, i) => IdOK(conv[p][i].random)'
    <3> SUFFICES ASSUME NEW p \in Peers, NEW i \in 1 .. Len(conv[p]), ByCall(p, i),
                        NEW r, r = conv[p][i].random
                 PROVE  IdOK(r)'
      BY <2>1
    <3> QED
      BY <1>0, <2>2, <2>8 DEF IdsOK
  <2>11. \A d, e \in Calls : Posting(d)' /\ Posting(e)' /\ randomId'[d] = randomId'[e] => d = e
    BY <1>0, <2>5, <2>6, <2>7 DEF IdsOK
  <2>12. \A d \in Calls : Posting(d)' =>
           \A p \in Peers : \A i \in 1 .. Len(conv[p]) :
             ByCall(p, i) => conv[p][i].random # randomId'[d]
    BY <1>0, <2>5, <2>6, <2>8 DEF IdsOK
  <2> QED
    BY <2>1, <2>9, <2>10, <2>11, <2>12 DEF IdsOK, ByCall
<1>5. ASSUME NEW c \in Calls, Deliver(c) PROVE IdsOK'
  <2>1. /\ peer[c] \in Peers /\ Message(c) \in Messages
        /\ conv' = [conv EXCEPT ![peer[c]] = Append(@, Message(c))]
    BY <1>5, Delivered
  <2>2. /\ Grows /\ \A p \in Peers \ {peer[c]} : conv'[p] = conv[p]
        /\ Len(conv'[peer[c]]) = Len(conv[peer[c]]) + 1
        /\ conv'[peer[c]][Len(conv[peer[c]]) + 1] = Message(c)
    BY <1>0, <2>1, OneMore
  <2>3. \A p \in Peers : \A i \in Len(conv[p]) + 1 .. Len(conv'[p]) :
          conv'[p][i].random = randomId[c]
    <3> SUFFICES ASSUME NEW p \in Peers, NEW i \in Len(conv[p]) + 1 .. Len(conv'[p])
                 PROVE  conv'[p][i].random = randomId[c]
      OBVIOUS
    <3>1. p = peer[c] /\ i = Len(conv[peer[c]]) + 1
      BY <1>0, <2>1, <2>2, InConversation
    <3> QED
      BY <2>2, <3>1 DEF Message
  <2>4. Posting(c) /\ \A d \in Calls : Posting(d)' => Posting(d) /\ d # c /\ randomId'[d] = randomId[d]
    BY <1>0, <1>5 DEF Deliver, Posting, TypeOK
  <2>5. \A r \in Nat : IdOK(r) => IdOK(r)'
    BY <1>1, <1>5 DEF Deliver, idVars
  <2> QED
    BY <1>0, <2>2, <2>3, <2>4, <2>5, IdsKept, {c} \in SUBSET Calls
<1>6. ASSUME NEW c \in Calls, Returned(c) PROVE IdsOK'
  <2>1. \A d \in Calls : Posting(d)' => Posting(d) /\ randomId'[d] = randomId[d]
    BY <1>0, <1>6 DEF Returned, Posting, TypeOK
  <2> QED
    BY <1>1, <1>2, <1>6, <2>1 DEF Returned, idVars
<1>7. ASSUME NEW c \in Calls, SendThrows(c) PROVE IdsOK'
  <2>1. \A d \in Calls : Posting(d)' => Posting(d) /\ randomId'[d] = randomId[d]
    BY <1>0, <1>7 DEF SendThrows, Fail, Posting, TypeOK
  <2> QED
    BY <1>1, <1>2, <1>7, <2>1 DEF SendThrows, idVars
<1>8. ASSUME NEW p \in Peers, Write(p) PROVE IdsOK'
  <2> DEFINE m == [by |-> Person, id |-> NewMessageId]
  <2>1. m \in Messages /\ conv' = [conv EXCEPT ![p] = Append(@, m)]
    BY <1>8, NewId DEF Messages, Write, IInv
  <2>2. /\ Grows /\ \A q \in Peers \ {p} : conv'[q] = conv[q]
        /\ Len(conv'[p]) = Len(conv[p]) + 1 /\ conv'[p][Len(conv[p]) + 1] = m
    BY <1>0, <2>1, OneMore
  <2>3. \A q \in Peers : \A i \in Len(conv[q]) + 1 .. Len(conv'[q]) : conv'[q][i].by = Person
    <3> SUFFICES ASSUME NEW q \in Peers, NEW i \in Len(conv[q]) + 1 .. Len(conv'[q])
                 PROVE  conv'[q][i].by = Person
      OBVIOUS
    <3>1. q = p /\ i = Len(conv[p]) + 1
      BY <1>0, <2>2, InConversation
    <3> QED
      BY <2>2, <3>1
  <2>4. \A d \in Calls : Posting(d)' => Posting(d) /\ randomId'[d] = randomId[d]
    BY <1>8 DEF Write, callVars, Posting
  <2>5. \A r \in Nat : IdOK(r) => IdOK(r)'
    BY <1>1, <1>8 DEF Write, idVars
  <2> QED
    BY <1>0, <2>2, <2>3, <2>4, <2>5, IdsKept, {} \in SUBSET Calls
<1>9. CASE Tick
  <2>1. \A r \in Nat : IdOK(r) => IdOK(r)'
    BY <1>0, <1>9, StaysOld DEF Tick
  <2> QED
    BY <1>2, <1>9, <2>1 DEF Tick, callVars, Posting
<1>10. CASE Restart
  <2>1. \A r \in Nat : IdOK(r) => IdOK(r)'
    BY <1>0, <1>10, StaysOld DEF Restart
  <2>2. \A c \in Calls : ~ Posting(c)'
    BY <1>10 DEF Restart, Fail, Active, Posting
  <2> QED
    BY <1>2, <1>10, <2>1, <2>2 DEF Restart
<1>11. CASE Resolved
  BY <1>1, <1>2, <1>11 DEF Resolved, callVars, idVars, Posting
<1>12. CASE UNCHANGED vars
  BY <1>1, <1>2, <1>12 DEF vars, callVars, idVars, Posting
<1> QED
  BY <1>3, <1>4, <1>5, <1>6, <1>7, <1>8, <1>9, <1>10, <1>11, <1>12 DEF Next
LEMMA NextCalls ==
  ASSUME IInv, TypeOK', [Next]_vars
  PROVE  CallsOK' /\ SentWhole'
<1>0. TypeOK /\ \A c \in Calls : CallOK(c) /\ Whole(c)
  BY DEF IInv, CallsOK, SentWhole, Whole
<1>1. SUFFICES ASSUME NEW c \in Calls PROVE CallOK(c)' /\ Whole(c)'
  BY DEF CallsOK, SentWhole, Whole
<1>2. ASSUME stage'[c] = stage[c], peer'[c] = peer[c], text'[c] = text[c], cursor'[c] = cursor[c],
             conv' = conv
      PROVE  CallOK(c)' /\ Whole(c)'
  <2>1. Grows /\ NoneBy({c})
    BY <1>0, <1>2, SameMessages DEF NoneBy
  <2> QED
    BY <1>0, <1>2, <2>1, CallKept
<1>3. ASSUME NEW d \in Calls, Send(d) PROVE CallOK(c)' /\ Whole(c)'
  <2>1. CASE c = d
    BY <1>0, <1>3, <2>1, SendCall
  <2>2. CASE c # d
    BY <1>0, <1>2, <1>3, <2>2 DEF Send, TypeOK
  <2> QED
    BY <2>1, <2>2
<1>4. ASSUME NEW d \in Calls, Post(d) PROVE CallOK(c)' /\ Whole(c)'
  <2>1. CASE c = d
    BY <1>0, <1>4, <2>1, OtherStageCall DEF Post, Active, TypeOK
  <2>2. CASE c # d
    BY <1>0, <1>2, <1>4, <2>2 DEF Post, TypeOK
  <2> QED
    BY <2>1, <2>2
<1>5. ASSUME NEW d \in Calls, Deliver(d) PROVE CallOK(c)' /\ Whole(c)'
  <2>1. CASE c = d
    BY <1>5, <2>1, DeliverCall, \E n : n = Len(conv[peer[d]]) + 1
  <2>2. CASE c # d
    <3>1. /\ peer[d] \in Peers /\ Message(d) \in Messages
          /\ conv' = [conv EXCEPT ![peer[d]] = Append(@, Message(d))]
      BY <1>5, Delivered
    <3>2. Message(d).by = d
      BY DEF Message
    <3>3. Grows /\ NoneBy(Calls \ {d})
      BY <1>0, <3>1, <3>2, OneMore
    <3>4. NoneBy({c})
      BY <2>2, <3>3 DEF NoneBy
    <3> QED
      BY <1>0, <1>5, <2>2, <3>3, <3>4, CallKept DEF Deliver, TypeOK
  <2> QED
    BY <2>1, <2>2
<1>6. ASSUME NEW d \in Calls, Returned(d) PROVE CallOK(c)' /\ Whole(c)'
  <2>1. CASE c = d
    BY <1>6, <2>1, ReturnedCall
  <2>2. CASE c # d
    BY <1>0, <1>2, <1>6, <2>2 DEF Returned, TypeOK
  <2> QED
    BY <2>1, <2>2
<1>7. ASSUME NEW d \in Calls, SendThrows(d) PROVE CallOK(c)' /\ Whole(c)'
  <2>1. CASE c = d
    BY <1>0, <1>7, <2>1, OtherStageCall DEF SendThrows, Fail, Active
  <2>2. CASE c # d
    BY <1>2, <1>7, <2>2 DEF SendThrows, Fail
  <2> QED
    BY <2>1, <2>2
<1>8. ASSUME NEW p \in Peers, Write(p) PROVE CallOK(c)' /\ Whole(c)'
  <2> DEFINE m == [by |-> Person, id |-> NewMessageId]
  <2>1. m \in Messages /\ conv' = [conv EXCEPT ![p] = Append(@, m)]
    BY <1>8, NewId DEF Messages, Write, IInv
  <2>2. Grows /\ NoneBy(Calls \ {m.by})
    BY <1>0, <2>1, OneMore
  <2>3. NoneBy({c})
    BY <2>2, SendAssumption DEF NoneBy
  <2> QED
    BY <1>0, <1>8, <2>2, <2>3, CallKept DEF Write, callVars
<1>9. CASE Tick \/ Resolved \/ UNCHANGED vars
  BY <1>2, <1>9 DEF Tick, Resolved, vars, callVars
<1>10. CASE Restart
  <2>1. CASE stage[c] \in Active
    BY <1>0, <1>10, <2>1, OtherStageCall DEF Restart, Fail
  <2>2. CASE stage[c] \notin Active
    BY <1>2, <1>10, <2>2 DEF Restart, Fail
  <2> QED
    BY <2>1, <2>2
<1> QED
  BY <1>3, <1>4, <1>5, <1>6, <1>7, <1>8, <1>9, <1>10 DEF Next

LEMMA NextInvariant == IInv /\ [Next]_vars => IInv'
BY NextTypes, NextIds, NextCalls DEF IInv

LEMMA Invariance == Spec => []IInv
BY InitInvariant, NextInvariant, PTL DEF Spec

(***************************************************************************)
(* The variables keep their types, and the ring its limit.                 *)
(***************************************************************************)
THEOREM TypeCorrect == Spec => []TypeOK
<1>1. IInv => TypeOK
  BY DEF IInv
<1> QED
  BY <1>1, Invariance, PTL

(***************************************************************************)
(* What a call has put into a conversation are pieces of its text, in      *)
(* order, with nothing but blanks missing, for any texts, lengths and      *)
(* numbers of calls, across failures and restarts and whichever answer VK  *)
(* gives (sendInternal, chunkText, nextRandomId).                          *)
(***************************************************************************)
THEOREM TextArrives == Spec => []SentWhole
<1>1. IInv => SentWhole
  BY DEF IInv
<1> QED
  BY <1>1, Invariance, PTL

-----------------------------------------------------------------------------
(***************************************************************************)
(* What the ring holds, where VK answers a send with the number in the     *)
(* conversation.                                                           *)
(***************************************************************************)
LEMMA InitAnswers == Init => AInv
<1> SUFFICES ASSUME Init PROVE AInv
  OBVIOUS
<1>1. Len(<<>>) = 0
  OBVIOUS
<1>2. RingOK
  BY <1>1 DEF Init, RingOK
<1>3. \A c \in Calls : AnswerOK(c)
  BY DEF Init, AnswerOK
<1> QED
  BY <1>2, <1>3, InitInvariant DEF AInv

LEMMA RingKept ==
  ASSUME TypeOK, TypeOK', RingOK, ring' = ring, Grows
  PROVE  RingOK'
<1> SUFFICES ASSUME NEW k \in 1 .. Len(ring)
             PROVE  \E p \in Peers : \E i \in 1 .. Len(conv'[p]) : ring[k] = <<p, i>> /\ ByCall(p, i)'
  BY DEF RingOK
<1>1. PICK p \in Peers : \E i \in 1 .. Len(conv[p]) : ring[k] = <<p, i>> /\ ByCall(p, i)
  BY DEF RingOK
<1>2. PICK i \in 1 .. Len(conv[p]) : ring[k] = <<p, i>> /\ ByCall(p, i)
  BY <1>1
<1>3. i \in 1 .. Len(conv'[p]) /\ conv'[p][i] = conv[p][i]
  BY DEF Grows, TypeOK
<1> QED
  BY <1>2, <1>3 DEF ByCall

LEMMA RingPushed ==
  ASSUME TypeOK, RingOK, NEW p \in Peers, NEW i \in 1 .. Len(conv[p]), ByCall(p, i),
         ring' = Pushed(p, i), conv' = conv
  PROVE  RingOK'
<1> DEFINE longer == Append(ring, <<p, i>>)
           Ours(x) == \E q \in Peers : \E j \in 1 .. Len(conv[q]) : x = <<q, j>> /\ ByCall(q, j)
<1>1. ring \in Seq(Peers \X Nat) /\ <<p, i>> \in Peers \X Nat
  BY DEF TypeOK
<1>2. \A k \in 1 .. Len(longer) : Ours(longer[k])
  <2>1. Ours(<<p, i>>) /\ \A k \in 1 .. Len(ring) : Ours(ring[k])
    BY DEF RingOK
  <2>2. \A k \in 1 .. Len(longer) :
          longer[k] = <<p, i>> \/ (k \in 1 .. Len(ring) /\ longer[k] = ring[k])
    BY <1>1
  <2> HIDE DEF longer, Ours
  <2> QED
    BY <2>1, <2>2
<1>3. longer \in Seq(Peers \X Nat) /\ longer # <<>>
  <2>1. longer \in Seq(Peers \X Nat) /\ Len(longer) = Len(ring) + 1 /\ Len(ring) \in Nat
    BY <1>1
  <2> QED
    BY <2>1
<1> HIDE DEF longer, Ours
<1>4. \A k \in 1 .. Len(Tail(longer)) : Tail(longer)[k] = longer[k + 1] /\ k + 1 \in 1 .. Len(longer)
  BY <1>3
<1>5. ring' = Tail(longer) \/ ring' = longer
  BY DEF Pushed, longer
<1>6. \A k \in 1 .. Len(ring') : Ours(ring'[k])
  BY <1>2, <1>4, <1>5
<1> QED
  BY <1>6 DEF RingOK, Ours, ByCall

LEMMA AnswerKept ==
  ASSUME TypeOK, TypeOK', NEW c \in Calls, CallOK(c), AnswerOK(c),
         stage'[c] = stage[c], peer'[c] = peer[c], answer'[c] = answer[c],
         Grows, NoneBy({c})
  PROVE  AnswerOK(c)'
<1> SUFFICES ASSUME stage[c] = "posted" PROVE answer[c] \in Own(c)'
  BY DEF AnswerOK
<1>1. peer[c] \in Peers
  BY DEF CallOK
<1> QED
  BY <1>1, OwnKept DEF AnswerOK

LEMMA NextAnswers ==
  ASSUME ~numeric, IInv, IInv', [Next]_vars, NEW c \in Calls, AnswerOK(c)
  PROVE  AnswerOK(c)'
<1>0. TypeOK /\ TypeOK' /\ IInv /\ CallOK(c)
  BY DEF IInv, CallsOK
<1>1. ASSUME stage'[c] = stage[c], peer'[c] = peer[c], answer'[c] = answer[c], conv' = conv
      PROVE  AnswerOK(c)'
  <2>1. Grows /\ NoneBy({c})
    BY <1>0, <1>1, SameMessages DEF NoneBy
  <2> QED
    BY <1>0, <1>1, <2>1, AnswerKept
<1>2. ASSUME stage'[c] # "posted" PROVE AnswerOK(c)'
  BY <1>2 DEF AnswerOK
<1>3. ASSUME NEW d \in Calls, Send(d) PROVE AnswerOK(c)'
  BY <1>0, <1>1, <1>2, <1>3 DEF Send, TypeOK
<1>4. ASSUME NEW d \in Calls, Post(d) PROVE AnswerOK(c)'
  BY <1>0, <1>1, <1>2, <1>4 DEF Post, TypeOK
<1>5. ASSUME NEW d \in Calls, Deliver(d) PROVE AnswerOK(c)'
  <2>1. CASE c = d
    <3>1. PICK n : n = Len(conv[peer[c]]) + 1
      OBVIOUS
    <3>2. Own(c)' = Own(c) \union {n}
      BY <1>0, <1>5, <2>1, <3>1, DeliverCall
    <3>3. answer'[c] = n
      BY <1>0, <1>5, <2>1, <3>1, Delivered DEF TypeOK
    <3> QED
      BY <3>2, <3>3 DEF AnswerOK
  <2>2. CASE c # d
    <3>1. /\ peer[d] \in Peers /\ Message(d) \in Messages
          /\ conv' = [conv EXCEPT ![peer[d]] = Append(@, Message(d))]
      BY <1>0, <1>5, Delivered
    <3>2. Message(d).by = d
      BY DEF Message
    <3>3. Grows /\ NoneBy(Calls \ {d})
      BY <1>0, <3>1, <3>2, OneMore
    <3>4. NoneBy({c})
      BY <2>2, <3>3 DEF NoneBy
    <3>5. answer'[c] = answer[c]
      BY <1>0, <1>5, <2>2 DEF Deliver, TypeOK
    <3> QED
      BY <1>0, <1>5, <2>2, <3>3, <3>4, <3>5, AnswerKept DEF Deliver, TypeOK
  <2> QED
    BY <2>1, <2>2
<1>6. ASSUME NEW d \in Calls, Returned(d) PROVE AnswerOK(c)'
  BY <1>0, <1>1, <1>2, <1>6 DEF Returned, TypeOK
<1>7. ASSUME NEW d \in Calls, SendThrows(d) PROVE AnswerOK(c)'
  BY <1>1, <1>2, <1>7 DEF SendThrows, Fail
<1>8. ASSUME NEW p \in Peers, Write(p) PROVE AnswerOK(c)'
  <2> DEFINE m == [by |-> Person, id |-> NewMessageId]
  <2>1. m \in Messages /\ conv' = [conv EXCEPT ![p] = Append(@, m)]
    BY <1>0, <1>8, NewId DEF Messages, Write, IInv
  <2>2. Grows /\ NoneBy(Calls \ {m.by})
    BY <1>0, <2>1, OneMore
  <2>3. NoneBy({c})
    BY <2>2, SendAssumption DEF NoneBy
  <2> QED
    BY <1>0, <1>8, <2>2, <2>3, AnswerKept DEF Write, callVars
<1>9. CASE Tick \/ Resolved \/ UNCHANGED vars
  BY <1>1, <1>9 DEF Tick, Resolved, vars, callVars
<1>10. CASE Restart
  BY <1>1, <1>2, <1>10 DEF Restart, Fail
<1> QED
  BY <1>3, <1>4, <1>5, <1>6, <1>7, <1>8, <1>9, <1>10 DEF Next

LEMMA NextRing ==
  ASSUME ~numeric, AInv, IInv', [Next]_vars
  PROVE  RingOK'
<1>0. TypeOK /\ TypeOK' /\ IInv /\ RingOK
  BY DEF AInv, IInv
<1>1. ASSUME ring' = ring, conv' = conv PROVE RingOK'
  BY <1>0, <1>1, SameMessages, RingKept
<1>2. ASSUME NEW c \in Calls, Send(c) \/ Post(c) \/ SendThrows(c) PROVE RingOK'
  BY <1>1, <1>2 DEF Send, Post, SendThrows
<1>3. ASSUME NEW c \in Calls, Deliver(c) PROVE RingOK'
  <2>1. /\ peer[c] \in Peers /\ Message(c) \in Messages
        /\ conv' = [conv EXCEPT ![peer[c]] = Append(@, Message(c))]
    BY <1>0, <1>3, Delivered
  <2>2. Grows
    BY <1>0, <2>1, OneMore
  <2> QED
    BY <1>0, <1>3, <2>2, RingKept DEF Deliver
<1>4. ASSUME NEW c \in Calls, Returned(c) PROVE RingOK'
  <2>1. stage[c] = "posted" /\ ring' = Pushed(peer[c], answer[c]) /\ conv' = conv
    BY <1>4 DEF Returned
  <2>2. AnswerOK(c) /\ CallOK(c)
    BY DEF AInv, IInv, CallsOK
  <2>3. peer[c] \in Peers /\ answer[c] \in Own(c)
    BY <2>1, <2>2 DEF CallOK, AnswerOK
  <2>4. answer[c] \in 1 .. Len(conv[peer[c]]) /\ conv[peer[c]][answer[c]].by = c
    BY <1>0, <2>3, OwnIs
  <2>5. ByCall(peer[c], answer[c])
    BY <2>4, SendAssumption DEF ByCall
  <2> QED
    BY <1>0, <2>1, <2>3, <2>4, <2>5, RingPushed
<1>5. ASSUME NEW p \in Peers, Write(p) PROVE RingOK'
  <2> DEFINE m == [by |-> Person, id |-> NewMessageId]
  <2>1. m \in Messages /\ conv' = [conv EXCEPT ![p] = Append(@, m)]
    BY <1>0, <1>5, NewId DEF Messages, Write, IInv
  <2>2. Grows
    BY <1>0, <2>1, OneMore
  <2> QED
    BY <1>0, <1>5, <2>2, RingKept DEF Write
<1>6. CASE Tick \/ Resolved \/ UNCHANGED vars
  BY <1>1, <1>6 DEF Tick, Resolved, vars
<1>7. CASE Restart
  <2>1. ring' = <<>> /\ 1 .. Len(<<>>) = {}
    BY <1>7 DEF Restart
  <2> QED
    BY <2>1 DEF RingOK
<1> QED
  BY <1>2, <1>3, <1>4, <1>5, <1>6, <1>7 DEF Next

LEMMA Answers == Spec => []AInv
<1>1. AInv /\ [Next]_vars => AInv'
  <2> SUFFICES ASSUME AInv, [Next]_vars PROVE AInv'
    OBVIOUS
  <2>1. IInv'
    BY NextInvariant DEF AInv
  <2>2. numeric' = numeric
    BY DEF Next, vars, Send, Post, Deliver, Returned, SendThrows, Write, Resolved, Tick, Restart
  <2>3. ASSUME ~numeric PROVE RingOK' /\ \A c \in Calls : AnswerOK(c)'
    BY <2>1, <2>3, NextRing, NextAnswers DEF AInv
  <2> QED
    BY <2>1, <2>2, <2>3 DEF AInv
<1> QED
  BY <1>1, InitAnswers, PTL DEF Spec

(***************************************************************************)
(* Where VK answers with the number in the conversation, the quote of a    *)
(* person's message is never taken for a reply to the bot, however many    *)
(* conversations there are and however small the ring is (isReplyToBot,    *)
(* RecentSentMessages).  Where it answers with the message_id alone the    *)
(* run message_numeric_id shows that it is.                                *)
(***************************************************************************)
THEOREM RepliesToldApart == Spec => []RepliesMatchPeer
<1>1. AInv => RepliesMatchPeer
  <2> SUFFICES ASSUME AInv, ~numeric, NEW p \in Peers, NEW i \in DOMAIN conv[p], ReplyToBot(p, i)
               PROVE  conv[p][i].by # Person
    BY DEF RepliesMatchPeer, NoStrangeReply
  <2>1. RingOK /\ DOMAIN ring = 1 .. Len(ring)
    BY DEF AInv, IInv, TypeOK
  <2>2. CASE \E k \in DOMAIN ring : ring[k] = <<p, i>>
    BY <2>1, <2>2 DEF RingOK, ByCall
  <2> QED
    BY <2>2 DEF ReplyToBot
<1> QED
  BY <1>1, Answers, PTL
==============================================================================
