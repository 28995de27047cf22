------------------------- MODULE AccessControlProofs -------------------------
(***************************************************************************)
(* Codes, pending groups, deny replies and admission of AccessControl, for *)
(* any numbers of people, groups, codes, calls, messages and reloads.      *)
(***************************************************************************)
EXTENDS AccessControl, TLAPS, SequenceTheorems

(***************************************************************************)
(* The inductive invariant.                                                *)
(*                                                                         *)
(* A job in the chain is there once, and one that has written is the       *)
(* chain's first (QueueOK).                                                *)
(***************************************************************************)
QueueOK ==
  /\ \A i \in DOMAIN queue : stage[queue[i]] \in {"queued", "written"}
  /\ \A i, k \in DOMAIN queue : queue[i] = queue[k] => i = k
  /\ \A j \in Jobs : stage[j] = "written" => queue # <<>> /\ Head(queue) = j

(***************************************************************************)
(* As long as no reload has put back what an update had replaced, what is  *)
(* served is what the file holds, but for one job that has written and not *)
(* published: it may have let in a group or filed its code (SyncOK).       *)
(***************************************************************************)
Wrote(j) ==
  /\ stage[j] = "written"
  /\ \A g \in Groups : stored.groups[g] # None /\ served.groups[g] = None =>
       j \in Requests /\ AdmitsGroup(j, g)
  /\ \A c \in Codes : stored.pairs[c] # None =>
       served.pairs[c] = stored.pairs[c] \/ (j \in Messages /\ code[j] = c)

SyncOK == ~reverted => served = stored \/ \E j \in Jobs : Wrote(j)

(***************************************************************************)
(* Every content that somebody holds files a code that has not expired     *)
(* under the DM it was emitted for (PairsOK).                              *)
(***************************************************************************)
PairsOK ==
  \A f \in Contents, c \in Codes :
    f.pairs[c] # None /\ emitted[c] # None => f.pairs[c] = emitted[c]

(***************************************************************************)
(* A code that has been emitted and not sent yet is no other message's,    *)
(* and until a reload has put something back nobody has been told of it    *)
(* before its update is published (CodesOK).                               *)
(***************************************************************************)
Emitting(m) == stage[m] \in {"queued", "written", "stored"}

CodesOK ==
  /\ \A m \in Messages : Emitting(m) =>
       /\ code[m] \in Codes /\ from[m] \in Dms
       /\ emitted[code[m]] \in {from[m], None}
  /\ \A m, n \in Messages : Emitting(m) /\ Emitting(n) /\ code[m] = code[n] => m = n
  /\ ~reverted =>
       \A m \in Messages : stage[m] \in {"queued", "written"} => told[code[m]] = None

(***************************************************************************)
(* A DM whose deny reply is on its way is noted, has had none, and no      *)
(* second reply is on its way to it (RepliesOK).                           *)
(***************************************************************************)
RepliesOK ==
  /\ \A d \in Dms : replies[d] <= 1 /\ (d \notin denied => replies[d] = 0)
  /\ \A m \in Messages : stage[m] = "denying" => from[m] \in denied /\ replies[from[m]] = 0
  /\ \A m, n \in Messages :
       stage[m] = "denying" /\ stage[n] = "denying" /\ from[m] = from[n] => m = n

IInv ==
  /\ TypeOK /\ QueueOK /\ SyncOK /\ PairsOK /\ NoStranger
  /\ CodesOK /\ ToldCodesWork /\ AllowedNotPending /\ RepliesOK

-----------------------------------------------------------------------------
(***************************************************************************)
(* What a call of each name carries.                                       *)
(***************************************************************************)
LEMMA OpFields ==
  ASSUME NEW o \in Ops
  PROVE  /\ o.name = "removeDm" => o.peer \in Dms
         /\ o.name \in {"removeGroup", "addSender", "removeSender", "addGroup", "setMentionPolicy"}
              => o.peer \in Groups
         /\ o.name \in {"addSender", "removeSender"} => o.user \in Users
         /\ o.name = "addGroup" => o.entry \in Entries
         /\ o.name = "setDmPolicy" => o.policy \in DmPolicies
         /\ o.name = "setMentionPolicy" => o.mention \in Mentions
         /\ o.name = "consume" => o.code \in Codes
BY DEF Ops

(***************************************************************************)
(* The registry without a group: the others, once each.                    *)
(***************************************************************************)
LEMMA WithoutProperties ==
  ASSUME TypeOK, NEW g
  PROVE  /\ Without(g) \in Seq(Groups)
         /\ Len(Without(g)) <= Len(dropped)
         /\ Listed(g) => Len(Without(g)) < Len(dropped)
         /\ \A k \in DOMAIN Without(g) : Without(g)[k] # g /\ Listed(Without(g)[k])
         /\ \A k, l \in DOMAIN Without(g) : Without(g)[k] = Without(g)[l] => k = l
<1>1. /\ dropped \in Seq(Groups)
      /\ \A i, j \in DOMAIN dropped : dropped[i] = dropped[j] => i = j
  BY DEF TypeOK
<1>2. CASE ~Listed(g)
  BY <1>1, <1>2 DEF Without, Listed
<1>3. CASE Listed(g)
  <2> DEFINE i == CHOOSE k \in DOMAIN dropped : dropped[k] = g
             n == Len(dropped)
             before == SubSeq(dropped, 1, i - 1)
             after == SubSeq(dropped, i + 1, n)
  <2>1. n \in Nat /\ i \in 1..n /\ dropped[i] = g
    BY <1>1, <1>3 DEF Listed
  <2>2. Without(g) = before \o after
    BY <1>3 DEF Without
  <2>3. before \in Seq(Groups) /\ Len(before) = i - 1
        /\ \A k \in 1..i - 1 : before[k] = dropped[k]
    <3>1. \A k \in 1..i - 1 : dropped[k] \in Groups
      BY <1>1, <2>1
    <3> QED
      BY <1>1, <2>1, <3>1, SubSeqProperties
  <2>4. after \in Seq(Groups) /\ Len(after) = n - i
        /\ \A k \in 1..n - i : after[k] = dropped[k + i]
    BY <1>1, <2>1, SubSeqProperties
  <2> HIDE DEF i, n, before, after
  <2>5. /\ Without(g) \in Seq(Groups)
        /\ Len(Without(g)) = n - 1
        /\ \A k \in 1..n - 1 : Without(g)[k] = IF k < i THEN dropped[k] ELSE dropped[k + 1]
    <3>1. /\ before \o after \in Seq(Groups)
          /\ Len(before \o after) = Len(before) + Len(after)
          /\ \A k \in 1..Len(before) + Len(after) : (before \o after)[k] =
               IF k <= Len(before) THEN before[k] ELSE after[k - Len(before)]
      BY <2>3, <2>4, ConcatProperties
    <3> QED
      BY <2>1, <2>2, <2>3, <2>4, <3>1
  <2>6. DOMAIN Without(g) = 1..n - 1
    BY <2>1, <2>5
  <2>7. DOMAIN dropped = 1..n
    BY <1>1 DEF n
  <2>8. ASSUME NEW k \in 1..n - 1
        PROVE  Without(g)[k] # g /\ Listed(Without(g)[k])
    <3>1. PICK h \in 1..n : h # i /\ Without(g)[k] = dropped[h]
      BY <2>1, <2>5
    <3> QED
      BY <1>1, <2>1, <2>7, <3>1 DEF Listed
  <2>9. ASSUME NEW k \in 1..n - 1, NEW l \in 1..n - 1, Without(g)[k] = Without(g)[l]
        PROVE  k = l
    <3> DEFINE at(x) == IF x < i THEN x ELSE x + 1
    <3>1. at(k) \in 1..n /\ at(l) \in 1..n /\ dropped[at(k)] = dropped[at(l)]
      BY <2>1, <2>5, <2>9
    <3>2. at(k) = at(l)
      BY <1>1, <2>7, <3>1
    <3> QED
      BY <2>1, <3>2
  <2>10. Len(Without(g)) < Len(dropped)
    BY <2>1, <2>5 DEF n
  <2> QED
    BY <2>1, <2>5, <2>6, <2>8, <2>9, <2>10 DEF n
<1> QED
  BY <1>2, <1>3

(***************************************************************************)
(* record: the registry keeps to its limit and holds no group twice, and   *)
(* what it holds is the group or was there.                                *)
(***************************************************************************)
LEMMA RecordedProperties ==
  ASSUME TypeOK, NEW g \in Groups
  PROVE  /\ Recorded(g) \in Seq(Groups)
         /\ Len(Recorded(g)) <= MaxEntries
         /\ \A k \in DOMAIN Recorded(g) : Recorded(g)[k] = g \/ Listed(Recorded(g)[k])
         /\ \A k, l \in DOMAIN Recorded(g) : Recorded(g)[k] = Recorded(g)[l] => k = l
<1> DEFINE rest == IF Listed(g) THEN Without(g)
                   ELSE IF Len(dropped) >= MaxEntries THEN Tail(dropped) ELSE dropped
<1>1. /\ dropped \in Seq(Groups) /\ Len(dropped) \in Nat /\ Len(dropped) <= MaxEntries
      /\ DOMAIN dropped = 1..Len(dropped)
      /\ \A i, j \in DOMAIN dropped : dropped[i] = dropped[j] => i = j
  BY DEF TypeOK
<1>2. MaxEntries \in Nat /\ MaxEntries > 0
  BY AccessAssumption
<1>3. Recorded(g) = Append(rest, g)
  BY DEF Recorded
<1>4. /\ rest \in Seq(Groups)
      /\ Len(rest) < MaxEntries
      /\ \A k \in DOMAIN rest : rest[k] # g /\ Listed(rest[k])
      /\ \A k, l \in DOMAIN rest : rest[k] = rest[l] => k = l
  <2>1. CASE Listed(g)
    <3>1. Len(Without(g)) \in Nat
      BY WithoutProperties
    <3> QED
      BY <1>1, <1>2, <2>1, <3>1, WithoutProperties
  <2>2. CASE ~Listed(g) /\ Len(dropped) < MaxEntries
    BY <1>1, <1>2, <2>2 DEF Listed
  <2>3. CASE ~Listed(g) /\ Len(dropped) >= MaxEntries
    <3>1. /\ rest = Tail(dropped) /\ rest \in Seq(Groups) /\ Len(rest) = Len(dropped) - 1
          /\ DOMAIN rest = 1..Len(dropped) - 1
          /\ \A k \in 1..Len(dropped) - 1 : rest[k] = dropped[k + 1]
      BY <1>1, <1>2, <2>3
    <3> HIDE DEF rest
    <3> QED
      BY <1>1, <1>2, <2>3, <3>1 DEF Listed
  <2> QED
    BY <1>1, <1>2, <2>1, <2>2, <2>3
<1> HIDE DEF rest
<1>5. /\ Recorded(g) \in Seq(Groups) /\ Len(Recorded(g)) = Len(rest) + 1
      /\ DOMAIN Recorded(g) = 1..Len(rest) + 1 /\ DOMAIN rest = 1..Len(rest)
      /\ \A k \in 1..Len(rest) : Recorded(g)[k] = rest[k]
      /\ Recorded(g)[Len(rest) + 1] = g /\ Len(rest) \in Nat
  BY <1>3, <1>4
<1> QED
  BY <1>2, <1>4, <1>5

-----------------------------------------------------------------------------
(***************************************************************************)
(* The promise chain.                                                      *)
(***************************************************************************)

\* While a job has its turn, no job has written.
LEMMA TurnProperties ==
  ASSUME TypeOK, QueueOK, NEW j, Turn(j)
  PROVE  /\ j \in Jobs /\ stage[j] = "queued"
         /\ \A k \in Jobs : stage[k] # "written"
BY DEF TypeOK, QueueOK, Turn

\* The first of the chain leaves it.
LEMMA LeaveProperties ==
  ASSUME TypeOK, QueueOK, NEW j \in Jobs, queue # <<>>, Head(queue) = j,
         queue' = Tail(queue), NEW s, s \notin {"queued", "written"},
         stage' = [stage EXCEPT ![j] = s]
  PROVE  queue' \in Seq(Jobs) /\ QueueOK'
<1>1. /\ queue \in Seq(Jobs) /\ Len(queue) \in Nat /\ queue[1] = j /\ 1 \in DOMAIN queue
      /\ stage' = [stage EXCEPT ![j] = s] /\ DOMAIN stage = Jobs
  BY DEF TypeOK
<1>2. /\ queue' \in Seq(Jobs) /\ DOMAIN queue' = 1..Len(queue) - 1
      /\ \A i \in 1..Len(queue) - 1 :
           queue'[i] = queue[i + 1] /\ i + 1 \in DOMAIN queue /\ i + 1 # 1
  BY <1>1
<1>3. \A i \in DOMAIN queue' : queue'[i] \in Jobs /\ queue'[i] # j
  BY <1>1, <1>2 DEF QueueOK
<1>4. \A k \in Jobs : stage'[k] # "written"
  BY <1>1 DEF QueueOK
<1> QED
  BY <1>1, <1>2, <1>3, <1>4 DEF QueueOK

\* A job that was in no chain is put last.
LEMMA EnqueueProperties ==
  ASSUME TypeOK, QueueOK, NEW j \in Jobs, stage[j] \notin {"queued", "written"}, Enqueue(j)
  PROVE  queue' \in Seq(Jobs) /\ QueueOK'
<1>1. /\ queue \in Seq(Jobs) /\ Len(queue) \in Nat /\ DOMAIN queue = 1..Len(queue)
      /\ queue' = Append(queue, j)
      /\ stage' = [stage EXCEPT ![j] = "queued"] /\ DOMAIN stage = Jobs
  BY DEF TypeOK, Enqueue
<1>2. /\ queue' \in Seq(Jobs) /\ DOMAIN queue' = 1..Len(queue) + 1
      /\ \A i \in 1..Len(queue) : queue'[i] = queue[i] /\ queue[i] \in Jobs
      /\ queue'[Len(queue) + 1] = j
  BY <1>1
<1>3. \A i \in 1..Len(queue) : queue[i] # j /\ stage'[queue[i]] \in {"queued", "written"}
  BY <1>1, <1>2 DEF QueueOK
<1>4. ASSUME NEW k \in Jobs, stage'[k] = "written"
      PROVE  queue' # <<>> /\ Head(queue') = k
  <2>1. stage[k] = "written" /\ queue # <<>> /\ queue[1] = k
    BY <1>1, <1>4 DEF QueueOK
  <2> QED
    BY <1>1, <1>2, <2>1
<1> QED
  BY <1>1, <1>2, <1>3, <1>4 DEF QueueOK

\* A step outside the chain.
LEMMA OutsideProperties ==
  ASSUME TypeOK, QueueOK, NEW j \in Jobs, NEW s,
         stage[j] \notin {"queued", "written"}, s \notin {"queued", "written"},
         stage' = [stage EXCEPT ![j] = s], queue' = queue
  PROVE  QueueOK'
BY DEF TypeOK, QueueOK

-----------------------------------------------------------------------------
(***************************************************************************)
(* Steps that leave the contents alone.                                    *)
(***************************************************************************)
LEMMA ContentsKept == UNCHANGED fileVars => Contents' = Contents
BY DEF fileVars, Contents

LEMMA SyncKept ==
  ASSUME SyncOK, UNCHANGED <<fileVars, reverted>>,
         \A j \in Jobs : stage[j] = "written" =>
           /\ stage'[j] = "written"
           /\ j \in Requests => op'[j] = op[j]
           /\ j \in Messages => code'[j] = code[j]
  PROVE  SyncOK'
BY DEF SyncOK, Wrote, AdmitsGroup, fileVars

LEMMA StrangersKept ==
  ASSUME NoStranger, UNCHANGED <<fileVars, admitted>>
  PROVE  NoStranger'
BY ContentsKept DEF NoStranger, Chats

LEMMA PairsKept ==
  ASSUME PairsOK, UNCHANGED fileVars,
         \A c \in Codes : \/ emitted'[c] \in {emitted[c], None}
                          \/ \A f \in Contents : f.pairs[c] = None
  PROVE  PairsOK'
BY ContentsKept DEF PairsOK

(***************************************************************************)
(* No group enters what is served or the registry, and every one that is   *)
(* being added still is.                                                   *)
(***************************************************************************)
LEMMA PendingKept ==
  ASSUME IInv, UNCHANGED <<served, dropped, reverted>>,
         \A g \in Groups : Adding(g) => Adding(g)'
  PROVE  AllowedNotPending'
<1> SUFFICES ASSUME ~reverted, NEW i \in DOMAIN dropped, served.groups[dropped[i]] # None
             PROVE  Adding(dropped[i])'
  BY DEF AllowedNotPending
<1>1. dropped[i] \in Groups
  BY DEF IInv, TypeOK
<1>2. Adding(dropped[i])
  BY <1>1 DEF IInv, AllowedNotPending
<1> QED
  BY <1>1, <1>2 DEF Adding

(***************************************************************************)
(* A step of an admin call that leaves the contents alone.                 *)
(***************************************************************************)
LEMMA AdminStep ==
  ASSUME IInv, NEW q \in Requests, NEW s, stage[q] # "written",
         stage' = [stage EXCEPT ![q] = s],
         \A r \in Requests \ {q} : op'[r] = op[r],
         UNCHANGED <<fileVars, emitted, from, code, denied, history>>
  PROVE  SyncOK' /\ PairsOK' /\ NoStranger' /\ CodesOK' /\ ToldCodesWork' /\ RepliesOK'
<1> USE DEF history
<1>1. \A j \in Jobs \ {q} : stage'[j] = stage[j]
  BY DEF IInv, TypeOK
<1>2. \A m \in Messages : m # q /\ stage'[m] = stage[m]
  BY <1>1, AccessAssumption DEF Jobs
<1>3. SyncOK'
  BY <1>1, SyncKept DEF IInv
<1>4. PairsOK' /\ NoStranger'
  BY PairsKept, StrangersKept DEF IInv
<1>5. CodesOK' /\ ToldCodesWork' /\ RepliesOK'
  BY <1>2 DEF IInv, CodesOK, Emitting, ToldCodesWork, RepliesOK, fileVars
<1> QED
  BY <1>3, <1>4, <1>5

(***************************************************************************)
(* A step of a message that leaves the contents alone.                     *)
(***************************************************************************)
LEMMA MessageStep ==
  ASSUME IInv, NEW m \in Messages, NEW s \in MessageStages, stage[m] # "written",
         stage' = [stage EXCEPT ![m] = s],
         \A n \in Messages \ {m} : code'[n] = code[n],
         UNCHANGED <<fileVars, op, admitted, reverted>>
  PROVE  /\ SyncOK' /\ NoStranger'
         /\ stage' \in [Jobs -> RequestStages \union MessageStages]
         /\ stage'[m] = s
         /\ \A n \in Messages \ {m} : stage'[n] = stage[n]
         /\ dropped' = dropped => AllowedNotPending'
         /\ \A g \in Groups : Adding(g) => Adding(g)'
<1>1. \A j \in Jobs \ {m} : stage'[j] = stage[j]
  BY DEF IInv, TypeOK
<1>2. \A q \in Requests : q # m /\ stage'[q] = stage[q]
  BY <1>1, AccessAssumption DEF Jobs
<1>3. SyncOK' /\ NoStranger'
  BY <1>1, SyncKept, StrangersKept DEF IInv
<1>4. \A g \in Groups : Adding(g) => Adding(g)'
  BY <1>2 DEF Adding
<1>5. dropped' = dropped => AllowedNotPending'
  BY <1>4, PendingKept DEF fileVars
<1> QED
  BY <1>1, <1>3, <1>4, <1>5 DEF Jobs, IInv, TypeOK

-----------------------------------------------------------------------------
(***************************************************************************)
(* Steps that change the contents.                                         *)
(***************************************************************************)

(***************************************************************************)
(* A job writes f: it brings in no group but one it is there to add, no    *)
(* code but its own, and drops no code that somebody has been told of,     *)
(* unless it is used.                                                      *)
(***************************************************************************)
LEMMA StoreKeeps ==
  ASSUME IInv, NEW j \in Jobs, NEW f \in File, Turn(j), Store(j, f),
         \A c \in Codes : f.pairs[c] # None =>
           \/ f.pairs[c] = served.pairs[c]
           \/ j \in Messages /\ code[j] = c /\ f.pairs[c] = from[j],
         \A c \in Codes : told'[c] # None /\ emitted[c] # None =>
           f.pairs[c] = served.pairs[c] \/ (j \in Messages /\ code[j] = c),
         \A g \in Groups : f.groups[g] # None /\ served.groups[g] = None =>
           j \in Requests /\ AdmitsGroup(j, g),
         Chats(f) \subseteq admitted', admitted \subseteq admitted',
         admitted' \subseteq Dms \union Groups,
         told' \in [Codes -> Dms \union {None}], \A c \in Codes : told'[c] \in {told[c], None},
         UNCHANGED <<emitted, queue, op, from, code, dropped, denied, replies, reverted>>
  PROVE  IInv'
<1>1. /\ stage[j] = "queued" /\ stage' = [stage EXCEPT ![j] = "written"]
      /\ \A k \in Jobs : stage[k] # "written"
      /\ stored' = f /\ UNCHANGED <<served, snapshot>>
      /\ stage \in [Jobs -> RequestStages \union MessageStages]
      /\ queue # <<>> /\ Head(queue) = j
  BY TurnProperties DEF IInv, TypeOK, Turn, Store
<1>2. TypeOK'
  BY <1>1 DEF IInv, TypeOK, RequestStages
<1>3. QueueOK'
  BY <1>1 DEF IInv, TypeOK, QueueOK
<1>4. \A g \in Contents' : g = f \/ g \in Contents
  BY <1>1 DEF Contents
<1>5. NoStranger'
  BY <1>4 DEF IInv, NoStranger, Chats
<1>6. PairsOK'
  <2> SUFFICES ASSUME NEW g \in Contents', NEW c \in Codes, g.pairs[c] # None, emitted[c] # None
               PROVE  g.pairs[c] = emitted[c]
    BY DEF PairsOK
  <2>1. CASE g \in Contents
    BY <2>1 DEF IInv, PairsOK
  <2>2. CASE g = f /\ f.pairs[c] = served.pairs[c]
    BY <2>2 DEF IInv, PairsOK, Contents
  <2>3. CASE g = f /\ j \in Messages /\ code[j] = c /\ f.pairs[c] = from[j]
    BY <1>1, <2>3 DEF IInv, CodesOK, Emitting
  <2> QED
    BY <1>4, <2>1, <2>2, <2>3
<1>7. SyncOK'
  <2>1. ASSUME ~reverted PROVE Wrote(j)'
    <3>1. stage'[j] = "written"
      BY <1>1
    <3> QED
      BY <1>1, <3>1 DEF Wrote, AdmitsGroup
  <2> QED
    BY <2>1 DEF SyncOK
<1>8. \A m \in Messages : Emitting(m)' <=> Emitting(m)
  BY <1>1 DEF Emitting, Jobs
<1>9. CodesOK'
  <2>1. \A m \in Messages : stage'[m] \in {"queued", "written"} <=> stage[m] \in {"queued", "written"}
    BY <1>1 DEF Jobs
  <2>2. ASSUME ~reverted, NEW m \in Messages, stage[m] \in {"queued", "written"}
        PROVE  told'[code[m]] = None
    <3>1. told[code[m]] = None /\ code[m] \in Codes
      BY <2>2 DEF IInv, CodesOK, Emitting
    <3> QED
      BY <3>1
  <2> QED
    BY <1>8, <2>1, <2>2 DEF IInv, CodesOK
<1>10. ToldCodesWork'
  <2> SUFFICES ASSUME ~reverted, NEW c \in Codes, told'[c] # None
               PROVE  emitted[c] = told'[c] /\ served.pairs[c] = told'[c] /\ f.pairs[c] = told'[c]
    BY <1>1 DEF ToldCodesWork
  <2>1. told'[c] = told[c] /\ told[c] # None
    OBVIOUS
  <2>2. emitted[c] = told[c] /\ served.pairs[c] = told[c]
    BY <2>1 DEF IInv, ToldCodesWork
  <2>3. ~(j \in Messages /\ code[j] = c)
    BY <1>1, <2>1 DEF IInv, CodesOK
  <2> QED
    BY <2>1, <2>2, <2>3
<1>11. AllowedNotPending'
  BY <1>1, PendingKept DEF Adding, Jobs
<1>12. RepliesOK'
  BY <1>1 DEF IInv, RepliesOK, Jobs
<1> QED
  BY <1>2, <1>3, <1>5, <1>6, <1>7, <1>9, <1>10, <1>11, <1>12 DEF IInv

(***************************************************************************)
(* What is held afterwards was held before.                                *)
(***************************************************************************)
LEMMA ContentsShrink ==
  ASSUME IInv, Contents' \subseteq Contents, UNCHANGED <<emitted, admitted>>
  PROVE  NoStranger' /\ PairsOK'
BY DEF IInv, NoStranger, PairsOK, Chats

(***************************************************************************)
(* A job publishes what it has written: a group that comes in is being     *)
(* added.                                                                  *)
(***************************************************************************)
LEMMA ServeKeeps ==
  ASSUME IInv, NEW j \in Jobs, NEW s \in {"stored", "ended"}, Serve(j),
         stage' = [stage EXCEPT ![j] = s],
         \/ op' = op /\ s = "stored"
         \/ j \in Requests /\ op[j].name # "addGroup" /\ op' = [op EXCEPT ![j] = None],
         UNCHANGED <<emitted, from, code, dropped, denied, history>>
  PROVE  IInv'
<1> USE DEF history
<1>1. /\ stage[j] = "written" /\ served' = stored /\ queue' = Tail(queue)
      /\ UNCHANGED <<stored, snapshot>>
      /\ stage \in [Jobs -> RequestStages \union MessageStages]
      /\ op \in [Requests -> Ops \union {None}]
      /\ served \in File /\ stored \in File
  BY DEF IInv, TypeOK, Serve
<1>2. queue # <<>> /\ Head(queue) = j /\ \A k \in Jobs : stage[k] = "written" => k = j
  BY <1>1 DEF IInv, QueueOK
<1>3. queue' \in Seq(Jobs) /\ QueueOK'
  BY <1>1, <1>2, LeaveProperties DEF IInv
<1>4. TypeOK'
  BY <1>1, <1>3 DEF IInv, TypeOK, RequestStages, MessageStages
<1>5. Contents' \subseteq Contents
  BY <1>1 DEF Contents
<1>6. NoStranger' /\ PairsOK'
  BY <1>5, ContentsShrink
<1>7. SyncOK'
  BY <1>1 DEF SyncOK
<1>8. CodesOK' /\ RepliesOK'
  BY <1>1 DEF IInv, CodesOK, Emitting, RepliesOK, Jobs
<1>9. ToldCodesWork'
  BY <1>1 DEF IInv, ToldCodesWork
<1>10. \A g \in Groups : Adding(g) => Adding(g)'
  <2> SUFFICES ASSUME NEW g \in Groups, NEW q \in Requests,
                      stage[q] \in {"written", "stored"}, op[q].name = "addGroup", op[q].peer = g
               PROVE  /\ stage'[q] \in {"written", "stored"}
                      /\ op'[q].name = "addGroup" /\ op'[q].peer = g
    BY DEF Adding
  <2> QED
    BY <1>1 DEF Jobs
<1>11. AllowedNotPending'
  <2> SUFFICES ASSUME ~reverted, NEW i \in DOMAIN dropped, stored.groups[dropped[i]] # None
               PROVE  Adding(dropped[i])'
    BY <1>1 DEF AllowedNotPending
  <2> DEFINE g == dropped[i]
  <2>1. g \in Groups
    BY DEF IInv, TypeOK
  <2>2. CASE served.groups[g] # None
    <3>1. Adding(g)
      BY <2>2 DEF IInv, AllowedNotPending
    <3> QED
      BY <1>10, <2>1, <3>1 DEF Adding
  <2>3. CASE served.groups[g] = None
    <3>1. Wrote(j)
      BY <1>2, <2>3 DEF IInv, SyncOK, Wrote
    <3>2. j \in Requests /\ AdmitsGroup(j, g)
      BY <2>1, <2>3, <3>1 DEF Wrote
    <3>3. Adding(g)
      BY <1>1, <3>2 DEF AdmitsGroup, Adding
    <3> QED
      BY <1>10, <2>1, <3>3 DEF Adding
  <2> QED
    BY <2>2, <2>3
<1> QED
  BY <1>3, <1>4, <1>6, <1>7, <1>8, <1>9, <1>11 DEF IInv

LEMMA ReloadReadKeeps ==
  ASSUME IInv, NEW r \in Reloads, ReloadRead(r)
  PROVE  IInv'
<1> USE DEF history
<1>1. /\ snapshot' = [snapshot EXCEPT ![r] = stored]
      /\ UNCHANGED <<served, stored, emitted, queue, op, stage, from, code, dropped, denied,
                     told, replies, admitted, reverted>>
  BY DEF ReloadRead
<1>2. TypeOK' /\ QueueOK'
  BY <1>1 DEF IInv, TypeOK, QueueOK
<1>3. Contents' \subseteq Contents
  BY <1>1 DEF Contents, IInv, TypeOK
<1>4. NoStranger' /\ PairsOK'
  BY <1>1, <1>3, ContentsShrink
<1>5. SyncOK' /\ CodesOK' /\ ToldCodesWork' /\ AllowedNotPending' /\ RepliesOK'
  BY <1>1 DEF IInv, SyncOK, Wrote, AdmitsGroup, CodesOK, Emitting, ToldCodesWork,
              AllowedNotPending, Adding, RepliesOK
<1> QED
  BY <1>2, <1>4, <1>5 DEF IInv

(***************************************************************************)
(* A reload serves what it has read: what was served already, what the     *)
(* file holds, or what an update has replaced.                             *)
(***************************************************************************)
LEMMA ReloadFinishKeeps ==
  ASSUME IInv, NEW r \in Reloads, ReloadFinish(r)
  PROVE  IInv'
<1>1. /\ snapshot[r] # None /\ served' = snapshot[r]
      /\ snapshot' = [snapshot EXCEPT ![r] = None]
      /\ UNCHANGED <<stored, emitted, queue, op, stage, from, code, dropped, denied,
                     told, replies, admitted>>
      /\ ~reverted' => ~reverted /\ served' \in {served, stored}
      /\ reverted' \in BOOLEAN
  BY DEF ReloadFinish, IInv, TypeOK
<1>2. TypeOK' /\ QueueOK'
  BY <1>1 DEF IInv, TypeOK, QueueOK
<1>3. Contents' \subseteq Contents
  BY <1>1 DEF Contents, IInv, TypeOK
<1>4. NoStranger' /\ PairsOK'
  BY <1>1, <1>3, ContentsShrink
<1>5. SyncOK'
  BY <1>1 DEF IInv, SyncOK, Wrote, AdmitsGroup
<1>6. CodesOK' /\ ToldCodesWork' /\ RepliesOK'
  BY <1>1 DEF IInv, CodesOK, Emitting, ToldCodesWork, RepliesOK
<1>7. AllowedNotPending'
  <2> SUFFICES ASSUME ~reverted, served' \in {served, stored}, NEW i \in DOMAIN dropped,
                      served'.groups[dropped[i]] # None
               PROVE  Adding(dropped[i])
    BY <1>1 DEF AllowedNotPending, Adding
  <2>1. dropped[i] \in Groups
    BY DEF IInv, TypeOK
  <2>2. CASE served.groups[dropped[i]] # None
    BY <2>2 DEF IInv, AllowedNotPending
  <2>3. CASE served.groups[dropped[i]] = None /\ stored.groups[dropped[i]] # None
    <3>1. PICK j \in Jobs : Wrote(j)
      BY <2>3 DEF IInv, SyncOK
    <3> QED
      BY <2>1, <2>3, <3>1 DEF Wrote, AdmitsGroup, Adding
  <2> QED
    BY <2>2, <2>3
<1> QED
  BY <1>2, <1>4, <1>5, <1>6, <1>7 DEF IInv

LEMMA RestartKeeps ==
  ASSUME IInv, Restart
  PROVE  IInv'
<1> DEFINE f == Swept(stored, Expired(stored))
<1>1. /\ stored' = f /\ served' = f /\ snapshot' = [r \in Reloads |-> None]
      /\ emitted' = [c \in Codes |-> IF stored.pairs[c] = None THEN None ELSE emitted[c]]
      /\ queue' = <<>> /\ dropped' = <<>> /\ denied' = {}
      /\ stage' = [j \in Jobs |-> IF stage[j] = "idle" THEN "idle" ELSE "ended"]
      /\ op' = [q \in Requests |-> None]
      /\ from' = [m \in Messages |-> None] /\ code' = [m \in Messages |-> None]
      /\ replies' = [d \in Dms |-> 0]
      /\ UNCHANGED <<told, admitted, reverted>>
  BY DEF Restart
<1>2. stored \in File /\ emitted \in [Codes -> Dms \union {None}]
  BY DEF IInv, TypeOK
<1>3. /\ f \in File /\ f.paired = stored.paired /\ f.groups = stored.groups
      /\ \A c \in Codes : f.pairs[c] = IF c \in Expired(stored) THEN None ELSE stored.pairs[c]
  BY <1>2 DEF Swept, File
<1> HIDE DEF f
<1>4. TypeOK'
  BY <1>1, <1>2, <1>3, AccessAssumption DEF IInv, TypeOK, RequestStages
<1>5. QueueOK' /\ SyncOK' /\ CodesOK' /\ AllowedNotPending' /\ RepliesOK'
  <2>1. \A j \in Jobs : stage'[j] \in {"idle", "ended"}
    BY <1>1
  <2>2. \A m \in Messages : stage'[m] \in {"idle", "ended"}
    BY <2>1 DEF Jobs
  <2> QED
    BY <1>1, <2>1, <2>2 DEF QueueOK, SyncOK, CodesOK, Emitting, AllowedNotPending, RepliesOK
<1>6. \A g \in Contents' : g = f
  BY <1>1 DEF Contents
<1>7. stored \in Contents
  BY DEF Contents
<1>8. NoStranger'
  BY <1>1, <1>3, <1>6, <1>7 DEF IInv, NoStranger, Chats
<1>9. PairsOK'
  BY <1>1, <1>3, <1>6, <1>7 DEF IInv, PairsOK
<1>10. ToldCodesWork'
  BY <1>1, <1>2, <1>3, AccessAssumption DEF IInv, TypeOK, ToldCodesWork, Expired
<1> QED
  BY <1>4, <1>5, <1>8, <1>9, <1>10 DEF IInv

-----------------------------------------------------------------------------
(***************************************************************************)
(* The admin calls.                                                        *)
(***************************************************************************)
LEMMA CallKeeps ==
  ASSUME IInv, NEW q \in Requests, NEW o \in Ops, Call(q, o)
  PROVE  IInv'
<1>1. /\ stage[q] = "idle" /\ op \in [Requests -> Ops \union {None}]
      /\ stage \in [Jobs -> RequestStages \union MessageStages]
      /\ UNCHANGED <<fileVars, emitted, from, code, dropped, denied, history>>
  BY DEF IInv, TypeOK, Call
<1>2. PICK s \in {"queued", "resolving", "ended"} :
        /\ stage' = [stage EXCEPT ![q] = s]
        /\ op' \in {[op EXCEPT ![q] = o], [op EXCEPT ![q] = None]}
        /\ queue' \in Seq(Jobs) /\ QueueOK'
  <2>1. CASE Enqueue(q) /\ op' = [op EXCEPT ![q] = o]
    BY <1>1, <2>1, EnqueueProperties DEF IInv, Enqueue, Jobs
  <2>2. CASE stage' = [stage EXCEPT ![q] = "resolving"] /\ op' = [op EXCEPT ![q] = o]
             /\ UNCHANGED queue
    BY <1>1, <2>2, OutsideProperties DEF IInv, TypeOK, Jobs
  <2>3. CASE Answer(q) /\ UNCHANGED queue
    BY <1>1, <2>3, OutsideProperties DEF IInv, TypeOK, Jobs, Answer
  <2> QED
    BY <2>1, <2>2, <2>3 DEF Call
<1>3. TypeOK'
  BY <1>1, <1>2 DEF IInv, TypeOK, RequestStages, fileVars, history
<1>4. SyncOK' /\ PairsOK' /\ NoStranger' /\ CodesOK' /\ ToldCodesWork' /\ RepliesOK'
  BY <1>1, <1>2, AdminStep
<1>5. AllowedNotPending'
  BY <1>1, <1>2, PendingKept DEF Adding, fileVars, history, Jobs
<1> QED
  BY <1>2, <1>3, <1>4, <1>5 DEF IInv

LEMMA ResolveKeeps ==
  ASSUME IInv, NEW q \in Requests, Resolve(q)
  PROVE  IInv'
<1>1. /\ stage[q] = "resolving" /\ op \in [Requests -> Ops \union {None}]
      /\ stage \in [Jobs -> RequestStages \union MessageStages]
      /\ UNCHANGED <<fileVars, emitted, from, code, dropped, denied, history>>
  BY DEF IInv, TypeOK, Resolve
<1>2. PICK s \in {"queued", "ended"} :
        /\ stage' = [stage EXCEPT ![q] = s]
        /\ op' \in {op, [op EXCEPT ![q] = None]}
        /\ queue' \in Seq(Jobs) /\ QueueOK'
  <2>1. CASE Enqueue(q) /\ UNCHANGED op
    BY <1>1, <2>1, EnqueueProperties DEF IInv, Enqueue, Jobs
  <2>2. CASE Answer(q) /\ UNCHANGED queue
    BY <1>1, <2>2, OutsideProperties DEF IInv, TypeOK, Jobs, Answer
  <2> QED
    BY <2>1, <2>2 DEF Resolve
<1>3. TypeOK'
  BY <1>1, <1>2 DEF IInv, TypeOK, RequestStages, fileVars, history
<1>4. SyncOK' /\ PairsOK' /\ NoStranger' /\ CodesOK' /\ ToldCodesWork' /\ RepliesOK'
  BY <1>1, <1>2, AdminStep
<1>5. AllowedNotPending'
  BY <1>1, <1>2, PendingKept DEF Adding, fileVars, history, Jobs
<1> QED
  BY <1>2, <1>3, <1>4, <1>5 DEF IInv

\* A content is a record of four fields; one that is edited is another.
LEMMA FileFields ==
  ASSUME NEW f \in File
  PROVE  /\ f.dmPolicy \in DmPolicies /\ f.paired \in SUBSET Dms
         /\ f.groups \in [Groups -> GroupEntry \union {None}]
         /\ f.pairs \in [Codes -> Dms \union {None}]
BY DEF File

(***************************************************************************)
(* An edit that lets nobody in and touches no code.                        *)
(***************************************************************************)
LEMMA EditKeeps ==
  ASSUME IInv, NEW q \in Requests, NEW f \in File, Turn(q), Store(q, f),
         f.pairs = served.pairs, f.paired \subseteq served.paired,
         \A g \in Groups : f.groups[g] # None => served.groups[g] # None,
         UNCHANGED <<emitted, queue, op, from, code, dropped, denied, history>>
  PROVE  IInv'
<1>1. TypeOK /\ UNCHANGED <<told, replies, admitted, reverted>>
  BY DEF IInv, history
<1>2. Chats(f) \subseteq admitted'
  BY <1>1 DEF IInv, NoStranger, Contents, Chats
<1> QED
  BY <1>1, <1>2, StoreKeeps DEF TypeOK, Jobs

LEMMA RemoveChatKeeps ==
  ASSUME IInv, NEW q \in Requests, RemoveChat(q)
  PROVE  IInv'
<1>1. /\ Turn(q) /\ op[q] \in Ops /\ served \in File
      /\ UNCHANGED <<emitted, queue, op, from, code, dropped, denied, history>>
  BY DEF RemoveChat, Does, IInv, TypeOK
<1>2. CASE op[q].name = "removeDm" /\ Store(q, [served EXCEPT !.paired = @ \ {op[q].peer}])
  <2> DEFINE f == [served EXCEPT !.paired = @ \ {op[q].peer}]
  <2>1. f \in File /\ f.pairs = served.pairs /\ f.paired \subseteq served.paired
        /\ f.groups = served.groups
    BY <1>1 DEF File
  <2> QED
    BY <1>1, <1>2, <2>1, EditKeeps
<1>3. CASE op[q].name = "removeGroup" /\ Store(q, [served EXCEPT !.groups[op[q].peer] = None])
  <2> DEFINE f == [served EXCEPT !.groups[op[q].peer] = None]
  <2>1. f \in File /\ f.pairs = served.pairs /\ f.paired = served.paired
        /\ \A g \in Groups : f.groups[g] # None => served.groups[g] # None
    BY <1>1 DEF File
  <2> QED
    BY <1>1, <1>3, <2>1, EditKeeps
<1> QED
  BY <1>2, <1>3 DEF RemoveChat, Does

(***************************************************************************)
(* An edit of a group that has gone changes nothing.                       *)
(***************************************************************************)
LEMMA EditedProperties ==
  ASSUME served \in File, NEW g \in Groups, NEW entry,
         served.groups[g] # None => entry \in GroupEntry
  PROVE  LET f == Edited(g, entry) IN
         /\ f \in File /\ f.pairs = served.pairs /\ f.paired = served.paired
         /\ \A h \in Groups : f.groups[h] # None => served.groups[h] # None
BY DEF Edited, File

LEMMA EditGroupKeeps ==
  ASSUME IInv, NEW q \in Requests, NEW g \in Groups, NEW entry, Turn(q),
         Store(q, Edited(g, entry)), served.groups[g] # None => entry \in GroupEntry,
         UNCHANGED <<emitted, queue, op, from, code, dropped, denied, history>>
  PROVE  IInv'
<1>1. served \in File
  BY DEF IInv, TypeOK
<1> DEFINE f == Edited(g, entry)
<1>2. /\ f \in File /\ f.pairs = served.pairs /\ f.paired = served.paired
      /\ \A h \in Groups : f.groups[h] # None => served.groups[h] # None
  BY <1>1, EditedProperties
<1> QED
  BY <1>2, EditKeeps

LEMMA EditSendersKeeps ==
  ASSUME IInv, NEW q \in Requests, EditSenders(q)
  PROVE  IInv'
<1> DEFINE g == op[q].peer
           entry == served.groups[g]
<1>1. /\ Turn(q) /\ op[q] \in Ops /\ op[q].name \in {"addSender", "removeSender"}
      /\ served \in File
      /\ UNCHANGED <<emitted, queue, op, from, code, dropped, denied, history>>
  BY DEF EditSenders, Does, IInv, TypeOK
<1>2. g \in Groups /\ op[q].user \in Users
  BY <1>1, OpFields
<1>3. ASSUME entry # None
      PROVE  /\ [entry EXCEPT !.senders = @ \union {op[q].user}] \in GroupEntry
             /\ [entry EXCEPT !.senders = @ \ {op[q].user}] \in GroupEntry
  <2>1. entry \in GroupEntry
    BY <1>1, <1>2, <1>3, FileFields
  <2> QED
    BY <1>2, <2>1 DEF GroupEntry
<1>4. CASE Store(q, Edited(g, [entry EXCEPT !.senders = @ \union {op[q].user}]))
  BY <1>1, <1>2, <1>3, <1>4, EditGroupKeeps
<1>5. CASE Store(q, Edited(g, [entry EXCEPT !.senders = @ \ {op[q].user}]))
  BY <1>1, <1>2, <1>3, <1>5, EditGroupKeeps
<1> QED
  BY <1>4, <1>5 DEF EditSenders

LEMMA SetMentionPolicyKeeps ==
  ASSUME IInv, NEW q \in Requests, SetMentionPolicy(q)
  PROVE  IInv'
<1> DEFINE g == op[q].peer
           entry == [served.groups[g] EXCEPT !.mention = op[q].mention]
<1>1. /\ Turn(q) /\ op[q] \in Ops /\ op[q].name = "setMentionPolicy"
      /\ served \in File /\ Store(q, Edited(g, entry))
      /\ UNCHANGED <<emitted, queue, op, from, code, dropped, denied, history>>
  BY DEF SetMentionPolicy, Does, IInv, TypeOK
<1>2. g \in Groups /\ op[q].mention \in Mentions
  BY <1>1, OpFields
<1>3. ASSUME served.groups[g] # None PROVE entry \in GroupEntry
  <2>1. served.groups[g] \in GroupEntry
    BY <1>1, <1>2, <1>3, FileFields
  <2> QED
    BY <1>2, <2>1 DEF GroupEntry
<1> QED
  BY <1>1, <1>2, <1>3, EditGroupKeeps

LEMMA SetDmPolicyKeeps ==
  ASSUME IInv, NEW q \in Requests, SetDmPolicy(q)
  PROVE  IInv'
<1> DEFINE f == [served EXCEPT !.dmPolicy = op[q].policy]
<1>1. /\ Turn(q) /\ op[q] \in Ops /\ op[q].name = "setDmPolicy" /\ served \in File
      /\ Store(q, f)
      /\ UNCHANGED <<emitted, queue, op, from, code, dropped, denied, history>>
  BY DEF SetDmPolicy, Does, IInv, TypeOK
<1>2. op[q].policy \in DmPolicies
  BY <1>1, OpFields
<1>3. f \in File /\ f.pairs = served.pairs /\ f.paired = served.paired /\ f.groups = served.groups
  BY <1>1, <1>2 DEF File
<1> QED
  BY <1>1, <1>3, EditKeeps

LEMMA AddGroupKeeps ==
  ASSUME IInv, NEW q \in Requests, AddGroup(q)
  PROVE  IInv'
<1> DEFINE f == [served EXCEPT !.groups[op[q].peer] = op[q].entry]
<1>1. /\ Turn(q) /\ op[q] # None /\ op[q] \in Ops /\ op[q].name = "addGroup"
      /\ Store(q, f) /\ admitted' = admitted \union {op[q].peer}
      /\ UNCHANGED <<emitted, queue, op, from, code, dropped, denied, told, replies, reverted>>
      /\ TypeOK /\ served \in File
  BY DEF AddGroup, Does, IInv, TypeOK
<1>2. op[q].peer \in Groups /\ op[q].entry \in GroupEntry
  BY <1>1, OpFields, AccessAssumption
<1>3. /\ f \in File /\ f.pairs = served.pairs /\ f.paired = served.paired
      /\ \A g \in Groups : g # op[q].peer => f.groups[g] = served.groups[g]
  BY <1>1, <1>2 DEF File
<1>4. Chats(f) \subseteq admitted'
  BY <1>1, <1>3 DEF IInv, NoStranger, Contents, Chats
<1>5. \A g \in Groups : f.groups[g] # None /\ served.groups[g] = None => AdmitsGroup(q, g)
  BY <1>1, <1>3 DEF AdmitsGroup
<1> HIDE DEF f
<1> QED
  BY <1>1, <1>2, <1>3, <1>4, <1>5, StoreKeeps DEF TypeOK, Jobs

(***************************************************************************)
(* The use of a code lets in the DM it was emitted for.                    *)
(***************************************************************************)
LEMMA ConsumeKeeps ==
  ASSUME IInv, NEW q \in Requests, Consume(q)
  PROVE  IInv'
<1> DEFINE c == op[q].code
           f == Swept(served, Expired(served))
<1>1. /\ Turn(q) /\ op[q] \in Ops /\ op[q].name = "consume" /\ served \in File /\ TypeOK
      /\ UNCHANGED <<emitted, queue, op, from, code, dropped, denied, replies, reverted>>
  BY DEF Consume, Does, IInv, TypeOK
<1>2. c \in Codes
  BY <1>1, OpFields
<1>3. /\ f \in File /\ f.paired = served.paired /\ f.groups = served.groups
      /\ \A d \in Codes : f.pairs[d] = IF d \in Expired(served) THEN None ELSE served.pairs[d]
  BY <1>1 DEF Swept, File
<1>4. Chats(f) \subseteq admitted
  BY <1>3 DEF IInv, NoStranger, Contents, Chats
<1>5. CASE /\ Usable(c)
           /\ Store(q, [f EXCEPT !.paired = @ \union {served.pairs[c]}, !.pairs[c] = None])
           /\ told' = [told EXCEPT ![c] = None]
           /\ admitted' = admitted \union {d \in Dms : emitted[c] = d}
  <2> DEFINE h == [f EXCEPT !.paired = @ \union {served.pairs[c]}, !.pairs[c] = None]
  <2>1. served.pairs[c] \in Dms /\ emitted[c] = served.pairs[c]
    BY <1>1, <1>2, <1>5, FileFields DEF Usable, IInv, PairsOK, Contents
  <2>2. /\ h \in File /\ h.paired = f.paired \union {served.pairs[c]} /\ h.groups = f.groups
        /\ \A d \in Codes : h.pairs[d] = IF d = c THEN None ELSE f.pairs[d]
    BY <1>2, <1>3, <2>1 DEF File
  <2>3. Chats(h) \subseteq admitted'
    BY <1>4, <1>5, <2>1, <2>2 DEF Chats
  <2>4. /\ told' \in [Codes -> Dms \union {None}]
        /\ \A d \in Codes : told'[d] \in {told[d], None}
        /\ told'[c] = None
    BY <1>1, <1>2, <1>5 DEF TypeOK
  <2>5. \A d \in Codes : told'[d] # None /\ emitted[d] # None => h.pairs[d] = served.pairs[d]
    BY <1>3, <2>2, <2>4 DEF Expired
  <2>6. \A d \in Codes : h.pairs[d] # None => h.pairs[d] = served.pairs[d]
    BY <1>3, <2>2
  <2>7. Store(q, h) /\ admitted \subseteq admitted' /\ admitted' \subseteq Dms \union Groups
    BY <1>1, <1>5 DEF TypeOK
  <2>8. \A g \in Groups : h.groups[g] # None => served.groups[g] # None
    BY <1>3, <2>2
  <2> HIDE DEF h, f
  <2> QED
    BY <1>1, <2>2, <2>3, <2>4, <2>5, <2>6, <2>7, <2>8, StoreKeeps DEF Jobs
<1>6. CASE Store(q, f) /\ UNCHANGED <<told, admitted>>
  <2>1. \A d \in Codes : f.pairs[d] # None => f.pairs[d] = served.pairs[d]
    BY <1>3
  <2>2. \A d \in Codes : told'[d] # None /\ emitted[d] # None => f.pairs[d] = served.pairs[d]
    BY <1>3 DEF Expired
  <2> HIDE DEF f
  <2> QED
    BY <1>1, <1>3, <1>4, <1>6, <2>1, <2>2, StoreKeeps DEF TypeOK, Jobs
<1> QED
  BY <1>5, <1>6 DEF Consume

LEMMA PublishKeeps ==
  ASSUME IInv, NEW q \in Requests, Publish(q)
  PROVE  IInv'
<1>1. /\ Serve(q) /\ UNCHANGED <<emitted, from, code, dropped, denied, history>>
      /\ q \in Jobs
  BY DEF Publish, Jobs
<1>2. CASE op' = op /\ stage' = [stage EXCEPT ![q] = "stored"]
  BY <1>1, <1>2, ServeKeeps
<1>3. CASE op[q].name # "addGroup" /\ Answer(q)
  BY <1>1, <1>3, ServeKeeps DEF Answer
<1> QED
  BY <1>2, <1>3 DEF Publish

LEMMA ForgetGroupKeeps ==
  ASSUME IInv, NEW q \in Requests, ForgetGroup(q)
  PROVE  IInv'
<1>1. /\ TypeOK /\ QueueOK /\ stage[q] = "stored" /\ q \in Jobs
      /\ stage' = [stage EXCEPT ![q] = "ended"] /\ op' = [op EXCEPT ![q] = None]
      /\ dropped' = Without(op[q].peer)
      /\ UNCHANGED <<fileVars, emitted, queue, from, code, denied, history>>
  BY DEF IInv, ForgetGroup, Answer, Jobs
<1>2. /\ dropped' \in Seq(Groups) /\ Len(dropped') <= Len(dropped) /\ Len(dropped') \in Nat
      /\ \A k \in DOMAIN dropped' : dropped'[k] # op[q].peer /\ Listed(dropped'[k])
      /\ \A k, l \in DOMAIN dropped' : dropped'[k] = dropped'[l] => k = l
  BY <1>1, WithoutProperties
<1>3. Len(dropped') <= MaxEntries
  BY <1>1, <1>2, AccessAssumption DEF TypeOK
<1>4. TypeOK'
  BY <1>1, <1>2, <1>3 DEF TypeOK, RequestStages, fileVars, history
<1>5. QueueOK'
  BY <1>1, OutsideProperties
<1>6. SyncOK' /\ PairsOK' /\ NoStranger' /\ CodesOK' /\ ToldCodesWork' /\ RepliesOK'
  <2>1. \A r \in Requests \ {q} : op'[r] = op[r]
    BY <1>1 DEF TypeOK
  <2> QED
    BY <1>1, <2>1, AdminStep
<1>7. AllowedNotPending'
  <2> SUFFICES ASSUME ~reverted, NEW k \in DOMAIN dropped', served.groups[dropped'[k]] # None
               PROVE  \E r \in Requests : /\ stage'[r] \in {"written", "stored"}
                                          /\ op'[r].name = "addGroup" /\ op'[r].peer = dropped'[k]
    BY <1>1 DEF AllowedNotPending, Adding, fileVars, history
  <2>1. PICK i \in DOMAIN dropped : dropped[i] = dropped'[k]
    BY <1>2 DEF Listed
  <2>2. PICK r \in Requests : /\ stage[r] \in {"written", "stored"}
                              /\ op[r].name = "addGroup" /\ op[r].peer = dropped[i]
    BY <2>1 DEF IInv, AllowedNotPending, Adding
  <2>3. r # q
    BY <1>2, <2>1, <2>2
  <2>4. stage'[r] = stage[r] /\ op'[r] = op[r]
    BY <1>1, <2>3 DEF TypeOK, Jobs
  <2> QED
    BY <2>1, <2>2, <2>4
<1> QED
  BY <1>4, <1>5, <1>6, <1>7 DEF IInv

-----------------------------------------------------------------------------
(***************************************************************************)
(* The messages.                                                           *)
(***************************************************************************)
LEMMA StoreCodeKeeps ==
  ASSUME IInv, NEW m \in Messages, StoreCode(m)
  PROVE  IInv'
<1>1. /\ Turn(m) /\ TypeOK /\ served \in File /\ stage[m] = "queued" /\ m \in Jobs
      /\ UNCHANGED <<emitted, queue, op, from, code, dropped, denied, told, replies, admitted,
                     reverted>>
  BY TurnProperties DEF StoreCode, history, IInv, TypeOK, Jobs
<1>2. code[m] \in Codes /\ from[m] \in Dms
  BY <1>1 DEF IInv, CodesOK, Emitting
<1>3. PICK gone \in SUBSET Expired(served) :
        Store(m, [Swept(served, gone) EXCEPT !.pairs[code[m]] = from[m]])
  BY DEF StoreCode
<1> DEFINE f == [Swept(served, gone) EXCEPT !.pairs[code[m]] = from[m]]
<1>4. /\ f \in File /\ f.paired = served.paired /\ f.groups = served.groups
      /\ \A c \in Codes : f.pairs[c] = IF c = code[m] THEN from[m]
                                       ELSE IF c \in gone THEN None ELSE served.pairs[c]
  BY <1>1, <1>2 DEF Swept, File
<1>5. Chats(f) \subseteq admitted
  BY <1>4 DEF IInv, NoStranger, Contents, Chats
<1>6. \A c \in Codes : told'[c] # None /\ emitted[c] # None =>
        f.pairs[c] = served.pairs[c] \/ code[m] = c
  BY <1>3, <1>4 DEF Expired
<1>7. \A c \in Codes : f.pairs[c] # None =>
        f.pairs[c] = served.pairs[c] \/ (code[m] = c /\ f.pairs[c] = from[m])
  BY <1>4
<1>8. Store(m, f)
  BY <1>3
<1>9. \A g \in Groups : f.groups[g] # None => served.groups[g] # None
  BY <1>4
<1>10. /\ told' \in [Codes -> Dms \union {None}] /\ admitted' \subseteq Dms \union Groups
       /\ told' = told /\ admitted' = admitted
  BY <1>1 DEF TypeOK
<1> HIDE DEF f
<1> QED
  BY <1>1, <1>4, <1>5, <1>6, <1>7, <1>8, <1>9, <1>10, StoreKeeps

LEMMA PublishCodeKeeps ==
  ASSUME IInv, NEW m \in Messages, PublishCode(m)
  PROVE  IInv'
BY ServeKeeps DEF PublishCode, Jobs

(***************************************************************************)
(* No code is emitted and none is told: what is known of each holds.       *)
(***************************************************************************)
LEMMA CodesKept ==
  ASSUME IInv, UNCHANGED <<fileVars, told, reverted>>,
         \A n \in Messages : Emitting(n)' =>
           stage'[n] = stage[n] /\ code'[n] = code[n] /\ from'[n] = from[n],
         \A c \in Codes : emitted'[c] \in {emitted[c], None},
         ~reverted => \A c \in Codes : told[c] # None => emitted'[c] = emitted[c]
  PROVE  PairsOK' /\ CodesOK' /\ ToldCodesWork'
<1>1. PairsOK'
  BY PairsKept DEF IInv
<1>2. ToldCodesWork'
  BY DEF IInv, ToldCodesWork, fileVars
<1>3. ASSUME NEW n \in Messages, Emitting(n)'
      PROVE  Emitting(n) /\ code'[n] = code[n] /\ from'[n] = from[n] /\ stage'[n] = stage[n]
  BY <1>3 DEF Emitting
<1>4. \A n \in Messages : Emitting(n)' =>
        code'[n] \in Codes /\ from'[n] \in Dms /\ emitted'[code'[n]] \in {from'[n], None}
  BY <1>3 DEF IInv, CodesOK
<1>5. \A n, o \in Messages : Emitting(n)' /\ Emitting(o)' /\ code'[n] = code'[o] => n = o
  BY <1>3 DEF IInv, CodesOK
<1>6. ASSUME ~reverted, NEW n \in Messages, stage'[n] \in {"queued", "written"}
      PROVE  told[code'[n]] = None
  BY <1>3, <1>6 DEF IInv, CodesOK, Emitting
<1>7. CodesOK'
  BY <1>4, <1>5, <1>6 DEF CodesOK
<1> QED
  BY <1>1, <1>2, <1>7

LEMMA TellCodeKeeps ==
  ASSUME IInv, NEW m \in Messages, TellCode(m)
  PROVE  IInv'
<1>1. /\ TypeOK /\ QueueOK /\ stage[m] = "stored" /\ m \in Jobs
      /\ stage' = [stage EXCEPT ![m] = "ended"]
      /\ from' = [from EXCEPT ![m] = None] /\ code' = [code EXCEPT ![m] = None]
      /\ UNCHANGED <<fileVars, emitted, queue, op, dropped, denied, replies, admitted, reverted>>
  BY DEF IInv, TellCode, Tellable, End, Jobs
<1>2. code[m] \in Codes /\ from[m] \in Dms /\ emitted[code[m]] \in {from[m], None}
  BY <1>1 DEF IInv, CodesOK, Emitting
<1>3. \/ told' = told
      \/ /\ emitted[code[m]] # None /\ stored.pairs[code[m]] # None
         /\ told' = [told EXCEPT ![code[m]] = from[m]]
  BY DEF TellCode
<1>4. /\ SyncOK' /\ NoStranger' /\ AllowedNotPending'
      /\ stage' \in [Jobs -> RequestStages \union MessageStages]
      /\ stage'[m] = "ended"
      /\ \A n \in Messages \ {m} :
           stage'[n] = stage[n] /\ code'[n] = code[n] /\ from'[n] = from[n]
  <2>1. \A n \in Messages \ {m} : code'[n] = code[n] /\ from'[n] = from[n]
    BY <1>1 DEF TypeOK
  <2>2. UNCHANGED <<fileVars, op, admitted, reverted>> /\ dropped' = dropped
    BY <1>1
  <2> QED
    BY <1>1, <2>1, <2>2, MessageStep DEF MessageStages
<1>5. QueueOK'
  BY <1>1, OutsideProperties
<1>6. TypeOK'
  BY <1>1, <1>2, <1>3, <1>4 DEF TypeOK, fileVars
<1>7. PairsOK'
  BY <1>1, PairsKept DEF IInv
<1>8. ToldCodesWork'
  <2> SUFFICES ASSUME ~reverted, NEW c \in Codes, told'[c] # None
               PROVE  emitted[c] = told'[c] /\ served.pairs[c] = told'[c] /\ stored.pairs[c] = told'[c]
    BY <1>1 DEF ToldCodesWork, fileVars
  <2>1. CASE told'[c] = told[c]
    BY <2>1 DEF IInv, ToldCodesWork
  <2>2. CASE /\ c = code[m] /\ told'[c] = from[m]
             /\ emitted[c] # None /\ stored.pairs[c] # None
    <3>1. emitted[c] = from[m] /\ stored.pairs[c] = emitted[c]
      BY <1>2, <2>2 DEF IInv, PairsOK, Contents
    <3>2. ASSUME NEW j \in Jobs, Wrote(j) PROVE ~(j \in Messages /\ code[j] = c)
      BY <1>1, <2>2, <3>2 DEF IInv, CodesOK, Emitting, Wrote
    <3>3. served.pairs[c] = stored.pairs[c]
      BY <2>2, <3>2 DEF IInv, SyncOK, Wrote
    <3> QED
      BY <2>2, <3>1, <3>3
  <2> QED
    BY <1>1, <1>2, <1>3, <2>1, <2>2 DEF TypeOK
<1>9. CodesOK'
  <2>1. \A n \in Messages : Emitting(n)' => Emitting(n) /\ n # m
    BY <1>4 DEF Emitting
  <2>2. ASSUME ~reverted, NEW n \in Messages, stage'[n] \in {"queued", "written"}
        PROVE  told'[code'[n]] = None
    <3>1. n # m /\ stage[n] \in {"queued", "written"} /\ code'[n] = code[n]
      BY <1>4, <2>2
    <3>2. told[code[n]] = None /\ code[n] # code[m] /\ code[n] \in Codes
      BY <1>1, <2>2, <3>1 DEF IInv, CodesOK, Emitting
    <3> QED
      BY <1>1, <1>3, <3>1, <3>2 DEF TypeOK
  <2> QED
    BY <1>1, <1>4, <2>1, <2>2 DEF IInv, CodesOK
<1>10. RepliesOK'
  BY <1>1, <1>4 DEF IInv, RepliesOK
<1> QED
  BY <1>4, <1>5, <1>6, <1>7, <1>8, <1>9, <1>10 DEF IInv

LEMMA CodeExpiresKeeps ==
  ASSUME IInv, NEW c \in Codes, CodeExpires(c)
  PROVE  IInv'
<1>1. /\ emitted' = [emitted EXCEPT ![c] = None] /\ told' = [told EXCEPT ![c] = None]
      /\ UNCHANGED <<fileVars, queue, op, stage, from, code, dropped, denied, replies, admitted,
                     reverted>>
      /\ emitted \in [Codes -> Dms \union {None}] /\ told \in [Codes -> Dms \union {None}]
  BY DEF CodeExpires, IInv, TypeOK
<1>2. TypeOK' /\ QueueOK'
  BY <1>1 DEF IInv, TypeOK, QueueOK, fileVars
<1>3. SyncOK' /\ NoStranger'
  BY <1>1, SyncKept, StrangersKept DEF IInv
<1>4. PairsOK'
  BY <1>1, PairsKept DEF IInv
<1>5. CodesOK'
  BY <1>1 DEF IInv, CodesOK, Emitting
<1>6. ToldCodesWork'
  BY <1>1 DEF IInv, ToldCodesWork, fileVars
<1>7. AllowedNotPending' /\ RepliesOK'
  BY <1>1, PendingKept DEF IInv, RepliesOK, Adding, fileVars
<1> QED
  BY <1>2, <1>3, <1>4, <1>5, <1>6, <1>7 DEF IInv

(***************************************************************************)
(* A message that ends and has not waited.                                 *)
(***************************************************************************)
LEMMA EndStep ==
  ASSUME IInv, NEW m \in Messages, stage[m] \in {"idle", "denying"}, End(m),
         UNCHANGED <<fileVars, emitted, queue, op, told, admitted, reverted>>
  PROVE  /\ QueueOK' /\ SyncOK' /\ NoStranger' /\ PairsOK' /\ CodesOK' /\ ToldCodesWork'
         /\ stage' \in [Jobs -> RequestStages \union MessageStages]
         /\ from' \in [Messages -> Dms \union {None}]
         /\ code' \in [Messages -> Codes \union {None}]
         /\ stage'[m] = "ended"
         /\ \A n \in Messages \ {m} : stage'[n] = stage[n] /\ from'[n] = from[n]
         /\ dropped' = dropped => AllowedNotPending'
         /\ \A g \in Groups : Adding(g) => Adding(g)'
<1>1. /\ TypeOK /\ QueueOK /\ m \in Jobs
      /\ stage' = [stage EXCEPT ![m] = "ended"]
      /\ from' = [from EXCEPT ![m] = None] /\ code' = [code EXCEPT ![m] = None]
  BY DEF IInv, End, Jobs
<1>2. /\ from' \in [Messages -> Dms \union {None}] /\ code' \in [Messages -> Codes \union {None}]
      /\ \A n \in Messages \ {m} : from'[n] = from[n] /\ code'[n] = code[n]
  BY <1>1 DEF TypeOK
<1>3. /\ SyncOK' /\ NoStranger'
      /\ stage' \in [Jobs -> RequestStages \union MessageStages]
      /\ stage'[m] = "ended"
      /\ \A n \in Messages \ {m} : stage'[n] = stage[n]
      /\ dropped' = dropped => AllowedNotPending'
      /\ \A g \in Groups : Adding(g) => Adding(g)'
  BY <1>1, <1>2, MessageStep DEF MessageStages
<1>4. QueueOK'
  BY <1>1, OutsideProperties
<1>5. PairsOK' /\ CodesOK' /\ ToldCodesWork'
  BY <1>2, <1>3, CodesKept DEF Emitting
<1> QED
  BY <1>2, <1>3, <1>4, <1>5

LEMMA DropKeeps ==
  ASSUME IInv, NEW m \in Messages, NEW c \in Inbound, stage[m] = "idle", Drop(m, c)
  PROVE  IInv'
<1> USE DEF history
<1>1. /\ TypeOK /\ End(m)
      /\ UNCHANGED <<fileVars, emitted, queue, op, denied, told, replies, admitted, reverted>>
  BY DEF IInv, Drop
<1>2. /\ QueueOK' /\ SyncOK' /\ NoStranger' /\ PairsOK' /\ CodesOK' /\ ToldCodesWork'
      /\ stage' \in [Jobs -> RequestStages \union MessageStages]
      /\ from' \in [Messages -> Dms \union {None}]
      /\ code' \in [Messages -> Codes \union {None}]
      /\ stage'[m] = "ended"
      /\ \A n \in Messages \ {m} : stage'[n] = stage[n] /\ from'[n] = from[n]
      /\ dropped' = dropped => AllowedNotPending'
      /\ \A g \in Groups : Adding(g) => Adding(g)'
  BY <1>1, EndStep
<1>3. RepliesOK'
  BY <1>1, <1>2 DEF IInv, RepliesOK
<1>4. CASE UNCHANGED dropped
  <2>1. TypeOK'
    BY <1>1, <1>2, <1>4 DEF TypeOK, fileVars
  <2> QED
    BY <1>2, <1>3, <1>4, <2>1 DEF IInv
<1>5. CASE Gate(c) = "chat-not-allowed" /\ dropped' = Recorded(c.peer)
  <2>1. c.peer \in Groups /\ served.groups[c.peer] = None
    BY <1>5 DEF Gate, Inbound
  <2>2. /\ dropped' \in Seq(Groups) /\ Len(dropped') <= MaxEntries
        /\ \A k \in DOMAIN dropped' : dropped'[k] = c.peer \/ Listed(dropped'[k])
        /\ \A k, l \in DOMAIN dropped' : dropped'[k] = dropped'[l] => k = l
    BY <1>1, <1>5, <2>1, RecordedProperties
  <2>3. TypeOK'
    BY <1>1, <1>2, <2>2 DEF TypeOK, fileVars
  <2>4. AllowedNotPending'
    <3> SUFFICES ASSUME ~reverted, NEW k \in DOMAIN dropped', served.groups[dropped'[k]] # None
                 PROVE  \E q \in Requests : /\ stage'[q] \in {"written", "stored"}
                                            /\ op'[q].name = "addGroup" /\ op'[q].peer = dropped'[k]
      BY <1>1 DEF AllowedNotPending, Adding, fileVars
    <3>1. PICK i \in DOMAIN dropped : dropped[i] = dropped'[k]
      BY <2>1, <2>2 DEF Listed
    <3>2. dropped[i] \in Groups /\ Adding(dropped[i])
      BY <1>1, <3>1 DEF IInv, AllowedNotPending, TypeOK
    <3>3. PICK g \in Groups : g = dropped[i]
      BY <3>2
    <3>4. Adding(g)'
      BY <1>2, <3>2, <3>3
    <3> QED
      BY <3>1, <3>3, <3>4 DEF Adding
  <2> QED
    BY <1>2, <1>3, <2>3, <2>4 DEF IInv
<1> QED
  BY <1>4, <1>5 DEF Drop

LEMMA AdmitKeeps ==
  ASSUME IInv, NEW m \in Messages, NEW c \in Inbound, stage[m] = "idle", Admit(m, c)
  PROVE  IInv'
<1> USE DEF history
<1>1. /\ TypeOK /\ End(m)
      /\ UNCHANGED <<fileVars, emitted, queue, op, dropped, denied, told, replies, admitted,
                     reverted>>
  BY DEF IInv, Admit
<1>2. /\ QueueOK' /\ SyncOK' /\ NoStranger' /\ PairsOK' /\ CodesOK' /\ ToldCodesWork'
      /\ stage' \in [Jobs -> RequestStages \union MessageStages]
      /\ from' \in [Messages -> Dms \union {None}]
      /\ code' \in [Messages -> Codes \union {None}]
      /\ stage'[m] = "ended"
      /\ \A n \in Messages \ {m} : stage'[n] = stage[n] /\ from'[n] = from[n]
      /\ dropped' = dropped => AllowedNotPending'
  BY <1>1, EndStep
<1>3. RepliesOK'
  BY <1>1, <1>2 DEF IInv, RepliesOK
<1>4. TypeOK'
  BY <1>1, <1>2 DEF TypeOK, fileVars
<1> QED
  BY <1>1, <1>2, <1>3, <1>4 DEF IInv

LEMMA NeedPairKeeps ==
  ASSUME IInv, NEW m \in Messages, NEW c \in Inbound, stage[m] = "idle", NeedPair(m, c)
  PROVE  IInv'
<1> USE DEF history
<1>1. /\ TypeOK /\ QueueOK /\ m \in Jobs /\ Enqueue(m)
      /\ stage' = [stage EXCEPT ![m] = "queued"]
      /\ from' = [from EXCEPT ![m] = c.peer]
      /\ UNCHANGED <<fileVars, op, dropped, denied, told, replies, admitted, reverted>>
  BY DEF IInv, NeedPair, Jobs, Enqueue
<1>2. c.peer \in Dms
  BY DEF NeedPair, Gate, Inbound
<1>3. PICK k \in Unused : /\ code' = [code EXCEPT ![m] = k]
                          /\ emitted' = [emitted EXCEPT ![k] = c.peer]
  BY DEF NeedPair
<1>4. /\ k \in Codes /\ emitted[k] = None
      /\ \A n \in Messages : code[n] # k
      /\ \A f \in Contents : f.pairs[k] = None
  BY DEF Unused
<1>5. /\ from' \in [Messages -> Dms \union {None}] /\ code' \in [Messages -> Codes \union {None}]
      /\ emitted' \in [Codes -> Dms \union {None}]
      /\ \A n \in Messages \ {m} : from'[n] = from[n] /\ code'[n] = code[n]
      /\ from'[m] = c.peer /\ code'[m] = k /\ emitted'[k] = c.peer
      /\ \A b \in Codes \ {k} : emitted'[b] = emitted[b]
  BY <1>1, <1>2, <1>3, <1>4 DEF TypeOK
<1>6. /\ SyncOK' /\ NoStranger' /\ AllowedNotPending'
      /\ stage' \in [Jobs -> RequestStages \union MessageStages]
      /\ stage'[m] = "queued"
      /\ \A n \in Messages \ {m} : stage'[n] = stage[n]
  BY <1>1, <1>5, MessageStep DEF MessageStages
<1>7. queue' \in Seq(Jobs) /\ QueueOK'
  BY <1>1, EnqueueProperties
<1>8. TypeOK'
  BY <1>1, <1>5, <1>6, <1>7 DEF TypeOK, fileVars
<1>9. PairsOK'
  BY <1>1, <1>4, <1>5, PairsKept DEF IInv
<1>10. ToldCodesWork'
  BY <1>1, <1>4, <1>5 DEF IInv, ToldCodesWork, fileVars
<1>11. CodesOK'
  <2>1. ASSUME NEW n \in Messages \ {m}, Emitting(n)'
        PROVE  /\ Emitting(n) /\ code'[n] = code[n] /\ code'[n] \in Codes \ {k}
               /\ from'[n] \in Dms /\ emitted'[code'[n]] \in {from'[n], None}
    BY <1>4, <1>5, <1>6, <2>1 DEF IInv, CodesOK, Emitting
  <2>2. \A n, o \in Messages : Emitting(n)' /\ Emitting(o)' /\ code'[n] = code'[o] => n = o
    BY <1>5, <2>1 DEF IInv, CodesOK
  <2>3. ASSUME ~reverted, NEW n \in Messages, stage'[n] \in {"queued", "written"}
        PROVE  told[code'[n]] = None
    <3>1. CASE n = m
      BY <1>4, <1>5, <2>3, <3>1 DEF IInv, ToldCodesWork, TypeOK
    <3>2. CASE n # m
      BY <1>5, <1>6, <2>3, <3>2 DEF IInv, CodesOK
    <3> QED
      BY <3>1, <3>2
  <2>4. \A n \in Messages : Emitting(n)' =>
          code'[n] \in Codes /\ from'[n] \in Dms /\ emitted'[code'[n]] \in {from'[n], None}
    BY <1>2, <1>4, <1>5, <2>1
  <2> QED
    BY <1>1, <2>2, <2>3, <2>4 DEF CodesOK
<1>12. RepliesOK'
  BY <1>1, <1>5, <1>6 DEF IInv, RepliesOK
<1> QED
  BY <1>6, <1>7, <1>8, <1>9, <1>10, <1>11, <1>12 DEF IInv

(***************************************************************************)
(* The reply is noted before it is sent, so no second one is on its way.   *)
(***************************************************************************)
LEMMA DenyKeeps ==
  ASSUME IInv, NEW m \in Messages, NEW c \in Inbound, stage[m] = "idle", Deny(m, c)
  PROVE  IInv'
<1> USE DEF history
<1>1. /\ TypeOK /\ QueueOK /\ m \in Jobs
      /\ UNCHANGED <<fileVars, emitted, queue, op, dropped, told, replies, admitted, reverted>>
  BY DEF IInv, Deny, Jobs
<1>2. CASE End(m) /\ UNCHANGED denied
  <2>1. /\ QueueOK' /\ SyncOK' /\ NoStranger' /\ PairsOK' /\ CodesOK' /\ ToldCodesWork'
        /\ stage' \in [Jobs -> RequestStages \union MessageStages]
        /\ from' \in [Messages -> Dms \union {None}]
        /\ code' \in [Messages -> Codes \union {None}]
        /\ stage'[m] = "ended"
        /\ \A n \in Messages \ {m} : stage'[n] = stage[n] /\ from'[n] = from[n]
        /\ dropped' = dropped => AllowedNotPending'
    BY <1>1, <1>2, EndStep
  <2>2. RepliesOK'
    BY <1>1, <1>2, <2>1 DEF IInv, RepliesOK
  <2>3. TypeOK'
    BY <1>1, <1>2, <2>1 DEF TypeOK, fileVars
  <2> QED
    BY <1>1, <2>1, <2>2, <2>3 DEF IInv
<1>3. CASE /\ c.peer \notin denied /\ denied' = denied \union {c.peer}
           /\ stage' = [stage EXCEPT ![m] = "denying"]
           /\ from' = [from EXCEPT ![m] = c.peer] /\ UNCHANGED code
  <2>1. c.peer \in Dms
    BY DEF Deny, Gate, Inbound
  <2>2. /\ from' \in [Messages -> Dms \union {None}] /\ from'[m] = c.peer
        /\ \A n \in Messages \ {m} : from'[n] = from[n]
    BY <1>1, <1>3, <2>1 DEF TypeOK
  <2>3. /\ SyncOK' /\ NoStranger' /\ AllowedNotPending'
        /\ stage' \in [Jobs -> RequestStages \union MessageStages]
        /\ stage'[m] = "denying"
        /\ \A n \in Messages \ {m} : stage'[n] = stage[n]
    BY <1>1, <1>3, MessageStep DEF MessageStages
  <2>4. QueueOK'
    BY <1>1, <1>3, OutsideProperties
  <2>5. TypeOK'
    BY <1>1, <1>3, <2>1, <2>2, <2>3 DEF TypeOK, fileVars
  <2>6. PairsOK' /\ CodesOK' /\ ToldCodesWork'
    BY <1>1, <1>3, <2>2, <2>3, CodesKept DEF Emitting
  <2>7. RepliesOK'
    BY <1>1, <1>3, <2>1, <2>2, <2>3 DEF IInv, RepliesOK
  <2> QED
    BY <2>3, <2>4, <2>5, <2>6, <2>7 DEF IInv
<1> QED
  BY <1>2, <1>3 DEF Deny, Noted

LEMMA HandleKeeps ==
  ASSUME IInv, NEW m \in Messages, Handle(m)
  PROVE  IInv'
BY DropKeeps, AdmitKeeps, NeedPairKeeps, DenyKeeps DEF Handle

LEMMA DenyReplyKeeps ==
  ASSUME IInv, NEW m \in Messages, DenyReply(m)
  PROVE  IInv'
<1>1. /\ TypeOK /\ stage[m] = "denying" /\ End(m)
      /\ UNCHANGED <<fileVars, emitted, queue, op, dropped, denied, told, admitted, reverted>>
  BY DEF IInv, DenyReply
<1>2. /\ QueueOK' /\ SyncOK' /\ NoStranger' /\ PairsOK' /\ CodesOK' /\ ToldCodesWork'
      /\ stage' \in [Jobs -> RequestStages \union MessageStages]
      /\ from' \in [Messages -> Dms \union {None}]
      /\ code' \in [Messages -> Codes \union {None}]
      /\ stage'[m] = "ended"
      /\ \A n \in Messages \ {m} : stage'[n] = stage[n] /\ from'[n] = from[n]
      /\ dropped' = dropped => AllowedNotPending'
  BY <1>1, EndStep
<1>3. from[m] \in denied /\ from[m] \in Dms /\ replies[from[m]] = 0
  BY <1>1 DEF IInv, RepliesOK, TypeOK
<1>4. /\ replies' \in [Dms -> Nat]
      /\ \A d \in Dms \ {from[m]} : replies'[d] = replies[d]
      /\ replies'[from[m]] <= 1
  <2>1. CASE replies' = replies
    BY <1>1, <1>3, <2>1 DEF TypeOK
  <2>2. CASE replies' = [replies EXCEPT ![from[m]] = @ + 1]
    BY <1>1, <1>3, <2>2 DEF TypeOK
  <2> QED
    BY <2>1, <2>2 DEF DenyReply
<1>5. TypeOK'
  BY <1>1, <1>2, <1>4 DEF TypeOK, fileVars
<1>6. RepliesOK'
  <2>1. \A d \in Dms : replies'[d] <= 1 /\ (d \notin denied' => replies'[d] = 0)
    BY <1>1, <1>3, <1>4 DEF IInv, RepliesOK
  <2>2. ASSUME NEW n \in Messages, stage'[n] = "denying"
        PROVE  n # m /\ from'[n] = from[n] /\ from[n] \in denied /\ replies'[from[n]] = 0
    <3>1. n # m /\ stage[n] = "denying" /\ from'[n] = from[n]
      BY <1>2, <2>2
    <3>2. from[n] # from[m] /\ from[n] \in denied /\ replies[from[n]] = 0
      BY <1>1, <3>1 DEF IInv, RepliesOK
    <3> QED
      BY <1>1, <1>4, <3>1, <3>2 DEF TypeOK
  <2>3. \A n, o \in Messages :
          stage'[n] = "denying" /\ stage'[o] = "denying" /\ from'[n] = from'[o] => n = o
    BY <1>2, <2>2 DEF IInv, RepliesOK
  <2> QED
    BY <1>1, <2>1, <2>2, <2>3 DEF RepliesOK
<1> QED
  BY <1>1, <1>2, <1>5, <1>6 DEF IInv

LEMMA ReplyWindowEndsKeeps ==
  ASSUME IInv, NEW d \in Dms, ReplyWindowEnds(d)
  PROVE  IInv'
<1>1. /\ denied' = denied \ {d} /\ replies' = [replies EXCEPT ![d] = 0]
      /\ \A m \in Messages : stage[m] = "denying" => from[m] # d
      /\ UNCHANGED <<fileVars, emitted, queue, op, stage, from, code, dropped, told, admitted,
                     reverted>>
  BY DEF ReplyWindowEnds
<1>2. TypeOK' /\ RepliesOK'
  BY <1>1 DEF IInv, TypeOK, RepliesOK, fileVars
<1>3. QueueOK' /\ SyncOK' /\ NoStranger'
  BY <1>1, SyncKept, StrangersKept DEF IInv, QueueOK
<1>4. PairsOK' /\ CodesOK' /\ ToldCodesWork'
  BY <1>1, CodesKept
<1>5. AllowedNotPending'
  BY <1>1, PendingKept DEF Adding, fileVars
<1> QED
  BY <1>2, <1>3, <1>4, <1>5 DEF IInv

-----------------------------------------------------------------------------
LEMMA UpdateFailsKeeps ==
  ASSUME IInv, NEW j \in Jobs, UpdateFails(j)
  PROVE  IInv'
<1> USE DEF history
<1>1. /\ TypeOK /\ QueueOK /\ Turn(j) /\ stage[j] = "queued" /\ queue' = Tail(queue)
      /\ queue # <<>> /\ Head(queue) = j
      /\ UNCHANGED <<fileVars, dropped, denied, told, replies, admitted, reverted>>
  BY TurnProperties DEF IInv, UpdateFails, Turn
<1>2. CASE j \in Requests /\ Answer(j) /\ UNCHANGED <<from, code, emitted>>
  <2>1. /\ stage' = [stage EXCEPT ![j] = "ended"] /\ op' = [op EXCEPT ![j] = None]
        /\ \A r \in Requests \ {j} : op'[r] = op[r]
    BY <1>1, <1>2 DEF Answer, TypeOK
  <2>2. queue' \in Seq(Jobs) /\ QueueOK'
    BY <1>1, <2>1, LeaveProperties
  <2>3. TypeOK'
    BY <1>1, <1>2, <2>1, <2>2 DEF TypeOK, RequestStages, fileVars
  <2>4. SyncOK' /\ PairsOK' /\ NoStranger' /\ CodesOK' /\ ToldCodesWork' /\ RepliesOK'
    BY <1>1, <1>2, <2>1, AdminStep
  <2>5. AllowedNotPending'
    BY <1>1, <2>1, PendingKept DEF Adding, fileVars, TypeOK, Jobs
  <2> QED
    BY <2>2, <2>3, <2>4, <2>5 DEF IInv
<1>3. CASE /\ j \in Messages /\ emitted' = [emitted EXCEPT ![code[j]] = None]
           /\ End(j) /\ UNCHANGED op
  <2>1. /\ stage' = [stage EXCEPT ![j] = "ended"]
        /\ from' \in [Messages -> Dms \union {None}]
        /\ code' \in [Messages -> Codes \union {None}]
        /\ \A n \in Messages \ {j} : from'[n] = from[n] /\ code'[n] = code[n]
    BY <1>1, <1>3 DEF End, TypeOK
  <2>2. queue' \in Seq(Jobs) /\ QueueOK'
    BY <1>1, <2>1, LeaveProperties
  <2>3. /\ SyncOK' /\ NoStranger' /\ AllowedNotPending'
        /\ stage' \in [Jobs -> RequestStages \union MessageStages]
        /\ stage'[j] = "ended"
        /\ \A n \in Messages \ {j} : stage'[n] = stage[n]
    BY <1>1, <1>3, <2>1, MessageStep DEF MessageStages
  <2>4. code[j] \in Codes /\ (~reverted => told[code[j]] = None)
    BY <1>1, <1>3 DEF IInv, CodesOK, Emitting
  <2>5. /\ emitted' \in [Codes -> Dms \union {None}]
        /\ \A c \in Codes : emitted'[c] \in {emitted[c], None}
        /\ \A c \in Codes : c # code[j] => emitted'[c] = emitted[c]
    BY <1>1, <1>3, <2>4 DEF TypeOK
  <2>6. TypeOK'
    BY <1>1, <1>3, <2>1, <2>2, <2>3, <2>5 DEF TypeOK, fileVars
  <2>7. PairsOK' /\ CodesOK' /\ ToldCodesWork'
    BY <1>1, <2>1, <2>3, <2>4, <2>5, CodesKept DEF Emitting
  <2>8. RepliesOK'
    BY <1>1, <2>1, <2>3 DEF IInv, RepliesOK
  <2> QED
    BY <2>2, <2>3, <2>6, <2>7, <2>8 DEF IInv
<1> QED
  BY <1>2, <1>3 DEF UpdateFails

-----------------------------------------------------------------------------
LEMMA InitInvariant == Init => IInv
<1> SUFFICES ASSUME Init PROVE IInv
  OBVIOUS
<1>1. /\ served \in Found /\ stored = served /\ snapshot = [r \in Reloads |-> None]
      /\ emitted = [c \in Codes |-> None] /\ queue = <<>>
      /\ op = [q \in Requests |-> None] /\ stage = [j \in Jobs |-> "idle"]
      /\ from = [m \in Messages |-> None] /\ code = [m \in Messages |-> None]
      /\ dropped = <<>> /\ denied = {} /\ told = [c \in Codes |-> None]
      /\ replies = [d \in Dms |-> 0] /\ admitted = Chats(served) /\ reverted = FALSE
  BY DEF Init
<1>2. served \in File /\ \A f \in Contents : f = served
  BY <1>1, AccessAssumption DEF Contents
<1>3. admitted \subseteq Dms \union Groups
  BY <1>1, <1>2, FileFields DEF Chats
<1>4. TypeOK
  <2>1. MaxEntries \in Nat /\ MaxEntries > 0
    BY AccessAssumption
  <2>2. /\ snapshot \in [Reloads -> File \union {None}] /\ emitted \in [Codes -> Dms \union {None}]
        /\ told \in [Codes -> Dms \union {None}] /\ op \in [Requests -> Ops \union {None}]
        /\ from \in [Messages -> Dms \union {None}] /\ code \in [Messages -> Codes \union {None}]
        /\ stage \in [Jobs -> RequestStages \union MessageStages] /\ replies \in [Dms -> Nat]
    BY <1>1 DEF RequestStages
  <2>3. queue \in Seq(Jobs) /\ dropped \in Seq(Groups) /\ Len(dropped) = 0 /\ DOMAIN dropped = {}
    BY <1>1
  <2>4. stored = served /\ denied = {} /\ reverted = FALSE
    BY <1>1
  <2>5. Len(dropped) <= MaxEntries
    BY <2>1, <2>3
  <2> QED
    BY <1>2, <1>3, <2>2, <2>3, <2>4, <2>5 DEF TypeOK
<1>5. QueueOK /\ SyncOK /\ AllowedNotPending
  BY <1>1 DEF QueueOK, SyncOK, AllowedNotPending
<1>6. PairsOK /\ NoStranger
  BY <1>1, <1>2 DEF PairsOK, NoStranger
<1>7. CodesOK /\ ToldCodesWork /\ RepliesOK
  BY <1>1 DEF CodesOK, Emitting, ToldCodesWork, RepliesOK, Jobs
<1> QED
  BY <1>4, <1>5, <1>6, <1>7 DEF IInv

LEMMA NextInvariant == IInv /\ [Next]_vars => IInv'
<1> SUFFICES ASSUME IInv, [Next]_vars PROVE IInv'
  OBVIOUS
<1>1. ASSUME NEW q \in Requests, NEW o \in Ops, Call(q, o) PROVE IInv'
  BY <1>1, CallKeeps
<1>2. ASSUME NEW q \in Requests,
             Resolve(q) \/ RemoveChat(q) \/ EditSenders(q) \/ SetMentionPolicy(q)
      PROVE  IInv'
  BY <1>2, ResolveKeeps, RemoveChatKeeps, EditSendersKeeps, SetMentionPolicyKeeps
<1>3. ASSUME NEW q \in Requests,
             SetDmPolicy(q) \/ AddGroup(q) \/ Consume(q) \/ Publish(q) \/ ForgetGroup(q)
      PROVE  IInv'
  BY <1>3, SetDmPolicyKeeps, AddGroupKeeps, ConsumeKeeps, PublishKeeps, ForgetGroupKeeps
<1>4. ASSUME NEW m \in Messages,
             Handle(m) \/ StoreCode(m) \/ PublishCode(m) \/ TellCode(m) \/ DenyReply(m)
      PROVE  IInv'
  BY <1>4, HandleKeeps, StoreCodeKeeps, PublishCodeKeeps, TellCodeKeeps, DenyReplyKeeps
<1>5. ASSUME NEW j \in Jobs, UpdateFails(j) PROVE IInv'
  BY <1>5, UpdateFailsKeeps
<1>6. ASSUME NEW r \in Reloads, ReloadRead(r) \/ ReloadFinish(r) PROVE IInv'
  BY <1>6, ReloadReadKeeps, ReloadFinishKeeps
<1>7. ASSUME NEW c \in Codes, CodeExpires(c) PROVE IInv'
  BY <1>7, CodeExpiresKeeps
<1>8. ASSUME NEW d \in Dms, ReplyWindowEnds(d) PROVE IInv'
  BY <1>8, ReplyWindowEndsKeeps
<1>9. CASE Restart
  BY <1>9, RestartKeeps
<1>10. CASE UNCHANGED vars
  BY <1>10 DEF vars, fileVars, history, IInv, TypeOK, QueueOK, SyncOK, Wrote, AdmitsGroup,
               PairsOK, NoStranger, Contents, Chats, CodesOK, Emitting, ToldCodesWork,
               AllowedNotPending, Adding, RepliesOK
<1> QED
  BY <1>1, <1>2, <1>3, <1>4, <1>5, <1>6, <1>7, <1>8, <1>9, <1>10 DEF Next

LEMMA Invariance == Spec => []IInv
<1> QED
  BY InitInvariant, NextInvariant, PTL DEF Spec

-----------------------------------------------------------------------------
(***************************************************************************)
(* The variables keep their types; the registry of pending groups keeps to *)
(* its limit and holds no group twice.                                     *)
(***************************************************************************)
THEOREM TypeCorrect == Spec => []TypeOK
<1>1. IInv => TypeOK
  BY DEF IInv
<1> QED
  BY <1>1, Invariance, PTL

(***************************************************************************)
(* A code that a person has been sent pairs that person's DM until it is   *)
(* used or expires (PairingService.emitCode and consume), however many     *)
(* codes are emitted, used and swept at once and whatever reloads run, as  *)
(* long as none puts back what an update has replaced.                     *)
(***************************************************************************)
THEOREM CodesWork == Spec => []ToldCodesWork
<1>1. IInv => ToldCodesWork
  BY DEF IInv
<1> QED
  BY <1>1, Invariance, PTL

(***************************************************************************)
(* No group that is allowed is offered as a pending one, but by an         *)
(* addGroup that has not ended (AccessService.addGroup), as long as no     *)
(* reload puts back what an update has replaced.                           *)
(***************************************************************************)
THEOREM NoAllowedPending == Spec => []AllowedNotPending
<1>1. IInv => AllowedNotPending
  BY DEF IInv
<1> QED
  BY <1>1, Invariance, PTL

(***************************************************************************)
(* A person who is not allowed gets at most one reply in 24 hours,         *)
(* however many messages are handled at once                               *)
(* (InboundService.sendDenyReply).                                         *)
(***************************************************************************)
THEOREM AtMostOneReply == Spec => []OneDenyReply
<1>1. IInv => OneDenyReply
  BY DEF IInv, RepliesOK, OneDenyReply
<1> QED
  BY <1>1, Invariance, PTL

(***************************************************************************)
(* Whatever reloads put back, and however calls, messages, failures and    *)
(* restarts interleave: what is served, what the file holds and what a     *)
(* reload is about to serve let in nobody whom the operator has not let in *)
(* at some time, by an addGroup or by a code emitted for that very DM.     *)
(***************************************************************************)
THEOREM NeverAStranger == Spec => []NoStranger
<1>1. IInv => NoStranger
  BY DEF IInv
<1> QED
  BY <1>1, Invariance, PTL

(***************************************************************************)
(* While a job has its turn, what is served is what the file holds.        *)
(***************************************************************************)
LEMMA InStep ==
  ASSUME IInv, NEW j, Turn(j), ~reverted
  PROVE  served = stored
BY TurnProperties DEF IInv, SyncOK, Wrote

\* Edits let in nobody.
LEMMA EditAdmitsNone ==
  ASSUME IInv, ~reverted, NEW q \in Requests,
         RemoveChat(q) \/ EditSenders(q) \/ SetMentionPolicy(q) \/ SetDmPolicy(q)
  PROVE  Chats(stored') \subseteq Chats(stored)
<1>1. Turn(q) /\ served \in File /\ op[q] \in Ops
  BY DEF IInv, TypeOK, RemoveChat, EditSenders, SetMentionPolicy, SetDmPolicy, Does
<1>2. served = stored
  BY <1>1, InStep
<1>3. CASE RemoveChat(q)
  BY <1>1, <1>2, <1>3 DEF RemoveChat, Store, Chats, File
<1>4. CASE EditSenders(q) \/ SetMentionPolicy(q)
  <2>1. PICK g, entry : stored' = Edited(g, entry)
    BY <1>4 DEF EditSenders, SetMentionPolicy, Store
  <2>2. /\ stored'.paired = stored.paired
        /\ \A h \in Groups : stored'.groups[h] # None => stored.groups[h] # None
    BY <1>1, <1>2, <2>1 DEF Edited, File
  <2> QED
    BY <2>2 DEF Chats
<1>5. CASE SetDmPolicy(q)
  BY <1>1, <1>2, <1>5 DEF SetDmPolicy, Store, Chats, File
<1> QED
  BY <1>3, <1>4, <1>5

LEMMA AddGroupAdmits ==
  ASSUME IInv, ~reverted, NEW q \in Requests, AddGroup(q),
         NEW chat \in Chats(stored') \ Chats(stored)
  PROVE  q = Head(queue) /\ AdmitsGroup(q, chat)
<1>1. /\ Turn(q) /\ served \in File /\ op[q] # None /\ op[q].name = "addGroup"
      /\ stored' = [served EXCEPT !.groups[op[q].peer] = op[q].entry]
  BY DEF IInv, TypeOK, AddGroup, Does, Store
<1>2. served = stored
  BY <1>1, InStep
<1>3. /\ stored'.paired = stored.paired
      /\ \A g \in Groups : g # op[q].peer => stored'.groups[g] = stored.groups[g]
  BY <1>1, <1>2 DEF File
<1>4. chat = op[q].peer
  BY <1>3 DEF Chats
<1> QED
  BY <1>1, <1>4 DEF Turn, AdmitsGroup

LEMMA ConsumeAdmits ==
  ASSUME IInv, ~reverted, NEW q \in Requests, Consume(q),
         NEW chat \in Chats(stored') \ Chats(stored)
  PROVE  q = Head(queue) /\ AdmitsDm(q, chat)
<1> DEFINE c == op[q].code
           f == Swept(served, Expired(served))
<1>1. Turn(q) /\ served \in File /\ op[q] # None /\ op[q] \in Ops /\ op[q].name = "consume"
  BY DEF IInv, TypeOK, Consume, Does
<1>2. c \in Codes /\ served = stored
  BY <1>1, OpFields, InStep
<1>3. f \in File /\ f.paired = stored.paired /\ f.groups = stored.groups
  BY <1>1, <1>2 DEF Swept, File
<1>4. /\ Usable(c)
      /\ stored' = [f EXCEPT !.paired = @ \union {served.pairs[c]}, !.pairs[c] = None]
  <2>1. ASSUME stored' = f PROVE FALSE
    BY <1>3, <2>1 DEF Chats
  <2> QED
    BY <2>1 DEF Consume, Store
<1>5. emitted[c] = served.pairs[c]
  BY <1>2, <1>4 DEF IInv, PairsOK, Contents, Usable
<1>6. /\ stored'.paired = stored.paired \union {served.pairs[c]}
      /\ stored'.groups = stored.groups /\ stored'.pairs[c] = None
  BY <1>2, <1>3, <1>4 DEF File
<1>7. chat = served.pairs[c]
  BY <1>6 DEF Chats
<1> QED
  BY <1>1, <1>5, <1>6, <1>7 DEF Turn, AdmitsDm

(***************************************************************************)
(* No other step lets a chat into the file.                                *)
(***************************************************************************)
LEMMA ChatEnters ==
  ASSUME IInv, Next, ~reverted', NEW chat \in Chats(stored') \ Chats(stored)
  PROVE  \E q \in Requests : q = Head(queue) /\ (AdmitsGroup(q, chat) \/ AdmitsDm(q, chat))
<1>1. ~reverted /\ stored \in File
  BY DEF Next, Call, Resolve, RemoveChat, EditSenders, SetMentionPolicy, SetDmPolicy, AddGroup,
         Consume, Publish, ForgetGroup, Handle, Drop, Admit, NeedPair, Deny, StoreCode,
         PublishCode, TellCode, DenyReply, UpdateFails, ReloadRead, ReloadFinish, CodeExpires,
         ReplyWindowEnds, Restart, history, IInv, TypeOK
<1>2. stored' # stored
  OBVIOUS
<1>3. ASSUME NEW m \in Messages, StoreCode(m) PROVE FALSE
  <2>1. Turn(m) /\ served = stored
    BY <1>1, <1>3, InStep DEF StoreCode
  <2>2. stored'.paired = stored.paired /\ stored'.groups = stored.groups
    BY <1>1, <1>3, <2>1 DEF StoreCode, Store, Swept, File
  <2> QED
    BY <2>2 DEF Chats
<1>4. CASE Restart
  <2>1. stored'.paired = stored.paired /\ stored'.groups = stored.groups
    BY <1>1, <1>4 DEF Restart, Swept, File
  <2> QED
    BY <2>1 DEF Chats
<1>5. ASSUME NEW q \in Requests,
             \/ \E o \in Ops : Call(q, o)
             \/ Resolve(q) \/ Publish(q) \/ ForgetGroup(q)
      PROVE  FALSE
  BY <1>2, <1>5 DEF Call, Resolve, Publish, Serve, ForgetGroup, fileVars
<1>6. ASSUME NEW m \in Messages, Handle(m) \/ PublishCode(m) \/ TellCode(m) \/ DenyReply(m)
      PROVE  FALSE
  BY <1>2, <1>6 DEF Handle, Drop, Admit, NeedPair, Deny, PublishCode, Serve, TellCode, DenyReply,
                    fileVars
<1>7. ASSUME \/ \E j \in Jobs : UpdateFails(j)
             \/ \E r \in Reloads : ReloadRead(r) \/ ReloadFinish(r)
             \/ \E c \in Codes : CodeExpires(c)
             \/ \E d \in Dms : ReplyWindowEnds(d)
      PROVE  FALSE
  BY <1>2, <1>7 DEF UpdateFails, ReloadRead, ReloadFinish, CodeExpires, ReplyWindowEnds, fileVars
<1>8. ASSUME NEW q \in Requests,
             RemoveChat(q) \/ EditSenders(q) \/ SetMentionPolicy(q) \/ SetDmPolicy(q)
      PROVE  FALSE
  BY <1>1, <1>8, EditAdmitsNone
<1>9. ASSUME NEW q \in Requests, AddGroup(q) \/ Consume(q)
      PROVE  q = Head(queue) /\ (AdmitsGroup(q, chat) \/ AdmitsDm(q, chat))
  BY <1>1, <1>9, AddGroupAdmits, ConsumeAdmits
<1> QED
  BY <1>3, <1>4, <1>5, <1>6, <1>7, <1>8, <1>9 DEF Next

(***************************************************************************)
(* What comes to be served is in the file.                                 *)
(***************************************************************************)
LEMMA ServedFromFile ==
  ASSUME IInv, Next, ~reverted'
  PROVE  Chats(served') \ Chats(served) \subseteq Chats(stored)
<1>1. CASE served' = served
  BY <1>1 DEF Chats
<1>2. CASE served' = stored
  BY <1>2 DEF Chats
<1>3. CASE Restart
  <2>1. stored \in File
    BY DEF IInv, TypeOK
  <2>2. served'.paired = stored.paired /\ served'.groups = stored.groups
    BY <1>3, <2>1 DEF Restart, Swept, File
  <2> QED
    BY <2>2 DEF Chats
<1> QED
  BY <1>1, <1>2, <1>3 DEF Next, Call, Resolve, RemoveChat, EditSenders, SetMentionPolicy,
     SetDmPolicy, AddGroup, Consume, Store, Publish, Serve, ForgetGroup, Handle, Drop, Admit,
     NeedPair, Deny, StoreCode, PublishCode, TellCode, DenyReply, UpdateFails, ReloadRead,
     ReloadFinish, CodeExpires, ReplyWindowEnds, fileVars

(***************************************************************************)
(* A chat enters the file only by the operator's hand: a group by an       *)
(* addGroup, a DM by a code that was emitted to it and is used up; it is   *)
(* served only once it is in the file; and what was removed does not come  *)
(* back by calls that were checked before (AccessService,                  *)
(* PairingService.consume).  This holds of every step up to the first      *)
(* reload that puts back what an update has replaced.                      *)
(***************************************************************************)
THEOREM OnlyOperatorAdmits == Spec => OperatorAdmits
<1>1. ASSUME IInv, Next, ~reverted'
      PROVE  /\ \A chat \in Chats(stored') \ Chats(stored) :
                  \E q \in Requests :
                    q = Head(queue) /\ (AdmitsGroup(q, chat) \/ AdmitsDm(q, chat))
             /\ Chats(served') \ Chats(served) \subseteq Chats(stored)
  BY <1>1, ChatEnters, ServedFromFile
<1>2. IInv /\ [Next]_vars =>
        [~reverted' =>
           /\ \A chat \in Chats(stored') \ Chats(stored) :
                \E q \in Requests :
                  q = Head(queue) /\ (AdmitsGroup(q, chat) \/ AdmitsDm(q, chat))
           /\ Chats(served') \ Chats(served) \subseteq Chats(stored)]_vars
  BY <1>1
<1> QED
  BY <1>2, Invariance, PTL DEF Spec, OperatorAdmits

==============================================================================
