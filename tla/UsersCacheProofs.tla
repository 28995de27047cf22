--------------------------- MODULE UsersCacheProofs ---------------------------
(***************************************************************************)
(* The user cache holds the latest answers and an index that covers them,  *)
(* for any numbers of people, names and lookups and for every limit.       *)
(***************************************************************************)
EXTENDS UsersCache, TLAPS, FiniteSetTheorems, WellFoundedInduction

(***************************************************************************)
(* The inductive invariant.  Eviction drops the entry with the oldest      *)
(* date, so the dates have to tell the users apart (DatesOK), and what     *)
(* waits in the chain has to be newer than everything stored, in the order *)
(* of the chain (QueueOK): otherwise a late update would overwrite, or be  *)
(* evicted by, an earlier answer.  What the index will say comes from      *)
(* answers and from entries, so these name their users rightly (NamesOK).  *)
(***************************************************************************)
Filled(us) == {u \in Users : us[u] # None}

QueueOK ==
  /\ \A l \in Lookups : stage[l] = "queued" => \E i \in 1..Len(queue) : queue[i] = l
  /\ \A i \in 1..Len(queue) :
       /\ stage[queue[i]] = "queued"
       /\ fetched[queue[i]] # None
       /\ fetched[queue[i]].at <= clock
       /\ \A u \in Users : stored[u] < fetched[queue[i]].at
  /\ \A i, j \in 1..Len(queue) : i < j => fetched[queue[i]].at < fetched[queue[j]].at

DatesOK ==
  /\ IsFiniteSet(Filled(users))
  /\ \A u \in Users : stored[u] <= clock
  /\ \A u \in Filled(users) : stored[u] > 0
  /\ \A u, v \in Users : stored[u] = stored[v] /\ stored[u] > 0 => u = v

Had(u, n) == n # None => u \in held[n]

NamesOK ==
  /\ \A u \in Users : Had(u, nameOf[u])
  /\ \A l \in Lookups : fetched[l] # None => Had(fetched[l].id, fetched[l].name)
  /\ \A u \in Filled(users) : Had(u, users[u].name)

IInv == TypeOK /\ QueueOK /\ DatesOK /\ NamesOK /\ KeepsLatest /\ IndexCovers

-----------------------------------------------------------------------------
(***************************************************************************)
(* Least and greatest numbers.                                             *)
(***************************************************************************)
LEMMA Least == ASSUME NEW S \in SUBSET Nat, S # {} PROVE \E x \in S : \A y \in S : x <= y
<1> DEFINE R == OpToRel(<, Nat)
<1>1. PICK x \in S : \A y \in S : ~ (<<y, x>> \in R)
  BY NatLessThanWellFounded, WFMin
<1>2. \A a, b \in Nat : a < b => <<a, b>> \in R
  BY DEF OpToRel
<1>3. ASSUME NEW y \in S PROVE x <= y
  <2>1. ~ (<<y, x>> \in R)
    BY <1>1
  <2> HIDE DEF R
  <2>2. ~ (y < x)
    BY <1>2, <2>1
  <2> QED
    BY <2>2
<1> QED
  BY <1>3

(***************************************************************************)
(* The greatest is the one with the fewest above it.                       *)
(***************************************************************************)
LEMMA Greatest ==
  ASSUME NEW S \in SUBSET Nat, IsFiniteSet(S), S # {}
  PROVE  \E x \in S : \A y \in S : y <= x
<1> DEFINE Above(x) == {y \in S : y > x}
           Counts == {Cardinality(Above(x)) : x \in S}
<1>1. \A x \in S : IsFiniteSet(Above(x)) /\ Cardinality(Above(x)) \in Nat
  BY FS_Subset, FS_CardinalityType
<1>2. Counts \in SUBSET Nat /\ Counts # {}
  BY <1>1
<1>3. PICK n \in Counts : \A m \in Counts : n <= m
  BY <1>2, Least
<1>4. PICK x \in S : n = Cardinality(Above(x))
  BY <1>3
<1>5. ASSUME NEW y \in S PROVE y <= x
  <2> SUFFICES ASSUME y > x PROVE FALSE
    OBVIOUS
  <2>1. Above(y) \in SUBSET Above(x) /\ y \in Above(x) /\ y \notin Above(y)
    <3>1. \A z \in Above(y) : z \in S /\ z > y
      OBVIOUS
    <3>2. \A z \in Above(y) : z > x
      BY <3>1
    <3>3. y \in Above(x)
      OBVIOUS
    <3>4. ~ (y > y)
      OBVIOUS
    <3> QED
      BY <3>1, <3>2, <3>3, <3>4, Zenon
  <2>2. Cardinality(Above(y)) < Cardinality(Above(x))
    <3>1. Above(y) # Above(x)
      BY <2>1
    <3>2. Cardinality(Above(y)) <= Cardinality(Above(x)) /\ Cardinality(Above(y)) # Cardinality(Above(x))
      BY <1>1, <2>1, <3>1, FS_Subset
    <3> HIDE DEF Above
    <3> QED
      BY <1>1, <3>2
  <2>3. n <= Cardinality(Above(y))
    BY <1>3
  <2> HIDE DEF Above, Counts
  <2> QED
    BY <1>1, <1>4, <2>2, <2>3
<1> QED
  BY <1>5

-----------------------------------------------------------------------------
(***************************************************************************)
(* evictIfNeeded, after one more entry: what is evicted is older than what *)
(* stays, and exactly as much as has to is evicted.                        *)
(***************************************************************************)
LEMMA EvictedOlder ==
  ASSUME NEW us \in [Users -> Entry \union {None}], IsFiniteSet(Filled(us)),
         NEW u \in Filled(us), Evicted(us)[u] = None,
         NEW v \in Filled(us), Evicted(us)[v] # None
  PROVE  us[v].at > us[u].at
<1> USE CacheAssumption
<1>1. us[u] \in Entry /\ us[v] \in Entry
  BY DEF Filled
<1>2. us[u].at \in Nat /\ us[v].at \in Nat
  BY <1>1 DEF Entry
<1>3. IsFiniteSet(Newer(us, u)) /\ IsFiniteSet(Newer(us, v))
  BY FS_Subset DEF Newer, Filled
<1>4. Cardinality(Newer(us, u)) \in Nat /\ Cardinality(Newer(us, v)) \in Nat
  BY <1>3, FS_CardinalityType
<1>5. Cardinality(Newer(us, u)) >= Limit /\ ~(Cardinality(Newer(us, v)) >= Limit)
  BY DEF Evicted, Filled
<1> SUFFICES ASSUME us[v].at <= us[u].at PROVE FALSE
  BY <1>2
<1>6. Newer(us, u) \in SUBSET Newer(us, v)
  <2>1. \A w \in Users : us[w] # None => us[w].at \in Nat
    BY DEF Entry
  <2>2. \A w \in Newer(us, u) : w \in Users /\ us[w] # None /\ us[w].at > us[u].at
    BY DEF Newer
  <2>3. ASSUME NEW w \in Newer(us, u) PROVE us[w].at > us[v].at
    <3>1. us[w].at \in Nat /\ us[w].at > us[u].at
      BY <2>1, <2>2
    <3> QED
      BY <1>2, <3>1, SMTT(30)
  <2> QED
    BY <2>2, <2>3 DEF Newer
<1>7. Cardinality(Newer(us, u)) <= Cardinality(Newer(us, v))
  BY <1>3, <1>6, FS_Subset
<1> QED
  BY <1>4, <1>5, <1>7

LEMMA EvictedCount ==
  ASSUME NEW us \in [Users -> Entry \union {None}], IsFiniteSet(Filled(us)),
         Cardinality(Filled(us)) <= Limit + 1,
         \A u, v \in Filled(us) : us[u].at = us[v].at => u = v
  PROVE  /\ IsFiniteSet(Filled(Evicted(us)))
         /\ Cardinality(Filled(us)) <= Limit => Evicted(us) = us
         /\ Cardinality(Filled(us)) = Limit + 1 => Cardinality(Filled(Evicted(us))) = Limit
<1> USE CacheAssumption
<1>1. Filled(Evicted(us)) \in SUBSET Filled(us)
  BY DEF Filled, Evicted
<1>2. Cardinality(Filled(us)) \in Nat
  BY FS_CardinalityType
<1>3. ASSUME NEW u \in Filled(us)
      PROVE  /\ Newer(us, u) \in SUBSET (Filled(us) \ {u})
             /\ IsFiniteSet(Newer(us, u))
             /\ Cardinality(Newer(us, u)) \in Nat
             /\ Cardinality(Newer(us, u)) < Cardinality(Filled(us))
  <2>1. us[u].at \in Nat
    BY DEF Filled, Entry
  <2>2. Newer(us, u) \in SUBSET (Filled(us) \ {u})
    BY <2>1 DEF Newer, Filled
  <2>3. IsFiniteSet(Filled(us) \ {u}) /\ Cardinality(Filled(us) \ {u}) = Cardinality(Filled(us)) - 1
    BY FS_RemoveElement
  <2>4. IsFiniteSet(Newer(us, u)) /\ Cardinality(Newer(us, u)) <= Cardinality(Filled(us) \ {u})
    BY <2>2, <2>3, FS_Subset
  <2> QED
    BY <1>2, <2>2, <2>3, <2>4, FS_CardinalityType
<1>4. ASSUME Cardinality(Filled(us)) <= Limit PROVE Evicted(us) = us
  <2>1. \A u \in Users : us[u] # None => ~(Cardinality(Newer(us, u)) >= Limit)
    BY <1>2, <1>3, <1>4 DEF Filled
  <2> QED
    BY <2>1 DEF Evicted
<1>5. ASSUME Cardinality(Filled(us)) = Limit + 1
      PROVE  Cardinality(Filled(Evicted(us))) = Limit
  <2> DEFINE Dates == {us[u].at : u \in Filled(us)}
  <2>1. Dates \in SUBSET Nat
    BY DEF Filled, Entry
  <2>2. Dates # {}
    <3>1. Filled(us) # {}
      BY <1>2, <1>5, FS_EmptySet
    <3> QED
      BY <3>1
  <2>3. PICK t \in Dates : \A s \in Dates : t <= s
    <3> HIDE DEF Dates
    <3> QED
      BY <2>1, <2>2, Least
  <2>4. PICK m \in Filled(us) : us[m].at = t
    BY <2>3
  <2>5. ASSUME NEW u \in Filled(us) PROVE us[m].at <= us[u].at
    <3>1. us[u].at \in Dates
      OBVIOUS
    <3> HIDE DEF Dates
    <3> QED
      BY <2>3, <2>4, <3>1
  <2>6. \A u \in Filled(us) : us[u].at \in Nat
    BY DEF Filled, Entry
  <2> HIDE DEF Dates
  <2>7. \A u \in Filled(us) \ {m} : us[u].at > us[m].at
    BY <2>5, <2>6
  <2>8. Newer(us, m) = Filled(us) \ {m}
    <3>1. Newer(us, m) = {v \in Filled(us) : us[v].at > us[m].at}
      BY DEF Newer, Filled
    <3>2. ~(us[m].at > us[m].at)
      BY <2>6
    <3> QED
      BY <2>7, <3>1, <3>2
  <2>9. Cardinality(Newer(us, m)) = Limit
    <3>1. Cardinality(Newer(us, m)) = Cardinality(Filled(us)) - 1
      BY <2>8, FS_RemoveElement
    <3> QED
      BY <1>5, <3>1
  <2>10. ASSUME NEW u \in Filled(us) \ {m} PROVE Cardinality(Newer(us, u)) < Limit
    <3>1. Newer(us, u) \in SUBSET (Newer(us, m) \ {u})
      BY <2>6, <2>7, <2>8 DEF Newer, Filled
    <3>2. IsFiniteSet(Newer(us, m) \ {u}) /\ Cardinality(Newer(us, m) \ {u}) = Limit - 1
      BY <1>3, <2>8, <2>9, FS_RemoveElement
    <3>3. Cardinality(Newer(us, u)) <= Limit - 1
      BY <3>1, <3>2, FS_Subset
    <3> QED
      BY <1>3, <3>3
  <2>11. Filled(Evicted(us)) = Filled(us) \ {m}
    <3>1. Evicted(us)[m] = None
      BY <2>9 DEF Filled, Evicted
    <3>2. ASSUME NEW u \in Filled(us) \ {m} PROVE Evicted(us)[u] # None
      <4>1. u \in Users /\ us[u] # None /\ ~(Cardinality(Newer(us, u)) >= Limit)
        BY <1>3, <2>10 DEF Filled
      <4> QED
        BY <4>1 DEF Evicted
    <3> QED
      BY <1>1, <3>1, <3>2 DEF Filled
  <2> QED
    BY <2>8, <2>9, <2>11
<1> QED
  BY <1>1, <1>4, <1>5, FS_Subset

-----------------------------------------------------------------------------
(***************************************************************************)
(* The update whose turn it is is the first in the chain.                  *)
(***************************************************************************)
LEMMA TurnIsFirst ==
  ASSUME IInv, NEW l \in Lookups, Turn(l)
  PROVE  /\ Len(queue) \in Nat \ {0} /\ queue[1] = l
         /\ fetched[l] \in Entry /\ fetched[l].at <= clock
         /\ \A u \in Users : stored[u] < fetched[l].at
         /\ Tail(queue) \in Seq(Lookups) /\ Len(Tail(queue)) = Len(queue) - 1
         /\ \A i \in 1..Len(Tail(queue)) :
              /\ i + 1 \in 1..Len(queue) /\ Tail(queue)[i] = queue[i + 1]
              /\ queue[i + 1] # l
              /\ fetched[queue[i + 1]].at > fetched[l].at
         /\ \A k \in Lookups \ {l} : stage[k] = "queued" =>
              \E i \in 1..Len(Tail(queue)) : Tail(queue)[i] = k
<1>0. queue \in Seq(Lookups) /\ QueueOK /\ fetched \in [Lookups -> Entry \union {None}]
  BY DEF IInv, TypeOK
<1>1. queue # <<>> /\ Head(queue) = l /\ stage[l] = "queued"
  BY <1>0 DEF Turn, QueueOK
<1>2. Len(queue) \in Nat \ {0} /\ queue[1] = l
  BY <1>0, <1>1
<1>3. /\ fetched[l] \in Entry /\ fetched[l].at <= clock
      /\ \A u \in Users : stored[u] < fetched[l].at
  BY <1>0, <1>2 DEF QueueOK
<1>4. /\ Tail(queue) \in Seq(Lookups) /\ Len(Tail(queue)) = Len(queue) - 1
      /\ \A i \in 1..Len(Tail(queue)) : i + 1 \in 1..Len(queue) /\ Tail(queue)[i] = queue[i + 1]
  BY <1>0, <1>1, <1>2
<1>5. ASSUME NEW i \in 1..Len(Tail(queue))
      PROVE  queue[i + 1] # l /\ fetched[queue[i + 1]].at > fetched[l].at
  <2>1. 1 \in 1..Len(queue) /\ i + 1 \in 1..Len(queue) /\ 1 < i + 1
    BY <1>2, <1>4
  <2>2. fetched[queue[1]].at < fetched[queue[i + 1]].at
    BY <1>0, <2>1 DEF QueueOK
  <2>3. fetched[queue[i + 1]] \in Entry
    BY <1>0, <2>1 DEF QueueOK
  <2>4. fetched[l].at \in Nat /\ fetched[queue[i + 1]].at \in Nat
    BY <1>3, <2>3 DEF Entry
  <2> QED
    BY <1>2, <2>2, <2>4
<1>6. ASSUME NEW k \in Lookups \ {l}, stage[k] = "queued"
      PROVE  \E i \in 1..Len(Tail(queue)) : Tail(queue)[i] = k
  <2>1. PICK j \in 1..Len(queue) : queue[j] = k
    BY <1>0, <1>6 DEF QueueOK
  <2>2. j - 1 \in 1..Len(Tail(queue)) /\ Tail(queue)[j - 1] = k
    BY <1>2, <1>4, <1>6, <2>1
  <2> QED
    BY <2>2
<1> QED
  BY <1>2, <1>3, <1>4, <1>5, <1>6

(***************************************************************************)
(* The other lookups go on as they were when some of them return.          *)
(***************************************************************************)
LEMMA EndKeeps ==
  ASSUME TypeOK, NEW ending \in SUBSET Lookups, End(ending)
  PROVE  /\ stage' \in [Lookups -> Stages]
         /\ key' \in [Lookups -> Users \union Names \union {None}]
         /\ fetched' \in [Lookups -> Entry \union {None}]
         /\ \A k \in ending : stage'[k] = "idle" /\ fetched'[k] = None
         /\ \A k \in Lookups \ ending : stage'[k] = stage[k] /\ fetched'[k] = fetched[k]
BY DEF End, TypeOK, Stages

(***************************************************************************)
(* persist: the latest answer takes the place of the oldest.               *)
(***************************************************************************)
LEMMA PersistKeepsLatest ==
  ASSUME IInv, NEW l \in Lookups, Persist(l)
  PROVE  /\ users' \in [Users -> Entry \union {None}]
         /\ stored' \in [Users -> Nat]
         /\ Cardinality(Filled(users')) <= Limit
         /\ DatesOK' /\ KeepsLatest'
         /\ fetched[l] \in Entry
         /\ \A u \in Filled(users') : users'[u] = IF u = fetched[l].id THEN fetched[l] ELSE users[u]
         /\ \A u \in Filled(users') : u # fetched[l].id => u \in Filled(users)
<1> USE CacheAssumption
<1> DEFINE e == fetched[l]
           us == [users EXCEPT ![e.id] = e]
<1>1. /\ users \in [Users -> Entry \union {None}] /\ stored \in [Users -> Nat] /\ clock \in Nat
      /\ IsFiniteSet(Filled(users)) /\ Cardinality(Filled(users)) <= Limit
      /\ DatesOK /\ KeepsLatest
  BY DEF IInv, TypeOK, DatesOK, Filled
<1>2. /\ e \in Entry /\ e.id \in Users /\ e.at \in Nat /\ e.at <= clock /\ e # None
      /\ \A u \in Users : stored[u] < e.at
  BY TurnIsFirst DEF Persist, Entry
<1>3. /\ users' = Evicted(us) /\ stored' = [stored EXCEPT ![e.id] = e.at] /\ UNCHANGED clock
  BY DEF Persist, timeVars
<1> HIDE DEF e
<1>4. /\ us \in [Users -> Entry \union {None}] /\ us[e.id] = e
      /\ \A u \in Users : u # e.id => us[u] = users[u]
      /\ Filled(us) = Filled(users) \union {e.id}
  BY <1>1, <1>2 DEF Filled
<1>5. /\ stored' \in [Users -> Nat] /\ stored'[e.id] = e.at
      /\ \A u \in Users : u # e.id => stored'[u] = stored[u]
  BY <1>1, <1>2, <1>3
<1> HIDE DEF us
<1>6. /\ IsFiniteSet(Filled(us)) /\ Cardinality(Filled(us)) \in Nat
      /\ Cardinality(Filled(us)) <= Limit + 1
      /\ Cardinality(Filled(us)) >= Cardinality(Filled(users)) /\ Cardinality(Filled(users)) \in Nat
  <2>1. Cardinality(Filled(users)) \in Nat
    BY <1>1, FS_CardinalityType
  <2>2. /\ IsFiniteSet(Filled(us))
        /\ Cardinality(Filled(us)) \in {Cardinality(Filled(users)), Cardinality(Filled(users)) + 1}
    BY <1>1, <1>4, FS_AddElement
  <2> QED
    BY <1>1, <2>1, <2>2
<1>7. \A u \in Filled(us) : us[u].at = stored'[u] /\ us[u].id = u /\ stored'[u] > 0
  <2>1. \A u \in Filled(users) : users[u].at = stored[u] /\ users[u].id = u /\ stored[u] > 0
    BY <1>1 DEF KeepsLatest, DatesOK, Filled
  <2>2. e.at > 0
    <3>1. stored[e.id] \in Nat /\ stored[e.id] < e.at
      BY <1>1, <1>2
    <3> QED
      BY <1>2, <3>1
  <2> QED
    BY <1>2, <1>4, <1>5, <2>1, <2>2 DEF Filled
<1>8. \A u, v \in Users : stored'[u] = stored'[v] /\ stored'[u] > 0 => u = v
  BY <1>1, <1>2, <1>5 DEF DatesOK
<1>9. \A u, v \in Filled(us) : us[u].at = us[v].at => u = v
  BY <1>7, <1>8 DEF Filled
<1>10. /\ IsFiniteSet(Filled(users'))
       /\ Cardinality(Filled(us)) <= Limit => users' = us
       /\ Cardinality(Filled(us)) = Limit + 1 => Cardinality(Filled(users')) = Limit
  BY <1>3, <1>4, <1>6, <1>9, EvictedCount
<1>11. Cardinality(Filled(users')) <= Limit
  BY <1>6, <1>10
<1>12. /\ users' \in [Users -> Entry \union {None}]
       /\ \A u \in Users : users'[u] \in {None, us[u]}
  BY <1>3, <1>4 DEF Evicted
<1>13. /\ \A u \in Filled(users') : u \in Filled(us) /\ users'[u] = us[u]
  BY <1>12 DEF Filled
<1>14. \A u \in Users : stored'[u] <= clock
  BY <1>1, <1>2, <1>5 DEF DatesOK
<1>15. DatesOK'
  BY <1>3, <1>7, <1>8, <1>10, <1>13, <1>14 DEF DatesOK
<1>16. ASSUME NEW u \in Users, users'[u] = None, stored'[u] > 0
       PROVE  /\ Cardinality(Filled(users')) = Limit
              /\ \A v \in Filled(users') : users'[v].at > stored'[u]
  <2>1. CASE us[u] = None
    <3>1. u # e.id /\ users[u] = None /\ stored[u] > 0 /\ stored'[u] = stored[u]
      BY <1>2, <1>4, <1>5, <1>16, <2>1
    <3>2. /\ Cardinality(Filled(users)) = Limit
          /\ \A v \in Filled(users) : users[v].at > stored[u]
      BY <1>1, <3>1 DEF KeepsLatest, Filled
    <3>3. Cardinality(Filled(users')) = Limit
      BY <1>6, <1>10, <3>2
    <3>4. ASSUME NEW v \in Filled(users') PROVE users'[v].at > stored'[u]
      <4>1. CASE v = e.id
        <5>1. users'[v].at = e.at /\ stored[u] \in Nat /\ stored[u] < e.at
          BY <1>1, <1>2, <1>4, <1>13, <4>1
        <5> QED
          BY <1>2, <3>1, <5>1
      <4>2. CASE v # e.id
        <5>1. users'[v] = users[v] /\ v \in Filled(users)
          BY <1>4, <1>13, <4>2 DEF Filled
        <5> QED
          BY <3>1, <3>2, <5>1
      <4> QED
        BY <4>1, <4>2
    <3> QED
      BY <3>3, <3>4
  <2>2. CASE us[u] # None
    <3>1. u \in Filled(us)
      BY <2>2 DEF Filled
    <3>2. users' # us
      BY <1>16, <2>2
    <3>3. Cardinality(Filled(users')) = Limit
      BY <1>6, <1>10, <3>2
    <3>4. \A v \in Filled(users') : us[v].at > us[u].at
      BY <1>3, <1>4, <1>6, <1>13, <1>16, <3>1, EvictedOlder DEF Filled
    <3> QED
      BY <1>7, <1>13, <3>1, <3>3, <3>4
  <2> QED
    BY <2>1, <2>2
<1>17. \A u \in Users : users'[u] # None => users'[u].at = stored'[u] /\ users'[u].id = u
  BY <1>7, <1>13 DEF Filled
<1>18. KeepsLatest'
  BY <1>16, <1>17 DEF KeepsLatest, Filled
<1>19. \A u \in Filled(users') : /\ users'[u] = IF u = e.id THEN e ELSE users[u]
                                 /\ u # e.id => u \in Filled(users)
  BY <1>4, <1>13 DEF Filled
<1> QED
  BY <1>2, <1>5, <1>11, <1>12, <1>15, <1>18, <1>19 DEF e

(***************************************************************************)
(* A lookup leaves the chain, whether its update was made or failed; one   *)
(* that was not in it leaves the chain alone.                              *)
(***************************************************************************)
LEMMA LeaveKeepsQueue ==
  ASSUME IInv, NEW l \in Lookups, End({l}), queue' = Leave(l), UNCHANGED clock,
         Turn(l) \/ stage[l] # "queued",
         stored' \in [Users -> Nat],
         \A u \in Users : stored'[u] = stored[u] \/ (Turn(l) /\ stored'[u] = fetched[l].at)
  PROVE  queue' \in Seq(Lookups) /\ QueueOK'
<1>1. /\ queue \in Seq(Lookups) /\ QueueOK /\ TypeOK
      /\ fetched \in [Lookups -> Entry \union {None}]
  BY DEF IInv, TypeOK
<1>2. /\ stage'[l] = "idle"
      /\ \A k \in Lookups \ {l} : stage'[k] = stage[k] /\ fetched'[k] = fetched[k]
  BY <1>1, EndKeeps
<1>3. CASE Turn(l)
  <2>1. queue' = Tail(queue)
    BY <1>3 DEF Leave
  <2>2. /\ Tail(queue) \in Seq(Lookups)
        /\ Len(Tail(queue)) = Len(queue) - 1
        /\ \A i \in 1..Len(Tail(queue)) :
             /\ i + 1 \in 1..Len(queue) /\ Tail(queue)[i] = queue[i + 1]
             /\ queue[i + 1] # l
             /\ fetched[queue[i + 1]].at > fetched[l].at
        /\ \A k \in Lookups \ {l} : stage[k] = "queued" =>
             \E i \in 1..Len(Tail(queue)) : Tail(queue)[i] = k
    BY <1>3, TurnIsFirst
  <2>3. \A k \in Lookups : stage'[k] = "queued" => \E i \in 1..Len(queue') : queue'[i] = k
    BY <1>2, <2>1, <2>2
  <2>4. ASSUME NEW i \in 1..Len(queue')
        PROVE  /\ stage'[queue'[i]] = "queued"
               /\ fetched'[queue'[i]] # None
               /\ fetched'[queue'[i]].at <= clock'
               /\ \A u \in Users : stored'[u] < fetched'[queue'[i]].at
               /\ fetched'[queue'[i]] = fetched[queue[i + 1]]
    <3>1. i + 1 \in 1..Len(queue) /\ queue'[i] = queue[i + 1] /\ queue[i + 1] \in Lookups \ {l}
          /\ fetched[queue[i + 1]].at > fetched[l].at
      BY <1>1, <2>1, <2>2
    <3>2. fetched'[queue'[i]] = fetched[queue[i + 1]] /\ stage'[queue'[i]] = stage[queue[i + 1]]
      BY <1>2, <3>1
    <3>3. /\ stage[queue[i + 1]] = "queued" /\ fetched[queue[i + 1]] # None
          /\ fetched[queue[i + 1]].at <= clock
          /\ \A u \in Users : stored[u] < fetched[queue[i + 1]].at
      BY <1>1, <3>1 DEF QueueOK
    <3>4. \A u \in Users : stored'[u] < fetched[queue[i + 1]].at
      <4>1. fetched[queue[i + 1]] \in Entry
        BY <1>1, <3>1, <3>3
      <4>2. fetched[queue[i + 1]].at \in Nat
        BY <4>1 DEF Entry
      <4>3. \A u \in Users : stored'[u] = stored[u] \/ stored'[u] = fetched[l].at
        OBVIOUS
      <4>4. fetched[l].at < fetched[queue[i + 1]].at
        <5>1. fetched[l] \in Entry
          BY <1>3, TurnIsFirst
        <5>2. fetched[l].at \in Nat
          BY <5>1 DEF Entry
        <5> QED
          BY <3>1, <4>2, <5>2
      <4> QED
        BY <3>3, <4>3, <4>4
    <3> QED
      BY <3>2, <3>3, <3>4
  <2>5. \A i, j \in 1..Len(queue') : i < j => fetched'[queue'[i]].at < fetched'[queue'[j]].at
    <3>1. \A i, j \in 1..Len(queue') :
            i < j => i + 1 \in 1..Len(queue) /\ j + 1 \in 1..Len(queue) /\ i + 1 < j + 1
      BY <2>1, <2>2
    <3>2. \A i, j \in 1..Len(queue') : i < j => fetched[queue[i + 1]].at < fetched[queue[j + 1]].at
      BY <1>1, <3>1 DEF QueueOK
    <3> QED
      BY <2>4, <3>2
  <2> QED
    BY <2>1, <2>2, <2>3, <2>4, <2>5 DEF QueueOK
<1>4. CASE ~Turn(l)
  <2>1. queue' = queue /\ stage[l] # "queued" /\ \A u \in Users : stored'[u] = stored[u]
    BY <1>4 DEF Leave
  <2>2. \A i \in 1..Len(queue) : queue[i] \in Lookups \ {l}
    BY <1>1, <2>1 DEF QueueOK
  <2> QED
    BY <1>1, <1>2, <2>1, <2>2 DEF QueueOK
<1> QED
  BY <1>3, <1>4

(***************************************************************************)
(* A step that touches neither the chain nor the answers in it.            *)
(***************************************************************************)
LEMMA QueueStays ==
  ASSUME IInv, UNCHANGED <<queue, stored>>, clock' \in Nat, clock <= clock',
         \A l \in Lookups : stage'[l] = "queued" <=> stage[l] = "queued",
         \A l \in Lookups : stage[l] = "queued" => fetched'[l] = fetched[l]
  PROVE  QueueOK'
<1>1. queue \in Seq(Lookups) /\ QueueOK /\ fetched \in [Lookups -> Entry \union {None}] /\ clock \in Nat
  BY DEF IInv, TypeOK
<1>2. \A i \in 1..Len(queue) : queue[i] \in Lookups /\ fetched'[queue[i]] = fetched[queue[i]]
  BY <1>1 DEF QueueOK
<1>3. \A i \in 1..Len(queue) : fetched[queue[i]].at \in Nat
  BY <1>1 DEF QueueOK, Entry
<1>4. \A i \in 1..Len(queue) : fetched'[queue[i]].at <= clock'
  BY <1>1, <1>2, <1>3 DEF QueueOK
<1> QED
  BY <1>1, <1>2, <1>4 DEF QueueOK

LEMMA PersistKeeps == ASSUME IInv, NEW l \in Lookups, Persist(l) PROVE IInv'
<1> USE CacheAssumption
<1> DEFINE e == fetched[l]
<1>1. TypeOK /\ NamesOK /\ IndexCovers
  BY DEF IInv
<1>2. /\ Turn(l) /\ queue' = Tail(queue) /\ index' = Indexed(l, e) /\ End({l})
      /\ stored' = [stored EXCEPT ![e.id] = e.at]
      /\ UNCHANGED <<clock, horizon, nameOf, changes, held>>
  BY DEF Persist, timeVars, vkVars
<1>3. /\ users' \in [Users -> Entry \union {None}]
      /\ stored' \in [Users -> Nat]
      /\ Cardinality(Filled(users')) <= Limit
      /\ DatesOK' /\ KeepsLatest'
      /\ e \in Entry
      /\ \A u \in Filled(users') : users'[u] = IF u = e.id THEN e ELSE users[u]
      /\ \A u \in Filled(users') : u # e.id => u \in Filled(users)
  BY PersistKeepsLatest
<1>4. e.id \in Users /\ e.name \in Names \union {None} /\ e # None
  BY <1>3 DEF Entry
<1>5. Had(e.id, e.name)
  BY <1>1, <1>4 DEF NamesOK
<1> HIDE DEF e
<1>6. /\ stage' \in [Lookups -> Stages]
      /\ key' \in [Lookups -> Users \union Names \union {None}]
      /\ fetched' \in [Lookups -> Entry \union {None}]
      /\ \A k \in Lookups : fetched'[k] \in {None, fetched[k]}
  BY <1>1, <1>2, EndKeeps
<1>7. queue' \in Seq(Lookups) /\ QueueOK'
  <2>1. queue' = Leave(l)
    BY <1>2 DEF Leave
  <2>2. \A u \in Users : stored'[u] = stored[u] \/ stored'[u] = fetched[l].at
    BY <1>1, <1>2 DEF TypeOK, e
  <2> QED
    BY <1>2, <1>3, <2>1, <2>2, LeaveKeepsQueue
<1>8. index' \in [Names -> Users \union {None}]
  BY <1>1, <1>2, <1>4 DEF Indexed, TypeOK
<1>9. TypeOK'
  BY <1>1, <1>2, <1>3, <1>6, <1>7, <1>8 DEF TypeOK, Filled
<1>10. NamesOK'
  <2>1. \A u \in Users : Had(u, nameOf[u])'
    BY <1>1, <1>2 DEF NamesOK, Had
  <2>2. \A k \in Lookups : fetched'[k] # None => Had(fetched'[k].id, fetched'[k].name)
    BY <1>1, <1>6 DEF NamesOK
  <2>3. \A u \in Filled(users') : Had(u, users'[u].name)
    BY <1>1, <1>3, <1>5 DEF NamesOK
  <2> QED
    BY <1>2, <2>1, <2>2, <2>3 DEF NamesOK, Had
<1>11. IndexCovers'
  <2>1. \A n \in Names : index'[n] = IF n = e.name THEN e.id ELSE index[n]
    BY <1>1, <1>2, <1>4 DEF Indexed, TypeOK
  <2>2. \A n \in Names : index'[n] # None => index'[n] \in held'[n]
    BY <1>1, <1>2, <1>5, <2>1 DEF IndexCovers, Had
  <2>3. ASSUME NEW u \in Users, users'[u] # None, users'[u].name # None
        PROVE  index'[users'[u].name] # None
    <3>0. u \in Filled(users')
      BY <2>3 DEF Filled
    <3>1. CASE u = e.id
      BY <1>3, <1>4, <2>1, <2>3, <3>0, <3>1
    <3>2. CASE u # e.id
      <4>1. users'[u] = users[u] /\ users[u] # None
        BY <1>3, <3>0, <3>2, <2>3
      <4>2. users[u].name \in Names /\ index[users[u].name] # None
        BY <1>1, <2>3, <4>1 DEF IndexCovers, TypeOK, Entry
      <4> QED
        BY <1>4, <2>1, <4>1, <4>2
    <3> QED
      BY <3>1, <3>2
  <2> QED
    BY <2>2, <2>3 DEF IndexCovers
<1> QED
  BY <1>3, <1>7, <1>9, <1>10, <1>11 DEF IInv

LEMMA FallbackKeeps == ASSUME IInv, NEW l \in Lookups, Fallback(l) PROVE IInv'
<1>1. TypeOK /\ NamesOK /\ DatesOK /\ KeepsLatest /\ IndexCovers
  BY DEF IInv
<1>2. /\ Turn(l) \/ stage[l] # "queued"
      /\ queue' = Leave(l) /\ End({l})
      /\ UNCHANGED <<users, index, stored, clock, horizon, nameOf, changes, held>>
  BY DEF Fallback, timeVars, vkVars
<1>3. /\ stage' \in [Lookups -> Stages]
      /\ key' \in [Lookups -> Users \union Names \union {None}]
      /\ fetched' \in [Lookups -> Entry \union {None}]
      /\ \A k \in Lookups : fetched'[k] \in {None, fetched[k]}
  BY <1>1, <1>2, EndKeeps
<1>4. queue' \in Seq(Lookups) /\ QueueOK'
  BY <1>1, <1>2, LeaveKeepsQueue DEF TypeOK
<1>5. TypeOK'
  BY <1>1, <1>2, <1>3, <1>4 DEF TypeOK
<1>6. NamesOK'
  BY <1>1, <1>2, <1>3 DEF NamesOK, Had, Filled
<1>7. DatesOK' /\ KeepsLatest' /\ IndexCovers'
  BY <1>1, <1>2 DEF DatesOK, Filled, KeepsLatest, IndexCovers
<1> QED
  BY <1>4, <1>5, <1>6, <1>7 DEF IInv

(***************************************************************************)
(* The cache, as an update leaves it, while others go on.                  *)
(***************************************************************************)
LEMMA CacheStays ==
  ASSUME IInv, UNCHANGED <<users, index, stored>>, clock' \in Nat, clock <= clock',
         \A n \in Names : held[n] \subseteq held'[n],
         held' \in [Names -> SUBSET Users]
  PROVE  DatesOK' /\ KeepsLatest' /\ IndexCovers'
<1>1. /\ DatesOK /\ KeepsLatest /\ IndexCovers
      /\ stored \in [Users -> Nat] /\ index \in [Names -> Users \union {None}] /\ clock \in Nat
  BY DEF IInv, TypeOK
<1>2. \A u \in Users : stored[u] <= clock'
  BY <1>1 DEF DatesOK
<1>3. DatesOK' /\ KeepsLatest'
  BY <1>1, <1>2 DEF DatesOK, Filled, KeepsLatest
<1>4. IndexCovers'
  BY <1>1 DEF IndexCovers
<1> QED
  BY <1>3, <1>4

(***************************************************************************)
(* init: the name of a cached user goes to one of the users who have it.   *)
(***************************************************************************)
Named(n) == {u \in Users : users[u] # None /\ users[u].name = n}

LEMMA RebuiltNamed ==
  ASSUME IInv, NEW n \in Names
  PROVE  (Rebuilt[n] = None /\ Named(n) = {}) \/ Rebuilt[n] \in Named(n)
<1>1. Named(n) \in SUBSET Nat
  BY CacheAssumption DEF Named
<1>2. IsFiniteSet(Named(n))
  <2>1. Named(n) \in SUBSET Filled(users) /\ IsFiniteSet(Filled(users))
    BY DEF IInv, DatesOK, Named, Filled
  <2> QED
    BY <2>1, FS_Subset
<1>3. Rebuilt[n] = IF Named(n) = {} THEN None
                   ELSE CHOOSE u \in Named(n) : \A v \in Named(n) : v <= u
  BY DEF Rebuilt, Named
<1>4. CASE Named(n) # {}
  <2>1. \E u \in Named(n) : \A v \in Named(n) : v <= u
    BY <1>1, <1>2, <1>4, Greatest
  <2> HIDE DEF Named
  <2> QED
    BY <1>3, <1>4, <2>1
<1> QED
  BY <1>3, <1>4

LEMMA RestartKeeps == ASSUME IInv, Restart PROVE IInv'
<1> USE CacheAssumption
<1>0. /\ TypeOK /\ NamesOK /\ DatesOK /\ KeepsLatest /\ IndexCovers
  BY DEF IInv
<1>1. /\ index' = Rebuilt /\ queue' = <<>> /\ End(Lookups)
      /\ UNCHANGED <<users, stored, clock, horizon, nameOf, changes, held>>
  BY DEF Restart, timeVars, vkVars
<1>2. /\ stage' \in [Lookups -> Stages]
      /\ key' \in [Lookups -> Users \union Names \union {None}]
      /\ fetched' \in [Lookups -> Entry \union {None}]
      /\ \A k \in Lookups : stage'[k] = "idle" /\ fetched'[k] = None
  BY <1>0, <1>1, EndKeeps
<1>3. index' \in [Names -> Users \union {None}]
  <2>1. \A n \in Names : Rebuilt[n] \in Users \union {None}
    BY RebuiltNamed DEF Named
  <2> QED
    BY <1>1, <2>1 DEF Rebuilt
<1>4. TypeOK'
  BY <1>0, <1>1, <1>2, <1>3 DEF TypeOK
<1>5. QueueOK'
  BY <1>1, <1>2 DEF QueueOK
<1>6. DatesOK' /\ KeepsLatest'
  BY <1>0, <1>1 DEF DatesOK, Filled, KeepsLatest
<1>7. NamesOK'
  BY <1>0, <1>1, <1>2 DEF NamesOK, Had, Filled
<1>8. IndexCovers'
  <2>1. ASSUME NEW u \in Users, users[u] # None, users[u].name # None
        PROVE  Rebuilt[users[u].name] # None
    <3>1. users[u].name \in Names /\ u \in Named(users[u].name)
      BY <1>0, <2>1 DEF TypeOK, Entry, Named
    <3>2. Rebuilt[users[u].name] \in Named(users[u].name)
      BY <3>1, RebuiltNamed
    <3> QED
      BY <3>2 DEF Named
  <2>2. ASSUME NEW n \in Names, Rebuilt[n] # None PROVE Rebuilt[n] \in held[n]
    <3>1. Rebuilt[n] \in Named(n)
      BY <2>2, RebuiltNamed
    <3> QED
      BY <1>0, <3>1 DEF NamesOK, Had, Named, Filled
  <2> QED
    BY <1>1, <2>1, <2>2 DEF IndexCovers
<1> QED
  BY <1>4, <1>5, <1>6, <1>7, <1>8 DEF IInv

LEMMA NextInvariant == IInv /\ [Next]_vars => IInv'
<1> SUFFICES ASSUME IInv, [Next]_vars PROVE IInv'
  OBVIOUS
<1> USE CacheAssumption
<1>0. /\ TypeOK /\ QueueOK /\ DatesOK /\ NamesOK /\ KeepsLatest /\ IndexCovers
      /\ clock \in Nat /\ horizon \in Nat
  BY DEF IInv, TypeOK
<1>1. ASSUME NEW l \in Lookups, Ask(l) PROVE IInv'
  <2>1. /\ stage[l] = "idle" /\ stage' = [stage EXCEPT ![l] = "asked"]
        /\ UNCHANGED <<fetched, users, index, queue, stored, clock, horizon, nameOf, changes, held>>
    BY <1>1 DEF Ask, cacheVars, timeVars, vkVars
  <2>2. TypeOK'
    BY <1>0, <1>1, <2>1 DEF Ask, TypeOK, Stages
  <2>3. QueueOK'
    BY <1>0, <2>1, QueueStays DEF TypeOK
  <2>4. DatesOK' /\ KeepsLatest' /\ IndexCovers'
    BY <1>0, <2>1, CacheStays DEF TypeOK
  <2>5. NamesOK'
    BY <1>0, <2>1 DEF NamesOK, Had, Filled
  <2> QED
    BY <2>2, <2>3, <2>4, <2>5 DEF IInv
<1>2. ASSUME NEW l \in Lookups, VkReads(l) PROVE IInv'
  <2>1. /\ stage[l] = "asked" /\ stage' = [stage EXCEPT ![l] = "read"]
        /\ UNCHANGED <<key, users, index, queue, stored, clock, horizon, nameOf, changes, held>>
    BY <1>2 DEF VkReads, cacheVars, timeVars, vkVars
  <2>2. PICK f \in Entry \union {None} :
          /\ fetched' = [fetched EXCEPT ![l] = f]
          /\ f # None => Had(f.id, f.name)
    <3>1. CASE UNCHANGED fetched
      <4>1. fetched' = [fetched EXCEPT ![l] = fetched[l]] /\ fetched[l] \in Entry \union {None}
        BY <1>0, <3>1 DEF TypeOK
      <4>2. fetched[l] # None => Had(fetched[l].id, fetched[l].name)
        BY <1>0 DEF NamesOK
      <4> QED
        BY <4>1, <4>2
    <3>2. CASE ~UNCHANGED fetched
      <4>1. PICK u \in Users : fetched' = [fetched EXCEPT ![l] = [id |-> u, name |-> nameOf[u], at |-> 0]]
        BY <1>2, <3>2 DEF VkReads
      <4> DEFINE f == [id |-> u, name |-> nameOf[u], at |-> 0]
      <4>2. f \in Entry /\ Had(u, nameOf[u])
        BY <1>0 DEF Entry, TypeOK, NamesOK
      <4>3. fetched' = [fetched EXCEPT ![l] = f] /\ Had(f.id, f.name)
        BY <4>1, <4>2
      <4> HIDE DEF f
      <4> QED
        BY <4>2, <4>3
    <3> QED
      BY <3>1, <3>2
  <2>3. TypeOK'
    BY <1>0, <2>1, <2>2 DEF TypeOK, Stages
  <2>4. QueueOK'
    <3>1. \A k \in Lookups : stage[k] = "queued" => k # l /\ stage'[k] = "queued" /\ fetched'[k] = fetched[k]
      BY <1>0, <2>1, <2>2 DEF TypeOK
    <3>2. \A k \in Lookups : stage'[k] = "queued" => stage[k] = "queued"
      BY <1>0, <2>1 DEF TypeOK
    <3> QED
      BY <1>0, <2>1, <3>1, <3>2, QueueStays
  <2>5. DatesOK' /\ KeepsLatest' /\ IndexCovers'
    BY <1>0, <2>1, CacheStays DEF TypeOK
  <2>6. NamesOK'
    <3>1. \A k \in Lookups : fetched'[k] # None => Had(fetched'[k].id, fetched'[k].name)
      BY <1>0, <2>2 DEF NamesOK, TypeOK
    <3> QED
      BY <1>0, <2>1, <3>1 DEF NamesOK, Had, Filled
  <2> QED
    BY <2>3, <2>4, <2>5, <2>6 DEF IInv
<1>3. ASSUME NEW l \in Lookups, Arrive(l) PROVE IInv'
  <2> DEFINE f == [fetched[l] EXCEPT !.at = clock + 1]
  <2>1. /\ stage[l] = "read" /\ fetched[l] # None /\ clock < MaxAnswers /\ clock' = clock + 1
        /\ fetched' = [fetched EXCEPT ![l] = f]
        /\ queue' = Append(queue, l) /\ stage' = [stage EXCEPT ![l] = "queued"]
        /\ UNCHANGED <<key, users, index, stored, horizon, nameOf, changes, held>>
    BY <1>3 DEF Arrive, vkVars
  <2>2. fetched[l] \in Entry
    BY <1>0, <2>1 DEF TypeOK
  <2>3. f \in Entry /\ f.id = fetched[l].id /\ f.name = fetched[l].name /\ f.at = clock + 1 /\ f # None
    BY <1>0, <2>2 DEF Entry
  <2> HIDE DEF f
  <2>4. TypeOK'
    BY <1>0, <2>1, <2>3 DEF TypeOK, Stages
  <2>5. QueueOK'
    <3>1. /\ queue \in Seq(Lookups) /\ Len(queue) \in Nat /\ Len(queue') = Len(queue) + 1
          /\ \A i \in 1..Len(queue) : queue'[i] = queue[i] /\ queue[i] \in Lookups
          /\ queue'[Len(queue) + 1] = l
          /\ 1..Len(queue') = 1..Len(queue) \union {Len(queue) + 1}
      BY <1>0, <2>1 DEF TypeOK
    <3>2. /\ stage'[l] = "queued" /\ fetched'[l] = f
          /\ \A k \in Lookups \ {l} : stage'[k] = stage[k] /\ fetched'[k] = fetched[k]
      BY <1>0, <2>1 DEF TypeOK
    <3>3. \A i \in 1..Len(queue) :
            /\ queue[i] # l /\ stage'[queue[i]] = "queued"
            /\ fetched'[queue[i]] = fetched[queue[i]] /\ fetched[queue[i]] # None
            /\ fetched[queue[i]].at \in Nat /\ fetched[queue[i]].at <= clock
            /\ \A u \in Users : stored[u] < fetched[queue[i]].at
      BY <1>0, <2>1, <3>1, <3>2 DEF QueueOK, TypeOK, Entry
    <3>4. \A k \in Lookups : stage'[k] = "queued" => \E i \in 1..Len(queue') : queue'[i] = k
      BY <1>0, <3>1, <3>2 DEF QueueOK
    <3>5. \A u \in Users : stored'[u] < f.at
      BY <1>0, <2>1, <2>3 DEF DatesOK, TypeOK
    <3>6. ASSUME NEW i \in 1..Len(queue')
          PROVE  /\ stage'[queue'[i]] = "queued"
                 /\ fetched'[queue'[i]] # None
                 /\ fetched'[queue'[i]].at <= clock'
                 /\ \A u \in Users : stored'[u] < fetched'[queue'[i]].at
      <4>1. CASE i = Len(queue) + 1
        BY <1>0, <2>1, <2>3, <3>1, <3>2, <3>5, <4>1
      <4>2. CASE i # Len(queue) + 1
        <5>1. i \in 1..Len(queue)
          BY <3>1, <4>2
        <5> QED
          BY <1>0, <2>1, <3>1, <3>3, <5>1
      <4> QED
        BY <4>1, <4>2
    <3>7. ASSUME NEW i \in 1..Len(queue'), NEW j \in 1..Len(queue'), i < j
          PROVE  fetched'[queue'[i]].at < fetched'[queue'[j]].at
      <4>1. i \in 1..Len(queue)
        BY <3>1, <3>7
      <4>2. CASE j = Len(queue) + 1
        BY <1>0, <2>3, <3>1, <3>2, <3>3, <4>1, <4>2
      <4>3. CASE j # Len(queue) + 1
        <5>1. j \in 1..Len(queue)
          BY <3>1, <4>3
        <5> QED
          BY <1>0, <3>1, <3>3, <3>7, <4>1, <5>1 DEF QueueOK
      <4> QED
        BY <4>2, <4>3
    <3> QED
      BY <3>4, <3>6, <3>7 DEF QueueOK
  <2>6. DatesOK' /\ KeepsLatest' /\ IndexCovers'
    BY <1>0, <2>1, CacheStays DEF TypeOK
  <2>7. NamesOK'
    <3>1. \A k \in Lookups : fetched'[k] # None => Had(fetched'[k].id, fetched'[k].name)
      BY <1>0, <2>1, <2>3 DEF NamesOK, TypeOK
    <3> QED
      BY <1>0, <2>1, <3>1 DEF NamesOK, Had, Filled
  <2> QED
    BY <2>4, <2>5, <2>6, <2>7 DEF IInv
<1>4. ASSUME NEW u \in Users, Rename(u) PROVE IInv'
  <2>1. UNCHANGED <<stage, key, fetched, users, index, queue, stored, clock, horizon>>
    BY <1>4 DEF Rename, lookupVars, cacheVars, timeVars
  <2>2. PICK n \in Names \union {None} :
          /\ nameOf' = [nameOf EXCEPT ![u] = n]
          /\ n = None => held' = held
          /\ n # None => held' = [held EXCEPT ![n] = @ \union {u}]
    BY <1>4 DEF Rename
  <2>3. /\ held' \in [Names -> SUBSET Users]
        /\ \A m \in Names : held[m] \subseteq held'[m]
        /\ n # None => u \in held'[n]
    BY <1>0, <2>2 DEF TypeOK
  <2>4. changes' \in 0..MaxChanges
    BY <1>0, <1>4 DEF Rename, TypeOK
  <2>5. TypeOK'
    BY <1>0, <2>1, <2>2, <2>3, <2>4 DEF TypeOK
  <2>6. QueueOK'
    BY <1>0, <2>1, QueueStays
  <2>7. DatesOK' /\ KeepsLatest' /\ IndexCovers'
    BY <1>0, <2>1, <2>3, CacheStays
  <2>8. NamesOK'
    <3>1. \A v \in Users, m \in Names \union {None} : Had(v, m) => (m # None => v \in held'[m])
      BY <2>3 DEF Had
    <3>2. \A v \in Users : nameOf'[v] # None => v \in held'[nameOf'[v]]
      BY <1>0, <2>2, <2>3, <3>1 DEF NamesOK, TypeOK
    <3>3. \A l \in Lookups : fetched[l] # None /\ fetched[l].name # None =>
            fetched[l].id \in held'[fetched[l].name]
      BY <1>0, <3>1 DEF NamesOK, TypeOK, Entry
    <3>4. \A v \in Filled(users) : users[v].name # None => v \in held'[users[v].name]
      BY <1>0, <3>1 DEF NamesOK, TypeOK, Entry, Filled
    <3> QED
      BY <2>1, <3>2, <3>3, <3>4 DEF NamesOK, Had, Filled
  <2> QED
    BY <2>5, <2>6, <2>7, <2>8 DEF IInv
<1>5. CASE HourPasses
  <2>1. /\ horizon' \in horizon + 1 .. clock
        /\ UNCHANGED <<stage, key, fetched, users, index, queue, stored, clock, nameOf, changes, held>>
    BY <1>5 DEF HourPasses, lookupVars, cacheVars, vkVars
  <2>2. TypeOK'
    BY <1>0, <2>1 DEF TypeOK
  <2>3. QueueOK' /\ DatesOK' /\ NamesOK' /\ KeepsLatest' /\ IndexCovers'
    BY <1>0, <2>1 DEF QueueOK, DatesOK, NamesOK, Had, Filled, KeepsLatest, IndexCovers
  <2> QED
    BY <2>2, <2>3 DEF IInv
<1>6. CASE Restart
  BY <1>6, RestartKeeps
<1>7. CASE UNCHANGED vars
  <2>1. UNCHANGED <<stage, key, fetched, users, index, queue, stored, clock, horizon, nameOf, changes, held>>
    BY <1>7 DEF vars, lookupVars, cacheVars, timeVars, vkVars
  <2>2. TypeOK' /\ QueueOK' /\ DatesOK' /\ NamesOK' /\ KeepsLatest' /\ IndexCovers'
    BY <1>0, <2>1 DEF TypeOK, QueueOK, DatesOK, NamesOK, Had, Filled, KeepsLatest, IndexCovers
  <2> QED
    BY <2>2 DEF IInv
<1> QED
  BY <1>1, <1>2, <1>3, <1>4, <1>5, <1>6, <1>7, PersistKeeps, FallbackKeeps DEF Next, LookupStep

LEMMA InitInvariant == Init => IInv
<1> SUFFICES ASSUME Init PROVE IInv
  OBVIOUS
<1> USE CacheAssumption
<1>1. Filled(users) = {}
  BY DEF Init, Filled
<1>2. IsFiniteSet(Filled(users)) /\ Cardinality(Filled(users)) = 0
  BY <1>1, FS_EmptySet
<1>3. TypeOK
  BY <1>2 DEF Init, TypeOK, Stages, Filled
<1>4. QueueOK
  BY DEF Init, QueueOK
<1>5. DatesOK
  <2>1. clock = 0 /\ \A u \in Users : stored[u] = 0
    BY DEF Init
  <2> QED
    BY <1>1, <1>2, <2>1 DEF DatesOK
<1>6. NamesOK
  BY <1>1 DEF Init, NamesOK, Had
<1>7. KeepsLatest /\ IndexCovers
  BY DEF Init, KeepsLatest, IndexCovers
<1> QED
  BY <1>3, <1>4, <1>5, <1>6, <1>7 DEF IInv

LEMMA Invariance == Spec => []IInv
<1> QED
  BY InitInvariant, NextInvariant, PTL DEF Spec

-----------------------------------------------------------------------------
(***************************************************************************)
(* The variables keep their types, and peers.json keeps to its limit       *)
(* (evictIfNeeded).                                                        *)
(***************************************************************************)
THEOREM TypeCorrect == Spec => []TypeOK
<1>1. IInv => TypeOK
  BY DEF IInv
<1> QED
  BY <1>1, Invariance, PTL

(***************************************************************************)
(* The cache holds the users that VK told about last, each as it was told  *)
(* last, whatever the order of lookups, answers, failures and restarts     *)
(* (persist and evictIfNeeded).                                            *)
(***************************************************************************)
THEOREM LatestKept == Spec => []KeepsLatest
<1>1. IInv => KeepsLatest
  BY DEF IInv
<1> QED
  BY <1>1, Invariance, PTL

(***************************************************************************)
(* The index knows the name of every cached user and gives no name to a    *)
(* person who never had it (init and persist).                             *)
(***************************************************************************)
THEOREM IndexComplete == Spec => []IndexCovers
<1>1. IInv => IndexCovers
  BY DEF IInv
<1> QED
  BY <1>1, Invariance, PTL

===============================================================================
