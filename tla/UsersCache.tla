------------------------------ MODULE UsersCache ------------------------------
(***************************************************************************)
(* The cache of VK users (server/src/modules/users/users.cache.ts): the    *)
(* entries of peers.json and the index of screen names, while people       *)
(* change their screen names and lookups race.                             *)
(*                                                                         *)
(* peers.json is a JsonStore: an update takes effect in one step when its  *)
(* turn in the chain comes, which is what AtomicStore promises, or fails.  *)
(* A lookup waits twice: for VK and for its turn.  The clock counts VK's   *)
(* answers, so that no two have the same cachedAt and none is dated before *)
(* an earlier one (the code's wall clock may tie or be set back); an hour  *)
(* passes when the horizon moves up to a later answer.                     *)
(***************************************************************************)
EXTENDS Naturals, Sequences, FiniteSets

CONSTANTS
  Users,      \* numeric ids of people
  Names,      \* screen names
  None,       \* no value
  Lookups,    \* calls of getFull and resolveScreenName that may be under way at once
  Limit,      \* LRU_LIMIT, 10000 in the code
  MaxAnswers, \* bound on VK's answers
  MaxChanges  \* bound on the changes of screen names

\* UserEntry: "at" is its cachedAt.
Entry == [id : Users, name : Names \union {None}, at : Nat]

ASSUME CacheAssumption ==
  /\ Users \subseteq Nat
  /\ Users \intersect Names = {}
  /\ None \notin Users \union Names \union Entry
  /\ Limit \in Nat \ {0}
  /\ MaxAnswers \in Nat
  /\ MaxChanges \in Nat

VARIABLES
  users,    \* peers.json: the entry of each user
  index,    \* screenToId
  stage,    \* how far each lookup has got; "idle" before, between and after
  key,      \* what it looks up: a user or a name
  fetched,  \* what VK has told it
  queue,    \* the lookups whose update waits in the store's chain
  clock,    \* Date.now(), in answers
  horizon,  \* entries from this time and before are stale
  nameOf,   \* VK: everybody's screen name
  changes,  \* of screen names so far (bounded by MaxChanges)
  stored,   \* when each user was last stored, 0 if never (history)
  held      \* who has had each name (history)

lookupVars == <<stage, key, fetched>>
cacheVars == <<users, index, queue, stored>>
timeVars == <<clock, horizon>>
vkVars == <<nameOf, changes, held>>
vars == <<lookupVars, cacheVars, timeVars, vkVars>>

Stages == {"idle", "asked", "read", "queued"}

Init ==
  /\ users = [u \in Users |-> None]
  /\ index = [n \in Names |-> None]
  /\ stage = [l \in Lookups |-> "idle"]
  /\ key = [l \in Lookups |-> None]
  /\ fetched = [l \in Lookups |-> None]
  /\ queue = <<>>
  /\ clock = 0
  /\ horizon = 0
  /\ nameOf \in [Users -> Names \union {None}]
  /\ \A u, v \in Users : u # v /\ nameOf[u] = nameOf[v] => nameOf[u] = None
  /\ changes = 0
  /\ stored = [u \in Users |-> 0]
  /\ held = [n \in Names |-> {u \in Users : nameOf[u] = n}]

-----------------------------------------------------------------------------
(***************************************************************************)
(* getFull and resolveScreenName                                           *)
(***************************************************************************)

\* getFull and resolveScreenName answer without VK: a fresh entry, or a name
\* in the index.  Nothing changes then.
Served(k) == IF k \in Users THEN users[k] # None /\ users[k].at > horizon ELSE index[k] # None

Ask(l) ==
  /\ stage[l] = "idle"
  /\ stage' = [stage EXCEPT ![l] = "asked"]
  /\ \E k \in Users \union Names : ~Served(k) /\ key' = [key EXCEPT ![l] = k]
  /\ UNCHANGED <<fetched, cacheVars, timeVars, vkVars>>

\* These lookups return.
End(ending) ==
  /\ stage' = [l \in Lookups |-> IF l \in ending THEN "idle" ELSE stage[l]]
  /\ key' = [l \in Lookups |-> IF l \in ending THEN None ELSE key[l]]
  /\ fetched' = [l \in Lookups |-> IF l \in ending THEN None ELSE fetched[l]]

-----------------------------------------------------------------------------
(***************************************************************************)
(* fetchOne and persist                                                    *)
(***************************************************************************)

\* VK looks the person up; nobody may have the name.
VkReads(l) ==
  /\ stage[l] = "asked"
  /\ stage' = [stage EXCEPT ![l] = "read"]
  /\ \/ \E u \in Users :
          /\ u = key[l] \/ (key[l] \in Names /\ nameOf[u] = key[l])
          /\ fetched' = [fetched EXCEPT ![l] = [id |-> u, name |-> nameOf[u], at |-> 0]]
     \/ /\ key[l] \in Names
        /\ \A u \in Users : nameOf[u] # key[l]
        /\ UNCHANGED fetched
  /\ UNCHANGED <<key, cacheVars, timeVars, vkVars>>

\* The answer arrives, is dated and waits for its turn in the chain.
Arrive(l) ==
  /\ stage[l] = "read"
  /\ fetched[l] # None
  /\ clock < MaxAnswers
  /\ clock' = clock + 1
  /\ fetched' = [fetched EXCEPT ![l].at = clock + 1]
  /\ queue' = Append(queue, l)
  /\ stage' = [stage EXCEPT ![l] = "queued"]
  /\ UNCHANGED <<key, users, index, stored, horizon, vkVars>>

Newer(us, u) == {v \in Users : us[v] # None /\ us[v].at > us[u].at}

\* Fault: the newest entries are dropped.
FaultEvicted(us) ==
  [u \in Users |-> IF /\ us[u] # None
                      /\ Cardinality({v \in Users : us[v] # None /\ us[v].at < us[u].at}) >= Limit
                   THEN None ELSE us[u]]

\* Fault: the limit is exceeded by one.
FaultEvictLate(us) ==
  [u \in Users |-> IF us[u] # None /\ Cardinality(Newer(us, u)) > Limit THEN None ELSE us[u]]

\* evictIfNeeded: the Limit latest entries stay.
Evicted(us) ==
  [u \in Users |-> IF us[u] # None /\ Cardinality(Newer(us, u)) >= Limit THEN None ELSE us[u]]

\* Fault: only lookups by name feed the index.
FaultIndexed(l, e) == IF key[l] \in Names THEN [index EXCEPT ![e.name] = e.id] ELSE index

\* The entry's name points to its user.
Indexed(l, e) == IF e.name # None THEN [index EXCEPT ![e.name] = e.id] ELSE index

Turn(l) == stage[l] = "queued" /\ Head(queue) = l

\* persist: the entry is stored, the oldest make room, and the name is indexed.
Persist(l) ==
  LET e == fetched[l] IN
  /\ Turn(l)
  /\ queue' = Tail(queue)
  /\ users' = Evicted([users EXCEPT ![e.id] = e])
  /\ index' = Indexed(l, e)
  /\ stored' = [stored EXCEPT ![e.id] = e.at]
  /\ End({l})
  /\ UNCHANGED <<timeVars, vkVars>>

\* Fault: a failed update keeps its place in the chain.
FaultLeave(l) == queue

\* An update that fails has had its turn.
Leave(l) == IF Turn(l) THEN Tail(queue) ELSE queue

\* VK knows nobody, the call throws, or the update fails: the stale entry,
\* the name "user_1" or nothing is returned, and the cache stays as it is.
Fallback(l) ==
  /\ stage[l] \in {"asked", "read"} \/ Turn(l)
  /\ queue' = Leave(l)
  /\ End({l})
  /\ UNCHANGED <<users, index, stored, timeVars, vkVars>>

-----------------------------------------------------------------------------
\* VK: a person takes a free name, or none.
Rename(u) ==
  /\ changes < MaxChanges
  /\ changes' = changes + 1
  /\ \/ /\ nameOf' = [nameOf EXCEPT ![u] = None]
        /\ UNCHANGED held
     \/ \E n \in Names :
          /\ \A v \in Users : nameOf[v] # n
          /\ nameOf' = [nameOf EXCEPT ![u] = n]
          /\ held' = [held EXCEPT ![n] = @ \union {u}]
  /\ UNCHANGED <<lookupVars, cacheVars, timeVars>>

\* An hour after some answer.
HourPasses ==
  /\ horizon' \in horizon + 1 .. clock
  /\ UNCHANGED <<lookupVars, cacheVars, clock, vkVars>>

\* init: the users are listed in ascending order, and the last one with a
\* name gets it.
Rebuilt ==
  [n \in Names |->
     LET named == {u \in Users : users[u] # None /\ users[u].name = n} IN
     IF named = {} THEN None ELSE CHOOSE u \in named : \A v \in named : v <= u]

\* The process restarts.
Restart ==
  /\ index' = Rebuilt
  /\ queue' = <<>>
  /\ End(Lookups)
  /\ UNCHANGED <<users, stored, timeVars, vkVars>>

LookupStep(l) == VkReads(l) \/ Arrive(l) \/ Persist(l) \/ Fallback(l)

Next ==
  \/ \E l \in Lookups : Ask(l) \/ LookupStep(l)
  \/ \E u \in Users : Rename(u)
  \/ HourPasses
  \/ Restart

(***************************************************************************)
(* VK answers or the HTTP call times out, and a turn in the chain comes.   *)
(***************************************************************************)
Fairness == \A l \in Lookups : WF_vars(LookupStep(l))

Spec == Init /\ [][Next]_vars /\ Fairness

-----------------------------------------------------------------------------
(***************************************************************************)
(* The types of the variables; peers.json keeps to its limit.              *)
(***************************************************************************)
TypeOK ==
  /\ users \in [Users -> Entry \union {None}]
  /\ Cardinality({u \in Users : users[u] # None}) <= Limit
  /\ index \in [Names -> Users \union {None}]
  /\ stage \in [Lookups -> Stages]
  /\ key \in [Lookups -> Users \union Names \union {None}]
  /\ fetched \in [Lookups -> Entry \union {None}]
  /\ queue \in Seq(Lookups)
  /\ clock \in 0 .. MaxAnswers
  /\ horizon \in 0 .. clock
  /\ nameOf \in [Users -> Names \union {None}]
  /\ changes \in 0 .. MaxChanges
  /\ stored \in [Users -> Nat]
  /\ held \in [Names -> SUBSET Users]

(***************************************************************************)
(* The cache holds the users whose answers arrived last, each as it was    *)
(* stored last, in whatever order lookups began, failed or were cut short  *)
(* by a restart (persist and evictIfNeeded).                               *)
(***************************************************************************)
KeepsLatest ==
  \A u \in Users :
    /\ users[u] # None => users[u].at = stored[u] /\ users[u].id = u
    /\ users[u] = None /\ stored[u] > 0 =>
         /\ Cardinality({v \in Users : users[v] # None}) = Limit
         /\ \A v \in Users : users[v] # None => users[v].at > stored[u]

(***************************************************************************)
(* The index knows the name of every cached user, and gives no name to a   *)
(* person who never had it, however names change hands between the answers *)
(* of VK and across evictions and restarts (init, persist).  It may give   *)
(* it to one who has lost it or who is no longer cached: the code never    *)
(* takes a name out of the index.                                          *)
(***************************************************************************)
IndexCovers ==
  /\ \A u \in Users : users[u] # None /\ users[u].name # None => index[users[u].name] # None
  /\ \A n \in Names : index[n] # None => index[n] \in held[n]

(***************************************************************************)
(* Every lookup returns: a channel notification never waits for a name     *)
(* that does not come, and a failed update does not block the lookups      *)
(* behind it (resolve "always returns some string").                       *)
(***************************************************************************)
LookupsReturn == \A l \in Lookups : stage[l] # "idle" ~> stage[l] = "idle"
===============================================================================
