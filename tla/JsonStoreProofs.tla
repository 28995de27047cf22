--------------------------- MODULE JsonStoreProofs ---------------------------
(***************************************************************************)
(* The safety of JsonStore.  What holds of every store comes first; then   *)
(* what holds of one whose file nobody removes; then what holds of such a  *)
(* store without a watcher (peers.json), up to the refinement of           *)
(* AtomicStore.                                                            *)
(***************************************************************************)
EXTENDS JsonStore, SequenceTheorems, TLAPS

-----------------------------------------------------------------------------
(***************************************************************************)
(* Every store                                                             *)
(***************************************************************************)

(***************************************************************************)
(* Only the update at the head of the chain is in atomicWrite.             *)
(***************************************************************************)
OneWriter ==
  \A u \in Updates : stage[u] \in InAtomicWrite =>
    up /\ chain # <<>> /\ Head(chain) = u

\* A process that is on its way up is not up.
Booting == boot # "no" => ~up

(***************************************************************************)
(* TypeOK needs OneWriter: an update that settles leaves the chain.        *)
(***************************************************************************)
TInv == TypeOK /\ OneWriter /\ Booting

LEMMA Stages ==
  /\ UpdateStage = {"idle", "queued", "done", "rejected", "lost",
                    "cloned", "open", "written", "renamed"}
  /\ ReloadStage = {"idle", "reading", "read", "cloned", "open", "written", "renamed"}
BY DEF UpdateStage, ReloadStage, InAtomicWrite

LEMMA Constants ==
  /\ Updates \subseteq Writers /\ Reloads \subseteq Writers
  /\ Updates \subseteq Mutations /\ Edits \subseteq Mutations
  /\ \A w \in Writers : w \in Updates \/ w \in Reloads
  /\ \A u \in Updates : u \notin Reloads
BY StoreAssumption DEF Writers, Mutations

LEMMA FileTypes ==
  /\ \A v \in SUBSET Mutations : Json(v) \in FileType
  /\ Absent \in FileType /\ Torn \in FileType
  /\ \A f \in FileType : f.value \in SUBSET Mutations
BY DEF Json, Absent, Torn, FileType

LEMMA TailType ==
  ASSUME TypeOK, chain # <<>>
  PROVE  Tail(chain) \in Seq(Updates)
BY DEF TypeOK

LEMMA TInit == Init => TInv
<1> SUFFICES ASSUME Init PROVE TInv
  OBVIOUS
<1>1. stage \in [Writers -> UpdateStage \union ReloadStage]
  BY Stages DEF Init
<1>2. chain \in Seq(Updates)
  BY DEF Init
<1>3. TypeOK
  BY <1>1, <1>2, FileTypes, Stages, Constants DEF Init, TypeOK, Defaults
<1>4. OneWriter
  BY Constants DEF Init, OneWriter, InAtomicWrite
<1> QED
  BY <1>3, <1>4 DEF TInv, Init, Booting

(***************************************************************************)
(* An update that takes its turn or is writing is at the head of the       *)
(* chain, so nobody else is writing, and nobody is when it settles.        *)
(***************************************************************************)
LEMMA Settles ==
  ASSUME TInv, NEW u \in Updates, chain # <<>>, Head(chain) = u,
         chain' = Tail(chain),
         NEW end \in {"done", "rejected"},
         stage' = [stage EXCEPT ![u] = end],
         draft' = [draft EXCEPT ![u] = {}]
  PROVE  /\ OneWriter'
         /\ chain' \in Seq(Updates)
         /\ stage' \in [Writers -> UpdateStage \union ReloadStage]
         /\ \A v \in Updates : stage'[v] \in UpdateStage
         /\ \A r \in Reloads : stage'[r] \in ReloadStage
         /\ draft' \in [Writers -> SUBSET Mutations]
<1>1. stage \in [Writers -> UpdateStage \union ReloadStage]
  BY DEF TInv, TypeOK
<1>2. \A v \in Updates : stage'[v] \notin InAtomicWrite
  BY <1>1, Constants DEF TInv, OneWriter, InAtomicWrite
<1>3. OneWriter'
  BY <1>2 DEF OneWriter
<1>4. chain' \in Seq(Updates)
  BY TailType DEF TInv
<1> QED
  BY <1>1, <1>3, <1>4, Stages, Constants DEF TInv, TypeOK

LEMMA BootingKept == Booting /\ [Next]_vars => Booting'
<1> SUFFICES ASSUME Booting, [Next]_vars PROVE Booting'
  OBVIOUS
<1> USE DEF Booting, processVars
<1>1. CASE Boot
  BY <1>1 DEF Boot, BootRead, BootCreate, BootFails, BootWatch
<1>2. CASE Crash
  BY <1>2 DEF Crash
<1>3. CASE UNCHANGED <<boot, up>>
  BY <1>3
<1>4. ASSUME NEW u \in Updates, Call(u) \/ UpdateStep(u) PROVE UNCHANGED <<boot, up>>
  BY <1>4 DEF Call, UpdateStep, Clone, RejectInvalid, Publish, UpdateFails
<1>5. ASSUME NEW w \in Writers, WriteStep(w) PROVE UNCHANGED <<boot, up>>
  BY <1>5 DEF WriteStep, Truncate, Fill, Rename
<1>6. ASSUME NEW r \in Reloads, ReloadStep(r) PROVE UNCHANGED <<boot, up>>
  BY <1>6 DEF ReloadStep, ReloadStart, ReloadRead, ReloadFails, ReloadFinish
<1>7. CASE WatchEvent \/ Unlink \/ \E e \in Edits : Edit(e)
  BY <1>3, <1>7 DEF WatchEvent, Unlink, Edit
<1>8. CASE UNCHANGED vars
  BY <1>3, <1>8 DEF vars
<1> QED
  BY <1>1, <1>2, <1>3, <1>4, <1>5, <1>6, <1>7, <1>8 DEF Next

LEMMA WithoutType ==
  ASSUME TypeOK, NEW r
  PROVE  Without(r) \in [Reloads -> SUBSET Reloads]
BY DEF Without, TypeOK

LEMMA TNext == TInv /\ [Next]_vars => TInv'
<1> SUFFICES ASSUME TInv, [Next]_vars PROVE TypeOK' /\ OneWriter'
  BY BootingKept DEF TInv
<1> DEFINE Goal == TypeOK' /\ OneWriter'
<1> USE StoreAssumption, Constants, FileTypes, Stages DEF processVars, timerVars, watchVars,
        orderVars, madeVars, envVars
<1>0. TypeOK /\ OneWriter
  BY DEF TInv
<1>1. CASE Boot
  <2>1. CASE BootRead
    <3>1. cache' \in SUBSET Mutations
      BY <1>0, <2>1 DEF BootRead, TypeOK
    <3> QED
      BY <1>0, <2>1, <3>1 DEF BootRead, TypeOK, OneWriter
  <2>2. CASE BootCreate
    <3>1. disk' \in FileType /\ tmp' \in FileType
      BY <2>2 DEF BootCreate, Defaults
    <3> QED
      BY <1>0, <2>2, <3>1 DEF BootCreate, TypeOK, OneWriter
  <2>3. CASE BootFails
    BY <1>0, <2>3 DEF BootFails, TypeOK, OneWriter
  <2>4. CASE BootWatch
    BY <1>0, <2>4 DEF BootWatch, TypeOK, OneWriter
  <2> QED
    BY <1>1, <2>1, <2>2, <2>3, <2>4 DEF Boot
<1>2. ASSUME NEW u \in Updates, Call(u) PROVE Goal
  <2>1. chain' \in Seq(Updates) /\ chain' # <<>>
    BY <1>0, <1>2, AppendProperties DEF Call, TypeOK
  <2>2. chain # <<>> => Head(chain') = Head(chain)
    BY <1>0, <1>2, HeadTailAppend DEF Call, TypeOK
  <2>3. TypeOK'
    BY <1>0, <1>2, <2>1 DEF Call, TypeOK
  <2>4. OneWriter'
    BY <1>0, <1>2, <2>1, <2>2 DEF Call, OneWriter, InAtomicWrite, TypeOK
  <2> QED
    BY <2>3, <2>4
<1>3. ASSUME NEW u \in Updates, Clone(u) PROVE Goal
  <2>1. cache \union {u} \in SUBSET Mutations
    BY <1>0 DEF TypeOK
  <2>2. TypeOK'
    BY <1>0, <1>3, <2>1 DEF Clone, TypeOK
  <2>3. OneWriter'
    BY <1>0, <1>3 DEF Clone, Turn, OneWriter, TypeOK
  <2> QED
    BY <2>2, <2>3
<1>4. ASSUME NEW u \in Updates, RejectInvalid(u) PROVE Goal
  BY <1>0, <1>4, Settles DEF RejectInvalid, Reject, Turn, TypeOK, TInv
<1>5. ASSUME NEW u \in Updates, Publish(u) PROVE Goal
  <2>1. chain # <<>> /\ Head(chain) = u
    BY <1>0, <1>5 DEF Publish, OneWriter, InAtomicWrite
  <2>2. cache' \in SUBSET Mutations
    BY <1>0, <1>5 DEF Publish, TypeOK
  <2> QED
    BY <1>0, <1>5, <2>1, <2>2, Settles DEF Publish, TypeOK, TInv
<1>6. ASSUME NEW u \in Updates, UpdateFails(u) PROVE Goal
  <2>1. chain # <<>> /\ Head(chain) = u
    BY <1>0, <1>6 DEF UpdateFails, WriteError, OneWriter, InAtomicWrite
  <2> QED
    BY <1>0, <1>6, <2>1, Settles DEF UpdateFails, Reject, TypeOK, TInv
<1>7. ASSUME NEW w \in Writers, Truncate(w) PROVE Goal
  <2>1. TypeOK'
    BY <1>0, <1>7 DEF Truncate, TypeOK
  <2>2. OneWriter'
    BY <1>0, <1>7 DEF Truncate, OneWriter, InAtomicWrite, TypeOK
  <2> QED
    BY <2>1, <2>2
<1>8. ASSUME NEW w \in Writers, Fill(w) PROVE Goal
  <2>1. disk' \in FileType /\ tmp' \in FileType /\ changed' \in BOOLEAN
        /\ watching' \in BOOLEAN /\ missed' \in BOOLEAN
    BY <1>0, <1>8 DEF Fill, TypeOK, FileModified
  <2>2. TypeOK'
    BY <1>0, <1>8, <2>1 DEF Fill, TypeOK
  <2>3. OneWriter'
    BY <1>0, <1>8 DEF Fill, OneWriter, InAtomicWrite, TypeOK
  <2> QED
    BY <2>2, <2>3
<1>9. ASSUME NEW w \in Writers, Rename(w) PROVE Goal
  <2>1. changed' \in BOOLEAN /\ watching' \in BOOLEAN /\ missed' \in BOOLEAN
    BY <1>0, <1>9 DEF Rename, TypeOK, FileReplaced
  <2>2. TypeOK'
    BY <1>0, <1>9, <2>1 DEF Rename, TypeOK
  <2>3. OneWriter'
    BY <1>0, <1>9 DEF Rename, OneWriter, InAtomicWrite, TypeOK
  <2> QED
    BY <2>2, <2>3
<1>10. CASE WatchEvent
  BY <1>0, <1>10 DEF WatchEvent, TypeOK, OneWriter
<1>11. ASSUME NEW r \in Reloads, ReloadStart(r) PROVE Goal
  BY <1>0, <1>11 DEF ReloadStart, TypeOK, OneWriter
<1>12. ASSUME NEW r \in Reloads, ReloadRead(r) PROVE Goal
  <2>1. draft' \in [Writers -> SUBSET Mutations]
    <3>1. PICK v \in SUBSET Mutations : draft' = [draft EXCEPT ![r] = v]
      BY <1>0, <1>12 DEF ReloadRead, TypeOK, Defaults
    <3> QED
      BY <1>0, <3>1 DEF TypeOK
  <2>2. older' \in [Reloads -> SUBSET Reloads]
    BY <1>0, <1>12 DEF ReloadRead, TypeOK
  <2>3. TypeOK'
    BY <1>0, <1>12, <2>1, <2>2 DEF ReloadRead, TypeOK
  <2>4. OneWriter'
    BY <1>0, <1>12 DEF ReloadRead, OneWriter, TypeOK
  <2> QED
    BY <2>3, <2>4
<1>13. ASSUME NEW r \in Reloads, ReloadFails(r) PROVE Goal
  BY <1>0, <1>13, WithoutType DEF ReloadFails, TypeOK, OneWriter
<1>14. ASSUME NEW r \in Reloads, ReloadFinish(r) PROVE Goal
  <2>1. passed' \in SUBSET Reloads /\ overtaken' \in BOOLEAN
    BY <1>0, <1>14 DEF ReloadFinish, TypeOK
  <2>2. older' \in [Reloads -> SUBSET Reloads]
    BY <1>0, <1>14, WithoutType DEF ReloadFinish
  <2> QED
    BY <1>0, <1>14, <2>1, <2>2 DEF ReloadFinish, TypeOK, OneWriter
<1>15. ASSUME NEW e \in Edits, Edit(e) PROVE Goal
  <2>1. disk.value \union {e} \in SUBSET Mutations
    BY <1>0 DEF TypeOK
  <2> QED
    BY <1>0, <1>15, <2>1 DEF Edit, FileModified, TypeOK, OneWriter
<1>16. CASE Unlink
  BY <1>0, <1>16 DEF Unlink, FileReplaced, TypeOK, OneWriter
<1>17. CASE Crash
  <2>1. /\ stage' \in [Writers -> UpdateStage \union ReloadStage]
        /\ \A u \in Updates : stage'[u] \in Settled \union {"idle"}
        /\ \A r \in Reloads : stage'[r] = "idle"
    BY <1>0, <1>17 DEF Crash, TypeOK, Settled
  <2>2. draft' \in [Writers -> SUBSET Mutations] /\ chain' \in Seq(Updates)
    BY <1>17 DEF Crash
  <2>3. /\ \A u \in Updates : stage'[u] \in UpdateStage
        /\ \A r \in Reloads : stage'[r] \in ReloadStage
    BY <2>1 DEF Settled
  <2>4. /\ UNCHANGED <<disk, tmp, saved, unlinks>> /\ boot' = "no" /\ cache' = {} /\ outlasted' = {}
        /\ up' = FALSE /\ watching' = FALSE /\ changed' = FALSE /\ reloadTimer' = FALSE
        /\ passed' = {} /\ overtaken' = FALSE /\ missed' = FALSE
        /\ older' = [r \in Reloads |-> {}] /\ crashes' = crashes + 1
    BY <1>17 DEF Crash, Defaults
  <2>5. crashes' \in Nat /\ older' \in [Reloads -> SUBSET Reloads]
    BY <1>0, <2>4 DEF TypeOK
  <2>6. TypeOK'
    BY <1>0, <2>1, <2>2, <2>3, <2>4, <2>5 DEF TypeOK
  <2>7. OneWriter'
    BY <2>1 DEF OneWriter, Settled, InAtomicWrite
  <2> QED
    BY <2>6, <2>7
<1>18. CASE UNCHANGED vars
  BY <1>0, <1>18 DEF vars, TypeOK, OneWriter
<1> QED
  BY <1>1, <1>2, <1>3, <1>4, <1>5, <1>6, <1>7, <1>8, <1>9, <1>10, <1>11, <1>12,
     <1>13, <1>14, <1>15, <1>16, <1>17, <1>18
  DEF Next, UpdateStep, WriteStep, ReloadStep

(***************************************************************************)
(* The variables keep their types.                                         *)
(***************************************************************************)
THEOREM TypeCorrect == Spec => []TypeOK
<1>1. TInv => TypeOK
  BY DEF TInv
<1> QED
  BY <1>1, TInit, TNext, PTL DEF Spec

(***************************************************************************)
(* The schema.  Every value that may become the cache, because it is being *)
(* written or has just been read, fits the schema.                         *)
(***************************************************************************)
DraftValid ==
  \A w \in Writers : stage[w] \in InAtomicWrite \union {"read"} => Valid(draft[w])
VInv == TInv /\ CacheValid /\ DraftValid

LEMMA VNext == VInv /\ [Next]_vars => VInv'
<1> SUFFICES ASSUME VInv, [Next]_vars PROVE CacheValid' /\ DraftValid'
  BY TNext DEF VInv
<1> USE Constants, Stages
<1>0. TInv /\ TypeOK /\ CacheValid /\ DraftValid
  BY DEF VInv, TInv
<1>1. CASE Boot
  BY <1>0, <1>1 DEF Boot, BootRead, BootCreate, BootFails, BootWatch, Loadable, Defaults,
                    CacheValid, DraftValid, Valid
<1>2. ASSUME NEW u \in Updates, Call(u) PROVE CacheValid' /\ DraftValid'
  BY <1>0, <1>2 DEF Call, CacheValid, DraftValid, Valid, TypeOK, InAtomicWrite
<1>3. ASSUME NEW u \in Updates, Clone(u) PROVE CacheValid' /\ DraftValid'
  BY <1>0, <1>3 DEF Clone, CacheValid, DraftValid, Valid, TypeOK
<1>4. ASSUME NEW u \in Updates, RejectInvalid(u) \/ UpdateFails(u)
      PROVE  CacheValid' /\ DraftValid'
  BY <1>0, <1>4 DEF RejectInvalid, UpdateFails, Reject, CacheValid, DraftValid, Valid,
                    TypeOK, InAtomicWrite
<1>5. ASSUME NEW u \in Updates, Publish(u) PROVE CacheValid' /\ DraftValid'
  BY <1>0, <1>5 DEF Publish, CacheValid, DraftValid, Valid, TypeOK, InAtomicWrite
<1>6. ASSUME NEW w \in Writers, Truncate(w) \/ Fill(w) \/ Rename(w)
      PROVE  CacheValid' /\ DraftValid'
  <2>1. stage[w] \in InAtomicWrite /\ cache' = cache /\ draft' = draft
    BY <1>6 DEF Truncate, Fill, Rename, InAtomicWrite
  <2>2. \A v \in Writers : v # w => stage'[v] = stage[v]
    BY <1>0, <1>6 DEF Truncate, Fill, Rename, TypeOK
  <2> QED
    BY <1>0, <2>1, <2>2 DEF CacheValid, DraftValid, Valid
<1>7. ASSUME NEW r \in Reloads, ReloadRead(r) PROVE CacheValid' /\ DraftValid'
  BY <1>0, <1>7 DEF ReloadRead, Loadable, Defaults, CacheValid, DraftValid, Valid, TypeOK
<1>8. ASSUME NEW r \in Reloads, ReloadFinish(r) PROVE CacheValid' /\ DraftValid'
  BY <1>0, <1>8 DEF ReloadFinish, CacheValid, DraftValid, Valid, TypeOK, InAtomicWrite
<1>9. ASSUME NEW r \in Reloads, ReloadStart(r) \/ ReloadFails(r)
      PROVE  CacheValid' /\ DraftValid'
  BY <1>0, <1>9 DEF ReloadStart, ReloadFails, CacheValid, DraftValid, Valid, TypeOK,
                    InAtomicWrite
<1>10. ASSUME UNCHANGED <<cache, stage, draft>> PROVE CacheValid' /\ DraftValid'
  BY <1>0, <1>10 DEF CacheValid, DraftValid, Valid
<1>11. CASE Crash
  BY <1>0, <1>11 DEF Crash, Defaults, Settled, CacheValid, DraftValid, Valid
<1>12. CASE WatchEvent \/ Unlink \/ UNCHANGED vars \/ \E e \in Edits : Edit(e)
  BY <1>10, <1>12 DEF WatchEvent, Unlink, Edit, vars
<1> QED
  BY <1>1, <1>2, <1>3, <1>4, <1>5, <1>6, <1>7, <1>8, <1>9, <1>11, <1>12
  DEF Next, UpdateStep, WriteStep, ReloadStep

(***************************************************************************)
(* What get() returns always fits the schema, whatever a person saves in   *)
(* the file and however reloads and updates overlap.                       *)
(***************************************************************************)
THEOREM SchemaHolds == Spec => []CacheValid
<1>1. Init => VInv
  BY TInit, Constants DEF Init, VInv, CacheValid, DraftValid, Valid, Defaults, InAtomicWrite
<1>2. VInv => CacheValid
  BY DEF VInv
<1> QED
  BY <1>1, <1>2, VNext, PTL DEF Spec

-----------------------------------------------------------------------------
(***************************************************************************)
(* A store whose file nobody removes, watched or not: the file is never    *)
(* half written.  A file that is removed makes a reload write the defaults *)
(* outside the chain, through the temporary name of an update.             *)
(***************************************************************************)
NeverRemoved == MaxUnlinks = 0

LEMMA NoUnlink ==
  ASSUME TypeOK, NeverRemoved
  PROVE  ~Unlink
BY DEF TypeOK, NeverRemoved, Unlink

DiskOK ==
  /\ disk.kind # "torn"
  /\ disk.kind = "absent" => disk.value = {}
  /\ up \/ boot = "loaded" => disk.kind = "json"

TmpOK ==
  \A u \in Updates :
    /\ stage[u] = "open" => tmp.kind # "absent"
    /\ stage[u] = "written" => tmp = Json(draft[u])

\* A reload finds a file, so it does not write.
ReadersOK ==
  \A r \in Reloads :
    /\ stage[r] \notin InAtomicWrite
    /\ stage[r] = "reading" => up

FInv == TInv /\ DiskOK /\ TmpOK /\ ReadersOK

LEMMA FInit == Init => FInv
<1> SUFFICES ASSUME Init PROVE FInv
  OBVIOUS
<1>1. \A w \in Writers : stage[w] = "idle"
  BY DEF Init
<1> QED
  BY <1>1, TInit, Constants DEF Init, FInv, DiskOK, TmpOK, ReadersOK, Absent, InAtomicWrite

(***************************************************************************)
(* While an update writes, no other update does.                           *)
(***************************************************************************)
LEMMA Alone ==
  ASSUME TInv, NEW u \in Updates, stage[u] \in InAtomicWrite
  PROVE  up /\ \A v \in Updates \ {u} : stage[v] \notin InAtomicWrite
BY DEF TInv, OneWriter

LEMMA AloneAtAll ==
  ASSUME FInv, NEW w \in Writers, stage[w] \in InAtomicWrite
  PROVE  /\ w \in Updates /\ up /\ \A v \in Updates \ {w} : stage[v] \notin InAtomicWrite
         /\ Others(w) = {}
<1>1. w \in Updates
  BY Constants DEF FInv, ReadersOK
<1>2. up /\ \A v \in Updates \ {w} : stage[v] \notin InAtomicWrite
  BY <1>1, Alone DEF FInv
<1> QED
  BY <1>1, <1>2, Constants DEF FInv, ReadersOK, Others, InAtomicWrite

(***************************************************************************)
(* A step of an update that does not touch the files.                      *)
(***************************************************************************)
LEMMA FilesStay ==
  ASSUME FInv, NEW u \in Updates, UNCHANGED <<boot, up, disk, tmp>>,
         NEW s \in {"queued", "cloned", "rejected", "done"}, stage' = [stage EXCEPT ![u] = s],
         NEW d, draft' = [draft EXCEPT ![u] = d]
  PROVE  DiskOK' /\ TmpOK' /\ ReadersOK'
<1>1. /\ stage'[u] = s /\ \A w \in Writers \ {u} : stage'[w] = stage[w]
      /\ \A w \in Writers \ {u} : draft'[w] = draft[w]
  BY Constants DEF FInv, TInv, TypeOK
<1>2. DiskOK'
  BY DEF FInv, DiskOK
<1>3. TmpOK'
  BY <1>1, Constants DEF FInv, TmpOK
<1>4. ReadersOK'
  BY <1>1, Constants DEF FInv, ReadersOK
<1> QED
  BY <1>2, <1>3, <1>4

\* A step of a reload that does not touch the files.
LEMMA ReloadReads ==
  ASSUME FInv, NEW r \in Reloads, UNCHANGED <<boot, up, disk, tmp>>,
         NEW s \in {"idle", "reading", "read"}, s = "reading" => up,
         stage' = [stage EXCEPT ![r] = s],
         \A u \in Updates : draft'[u] = draft[u]
  PROVE  DiskOK' /\ TmpOK' /\ ReadersOK'
<1>1. stage'[r] = s /\ \A w \in Writers \ {r} : stage'[w] = stage[w]
  BY Constants DEF FInv, TInv, TypeOK
<1>2. DiskOK'
  BY DEF FInv, DiskOK
<1>3. TmpOK'
  BY <1>1, Constants DEF FInv, TmpOK
<1>4. ReadersOK'
  BY <1>1, Constants DEF FInv, ReadersOK, InAtomicWrite
<1> QED
  BY <1>2, <1>3, <1>4

LEMMA FNext == ASSUME NeverRemoved PROVE FInv /\ [Next]_vars => FInv'
<1> SUFFICES ASSUME FInv, [Next]_vars PROVE DiskOK' /\ TmpOK' /\ ReadersOK'
  BY TNext DEF FInv
<1> DEFINE Goal == DiskOK' /\ TmpOK' /\ ReadersOK'
<1> USE Constants DEF processVars
<1>0. /\ TInv /\ DiskOK /\ TmpOK /\ ReadersOK
      /\ stage \in [Writers -> UpdateStage \union ReloadStage]
      /\ draft \in [Writers -> SUBSET Mutations]
  BY DEF FInv, TInv, TypeOK
<1>1. CASE Boot
  <2>1. CASE BootRead \/ BootFails \/ BootWatch
    BY <1>0, <2>1 DEF BootRead, BootFails, BootWatch, Loadable, DiskOK, TmpOK, ReadersOK
  <2>2. CASE BootCreate
    <3>1. \A u \in Updates : stage[u] \notin InAtomicWrite
      BY <1>0, <2>2 DEF BootCreate, TInv, OneWriter, Booting
    <3>2. UNCHANGED <<up, stage, draft>> /\ disk'.kind = "json"
      BY <2>2 DEF BootCreate, Json
    <3> QED
      BY <1>0, <3>1, <3>2 DEF DiskOK, TmpOK, ReadersOK, InAtomicWrite
  <2> QED
    BY <1>1, <2>1, <2>2 DEF Boot
<1>2. ASSUME NEW u \in Updates, Call(u) PROVE Goal
  <2>1. draft' = [draft EXCEPT ![u] = draft[u]]
    BY <1>0, <1>2 DEF Call
  <2> QED
    BY <1>2, <2>1, FilesStay DEF Call
<1>3. ASSUME NEW u \in Updates, UpdateStep(u) PROVE Goal
  <2>1. CASE Clone(u)
    BY <2>1, FilesStay DEF Clone
  <2>2. CASE RejectInvalid(u) \/ UpdateFails(u)
    BY <2>2, FilesStay DEF RejectInvalid, UpdateFails, Reject
  <2>3. CASE Publish(u)
    BY <2>3, FilesStay DEF Publish
  <2> QED
    BY <1>3, <2>1, <2>2, <2>3 DEF UpdateStep
<1>4. ASSUME NEW w \in Writers, Truncate(w) PROVE Goal
  <2>1. w \in Updates /\ \A v \in Updates \ {w} : stage[v] \notin InAtomicWrite
    BY <1>4, AloneAtAll DEF Truncate, InAtomicWrite
  <2>2. /\ UNCHANGED <<boot, up, disk, draft>> /\ tmp'.kind = "torn"
        /\ stage'[w] = "open" /\ \A v \in Writers \ {w} : stage'[v] = stage[v]
    BY <1>0, <1>4 DEF Truncate, Torn
  <2> QED
    BY <1>0, <2>1, <2>2 DEF DiskOK, TmpOK, ReadersOK, InAtomicWrite
<1>5. ASSUME NEW w \in Writers, Fill(w) PROVE Goal
  <2>1. /\ w \in Updates /\ \A v \in Updates \ {w} : stage[v] \notin InAtomicWrite
        /\ Others(w) = {}
    BY <1>5, AloneAtAll DEF Fill, InAtomicWrite
  <2>2. tmp.kind # "absent"
    BY <1>0, <1>5, <2>1 DEF TmpOK, Fill
  <2>3. /\ UNCHANGED <<boot, up, disk, draft>> /\ tmp' = Json(draft[w])
        /\ stage'[w] = "written" /\ \A v \in Writers \ {w} : stage'[v] = stage[v]
    BY <1>0, <1>5, <2>1, <2>2 DEF Fill
  <2> QED
    BY <1>0, <2>1, <2>3 DEF DiskOK, TmpOK, ReadersOK, InAtomicWrite
<1>6. ASSUME NEW w \in Writers, Rename(w) PROVE Goal
  <2>1. w \in Updates /\ \A v \in Updates \ {w} : stage[v] \notin InAtomicWrite
    BY <1>6, AloneAtAll DEF Rename, InAtomicWrite
  <2>2. tmp = Json(draft[w])
    BY <1>0, <1>6, <2>1 DEF TmpOK, Rename
  <2>3. /\ UNCHANGED <<boot, up, draft>> /\ disk'.kind = "json"
        /\ stage'[w] = "renamed" /\ \A v \in Writers \ {w} : stage'[v] = stage[v]
    BY <1>0, <1>6, <2>2 DEF Rename, Json
  <2> QED
    BY <1>0, <2>1, <2>3 DEF DiskOK, TmpOK, ReadersOK, InAtomicWrite
<1>7. ASSUME NEW r \in Reloads, ReloadStep(r) PROVE Goal
  <2>1. CASE ReloadStart(r)
    BY <2>1, ReloadReads DEF ReloadStart
  <2>2. CASE ReloadRead(r)
    <3>1. Loadable(disk) /\ stage' = [stage EXCEPT ![r] = "read"]
          /\ draft' = [draft EXCEPT ![r] = disk.value]
      BY <1>0, <2>2 DEF ReloadRead, ReadersOK, DiskOK
    <3> QED
      BY <1>0, <2>2, <3>1, ReloadReads DEF ReloadRead
  <2>3. CASE ReloadFails(r) \/ ReloadFinish(r)
    BY <1>0, <2>3, ReloadReads DEF ReloadFails, ReloadFinish
  <2> QED
    BY <1>7, <2>1, <2>2, <2>3 DEF ReloadStep
<1>8. ASSUME NEW e \in Edits, Edit(e) PROVE Goal
  BY <1>0, <1>8 DEF Edit, Json, DiskOK, TmpOK, ReadersOK
<1>9. CASE Crash
  <2>1. ~up' /\ boot' = "no" /\ disk' = disk /\ \A r \in Reloads : stage'[r] = "idle"
    BY <1>9 DEF Crash
  <2>2. \A u \in Updates : stage'[u] \in Settled \union {"idle"} \/ stage'[u] = "lost"
    BY <1>9 DEF Crash
  <2> QED
    BY <1>0, <2>1, <2>2 DEF DiskOK, TmpOK, ReadersOK, InAtomicWrite, Settled
<1>10. CASE WatchEvent \/ UNCHANGED vars
  BY <1>0, <1>10 DEF WatchEvent, vars, DiskOK, TmpOK, ReadersOK
<1>11. ~Unlink
  BY <1>0, NoUnlink DEF TInv
<1> QED
  BY <1>1, <1>2, <1>3, <1>4, <1>5, <1>6, <1>7, <1>8, <1>9, <1>10, <1>11
  DEF Next, WriteStep

(***************************************************************************)
(* The file of a store is never half written, unless somebody removes it,  *)
(* whatever updates, hand-edits, overlapping reloads and crashes do.       *)
(***************************************************************************)
THEOREM FileIsWhole == ASSUME NeverRemoved PROVE Spec => []NoTornFile
<1>1. FInv => NoTornFile
  BY DEF FInv, DiskOK, NoTornFile
<1> QED
  BY <1>1, FInit, FNext, PTL DEF Spec

-----------------------------------------------------------------------------
(***************************************************************************)
(* A store without a watcher, whose file nobody removes (peers.json): no   *)
(* accepted update is lost, nothing is read that is not on disk, and the   *)
(* store implements AtomicStore.                                           *)
(***************************************************************************)
Unwatched == Reloads = {} /\ NeverRemoved

(***************************************************************************)
(* The inductive invariant.  NoLostUpdate says nothing of the cache, but   *)
(* the next draft is a clone of the cache: the file and the cache have to  *)
(* agree on the updates (Synced), and the value on its way to the file     *)
(* through tmp has to be that clone and the update (DraftOK, TmpOK).       *)
(***************************************************************************)
DraftOK == \A u \in Updates : stage[u] \in InAtomicWrite => draft[u] = cache \union {u}

\* The cache, and the update that has been renamed and not published.
Published == cache \union {u \in Updates : stage[u] = "renamed"}

\* Only hand-edits may be in the file and not in the cache.
Synced ==
  up \/ boot = "loaded" =>
    Published \subseteq disk.value /\ disk.value \subseteq Published \union Edits

Recorded ==
  \A u \in Updates :
    /\ u \in disk.value => stage[u] \in {"renamed", "done", "lost"}
    /\ stage[u] = "done" => u \in disk.value

\* Before it is loaded nothing is served, and a file that init() creates
\* replaces no update.
DownOK ==
  /\ ~up /\ boot # "loaded" => cache = {}
  /\ boot = "create" => disk.value \subseteq Edits

UInv == FInv /\ DraftOK /\ Synced /\ Recorded /\ DownOK

LEMMA UInit == Init => UInv
<1> SUFFICES ASSUME Init PROVE UInv
  OBVIOUS
<1>1. /\ disk = Absent /\ ~up /\ boot = "no" /\ cache = {}
      /\ \A u \in Updates : stage[u] = "idle"
  BY Constants DEF Init, Defaults
<1> QED
  BY <1>1, FInit DEF UInv, DraftOK, Synced, Published, Recorded, DownOK,
                     Absent, InAtomicWrite

(***************************************************************************)
(* A step of an update that does not touch the files or the cache.         *)
(***************************************************************************)
LEMMA Waiting ==
  ASSUME UInv, NEW u \in Updates,
         UNCHANGED <<boot, up, disk, tmp, cache>>,
         NEW s \in {"queued", "cloned", "rejected"},
         stage' = [stage EXCEPT ![u] = s],
         stage[u] \notin {"renamed", "done", "lost"},
         NEW d, draft' = [draft EXCEPT ![u] = d],
         s = "cloned" => d = cache \union {u}
  PROVE  DraftOK' /\ Synced' /\ Recorded' /\ DownOK'
<1>1. stage \in [Writers -> UpdateStage \union ReloadStage] /\ DOMAIN draft = Writers
      /\ u \in Writers
  BY Constants DEF UInv, FInv, TInv, TypeOK
<1>2. /\ stage'[u] = s /\ \A v \in Updates \ {u} : stage'[v] = stage[v]
      /\ draft'[u] = d /\ \A v \in Updates \ {u} : draft'[v] = draft[v]
  BY <1>1, Constants
<1>3. DownOK'
  BY DEF UInv, DownOK
<1>4. DraftOK'
  BY <1>2 DEF UInv, DraftOK, InAtomicWrite
<1>6. Published' = Published
  BY <1>2 DEF Published
<1>7. Synced'
  BY <1>6 DEF UInv, Synced
<1>8. Recorded'
  BY <1>2 DEF UInv, Recorded
<1> QED
  BY <1>3, <1>4, <1>7, <1>8

LEMMA UNext == ASSUME Unwatched PROVE UInv /\ [Next]_vars => UInv'
<1> SUFFICES ASSUME UInv, [Next]_vars
             PROVE  DraftOK' /\ Synced' /\ Recorded' /\ DownOK'
  BY FNext DEF UInv, Unwatched
<1> DEFINE Goal == DraftOK' /\ Synced' /\ Recorded' /\ DownOK'
<1> USE Constants DEF processVars
<1>0. /\ TInv /\ DiskOK /\ DraftOK /\ TmpOK /\ Synced /\ Recorded /\ DownOK /\ Booting
      /\ stage \in [Writers -> UpdateStage \union ReloadStage]
      /\ draft \in [Writers -> SUBSET Mutations]
      /\ Writers = Updates
      /\ disk \in FileType /\ tmp \in FileType
  BY DEF UInv, FInv, TInv, TypeOK, Writers, Unwatched
<1>1. CASE Boot
  <2>1. \A u \in Updates : stage[u] \notin InAtomicWrite
    <3>1. ~up
      BY <1>0, <1>1 DEF Boot, BootRead, BootCreate, BootFails, BootWatch, Booting
    <3> QED
      BY <1>0, <3>1 DEF TInv, OneWriter
  <2>2. \A u \in Updates : stage[u] # "renamed"
    BY <2>1 DEF InAtomicWrite
  <2>3. stage' = stage /\ draft' = draft
    BY <1>1 DEF Boot, BootRead, BootCreate, BootFails, BootWatch
  <2>4. DraftOK'
    BY <2>1, <2>3 DEF DraftOK
  <2>5. Published = cache /\ Published' = cache'
    BY <2>2, <2>3 DEF Published
  <2>6. CASE BootRead
    <3>1. CASE Loadable(disk) /\ cache' = disk.value /\ boot' = "loaded"
      BY <1>0, <2>3, <2>4, <2>5, <2>6, <3>1 DEF BootRead, Synced, Recorded, DownOK
    <3>2. CASE disk.kind = "absent" /\ boot' = "create" /\ cache' = cache
      <4>1. disk.value = {} /\ disk' = disk /\ ~up' /\ ~up /\ boot = "no"
        BY <1>0, <2>6, <3>2 DEF BootRead, DiskOK
      <4> QED
        BY <1>0, <2>3, <2>4, <3>2, <4>1 DEF Synced, Recorded, DownOK
    <3> QED
      BY <2>6, <3>1, <3>2 DEF BootRead
  <2>7. CASE BootCreate
    <3>1. /\ boot = "create" /\ ~up /\ boot' = "loaded" /\ cache' = cache
          /\ disk'.value = {}
      BY <1>0, <2>7 DEF BootCreate, Booting, Json, Defaults
    <3>2. cache = {} /\ disk.value \subseteq Edits
      BY <1>0, <3>1 DEF DownOK
    <3>3. Synced' /\ DownOK'
      BY <2>5, <3>1, <3>2 DEF Synced, DownOK
    <3>4. Recorded'
      BY <1>0, <2>3, <3>1, <3>2, StoreAssumption DEF Recorded
    <3> QED
      BY <2>4, <3>3, <3>4
  <2>8. CASE BootFails \/ BootWatch
    BY <1>0, <2>3, <2>4, <2>5, <2>8 DEF BootFails, BootWatch, Synced, Recorded, DownOK, Booting
  <2> QED
    BY <1>1, <2>6, <2>7, <2>8 DEF Boot
<1>2. ASSUME NEW u \in Updates, Call(u) PROVE Goal
  <2>1. draft' = [draft EXCEPT ![u] = draft[u]]
    BY <1>0, <1>2 DEF Call
  <2>2. stage[u] = "idle" /\ stage' = [stage EXCEPT ![u] = "queued"]
        /\ UNCHANGED <<boot, up, disk, tmp, cache>>
    BY <1>2 DEF Call
  <2> QED
    BY <2>1, <2>2, Waiting
<1>3. ASSUME NEW u \in Updates, Clone(u) PROVE Goal
  <2>1. /\ stage[u] = "queued" /\ stage' = [stage EXCEPT ![u] = "cloned"]
        /\ draft' = [draft EXCEPT ![u] = cache \union {u}]
        /\ UNCHANGED <<boot, up, disk, tmp, cache>>
    BY <1>3 DEF Clone, Turn
  <2> QED
    BY <2>1, Waiting
<1>4. ASSUME NEW u \in Updates, RejectInvalid(u) PROVE Goal
  BY <1>4, Waiting DEF RejectInvalid, Reject, Turn
<1>5. ASSUME NEW u \in Updates, UpdateFails(u) PROVE Goal
  BY <1>5, Waiting DEF UpdateFails, Reject, WriteError
<1>6. ASSUME NEW u \in Updates, Publish(u) PROVE Goal
  <2>1. stage[u] = "renamed" /\ up /\ \A v \in Updates \ {u} : stage[v] \notin InAtomicWrite
    BY <1>0, <1>6, Alone DEF Publish, InAtomicWrite
  <2>2. /\ UNCHANGED <<boot, up, disk, tmp>> /\ cache' = cache \union {u}
        /\ stage' = [stage EXCEPT ![u] = "done"]
    BY <1>0, <1>6, <2>1 DEF Publish, DraftOK, InAtomicWrite
  <2>3. stage'[u] = "done" /\ \A v \in Updates \ {u} : stage'[v] = stage[v]
    BY <1>0, <2>2
  <2>4. DownOK'
    BY <1>0, <2>1, <2>2 DEF DownOK, Booting
  <2>5. DraftOK'
    BY <2>1, <2>3 DEF DraftOK, InAtomicWrite
  <2>6. Published' = Published
    BY <2>1, <2>2, <2>3 DEF Published, InAtomicWrite
  <2>7. u \in disk.value
    BY <1>0, <2>1 DEF Synced, Published
  <2>8. Synced' /\ Recorded'
    BY <1>0, <2>2, <2>3, <2>6, <2>7 DEF Synced, Recorded
  <2> QED
    BY <2>4, <2>5, <2>8
<1>7. ASSUME NEW u \in Updates, Truncate(u) PROVE Goal
  <2>1. stage[u] = "cloned" /\ up /\ \A v \in Updates \ {u} : stage[v] \notin InAtomicWrite
    BY <1>0, <1>7, Alone DEF Truncate, InAtomicWrite
  <2>2. /\ UNCHANGED <<boot, up, disk, cache, draft>> /\ tmp'.kind = "torn"
        /\ stage'[u] = "open" /\ \A v \in Updates \ {u} : stage'[v] = stage[v]
    BY <1>0, <1>7 DEF Truncate, Torn
  <2>3. DownOK' /\ DraftOK'
    BY <1>0, <2>1, <2>2 DEF DownOK, Booting, DraftOK, InAtomicWrite
  <2>4. Published' = Published
    BY <2>1, <2>2 DEF Published
  <2>5. Synced' /\ Recorded'
    BY <1>0, <2>1, <2>2, <2>4 DEF Synced, Recorded
  <2> QED
    BY <2>3, <2>5
<1>8. ASSUME NEW u \in Updates, Fill(u) PROVE Goal
  <2>1. stage[u] = "open" /\ up /\ \A v \in Updates \ {u} : stage[v] \notin InAtomicWrite
    BY <1>0, <1>8, Alone DEF Fill, InAtomicWrite
  <2>2. tmp.kind # "absent" /\ Others(u) = {}
    BY <1>0, <2>1 DEF TmpOK, Others, InAtomicWrite
  <2>3. /\ UNCHANGED <<boot, up, disk, cache, draft>> /\ tmp' = Json(draft[u])
        /\ stage'[u] = "written" /\ \A v \in Updates \ {u} : stage'[v] = stage[v]
    BY <1>0, <1>8, <2>2 DEF Fill
  <2>4. DownOK' /\ DraftOK'
    BY <1>0, <2>1, <2>3 DEF DownOK, Booting, DraftOK, InAtomicWrite
  <2>5. Published' = Published
    BY <2>1, <2>3 DEF Published
  <2>6. Synced' /\ Recorded'
    BY <1>0, <2>1, <2>3, <2>5 DEF Synced, Recorded
  <2> QED
    BY <2>4, <2>6
<1>9. ASSUME NEW u \in Updates, Rename(u) PROVE Goal
  <2>1. stage[u] = "written" /\ up /\ \A v \in Updates \ {u} : stage[v] \notin InAtomicWrite
    BY <1>0, <1>9, Alone DEF Rename, InAtomicWrite
  <2>2. tmp = Json(cache \union {u}) /\ draft[u] = cache \union {u}
    BY <1>0, <2>1 DEF TmpOK, DraftOK, InAtomicWrite
  <2>3. /\ UNCHANGED <<boot, up, cache, draft>>
        /\ disk'.kind = "json" /\ disk'.value = cache \union {u}
        /\ stage'[u] = "renamed" /\ \A v \in Updates \ {u} : stage'[v] = stage[v]
    BY <1>0, <1>9, <2>2 DEF Rename, Json
  <2>4. DownOK' /\ DraftOK'
    BY <1>0, <2>1, <2>2, <2>3 DEF DownOK, Booting, DraftOK, InAtomicWrite
  <2>5. Published = cache /\ Published' = cache \union {u}
    BY <2>1, <2>3 DEF Published, InAtomicWrite
  <2>6. \A v \in Updates : v \in disk.value <=> v \in cache
    BY <1>0, <2>1, <2>5, StoreAssumption DEF Synced
  <2>7. Synced' /\ Recorded'
    BY <1>0, <2>1, <2>3, <2>5, <2>6 DEF Synced, Recorded
  <2> QED
    BY <2>4, <2>7
<1>10. ASSUME NEW e \in Edits, Edit(e) PROVE Goal
  <2>1. /\ UNCHANGED <<boot, up, tmp, cache, stage, draft>>
        /\ disk'.kind = "json" /\ disk'.value = disk.value \union {e}
    BY <1>10 DEF Edit, Json
  <2>2. e \notin Updates
    BY StoreAssumption
  <2>3. Published' = Published
    BY <2>1 DEF Published
  <2>4. DownOK' /\ DraftOK'
    BY <1>0, <2>1 DEF DownOK, Booting, DraftOK
  <2>5. Synced' /\ Recorded'
    BY <1>0, <2>1, <2>2, <2>3 DEF Synced, Recorded
  <2> QED
    BY <2>4, <2>5
<1>11. CASE Crash
  <2>1. /\ ~up' /\ boot' = "no" /\ disk' = disk /\ cache' = {}
        /\ \A u \in Updates : stage'[u] = IF stage[u] \in Settled \union {"idle"}
                                          THEN stage[u] ELSE "lost"
    BY <1>0, <1>11 DEF Crash, Defaults, Unwatched
  <2>2. DownOK' /\ Synced'
    BY <1>0, <2>1 DEF DownOK, Synced
  <2>3. DraftOK' /\ Recorded'
    BY <1>0, <2>1 DEF DraftOK, Recorded, Settled, InAtomicWrite
  <2> QED
    BY <2>2, <2>3
<1>12. ASSUME UNCHANGED <<boot, up, disk, tmp, cache, stage, draft>> PROVE Goal
  BY <1>0, <1>12 DEF DraftOK, Synced, Published, Recorded, DownOK
<1>13. CASE WatchEvent \/ UNCHANGED vars
  BY <1>12, <1>13 DEF WatchEvent, vars
<1>14. ~Unlink
  BY <1>0, NoUnlink DEF TInv, Unwatched
<1> QED
  BY <1>0, <1>1, <1>2, <1>3, <1>4, <1>5, <1>6, <1>7, <1>8, <1>9, <1>10, <1>11, <1>13, <1>14
  DEF Next, UpdateStep, WriteStep, Unwatched

-----------------------------------------------------------------------------
(***************************************************************************)
(* An accepted update stays in the file.                                   *)
(***************************************************************************)
THEOREM UpdatesAreKept == ASSUME Unwatched PROVE Spec => []NoLostUpdate
<1>1. UInv => NoLostUpdate
  <2> SUFFICES ASSUME UInv, NEW u \in Updates, stage[u] = "done"
               PROVE  disk.kind = "json" /\ u \in disk.value
    BY DEF NoLostUpdate
  <2>1. u \in disk.value /\ disk.kind \in {"json", "absent", "torn"}
    BY DEF UInv, FInv, Recorded, TInv, TypeOK, FileType
  <2> QED
    BY <2>1 DEF UInv, FInv, DiskOK
<1> QED
  BY <1>1, UInit, UNext, PTL DEF Spec

(***************************************************************************)
(* get() shows no update that is not in the file.                          *)
(***************************************************************************)
THEOREM ReadsAreClean == ASSUME Unwatched PROVE Spec => []NoDirtyRead
<1>1. UInv => NoDirtyRead
  BY DEF UInv, NoDirtyRead, DownOK, Synced, Published, Recorded
<1> QED
  BY <1>1, UInit, UNext, PTL DEF Spec

-----------------------------------------------------------------------------
(***************************************************************************)
(* The refinement: what a step does to the cell's status.                  *)
(***************************************************************************)
LEMMA StatusMoves ==
  ASSUME UInv, NEW u \in Updates, NEW s, stage' = [stage EXCEPT ![u] = s]
  PROVE  CellStatus' = [CellStatus EXCEPT ![u] = StatusOf(s)]
<1>1. u \in Writers /\ Updates \subseteq Writers /\ DOMAIN stage = Writers
  BY Constants DEF UInv, FInv, TInv, TypeOK
<1>2. \A v \in Updates : stage'[v] = IF v = u THEN s ELSE stage[v]
  BY <1>1
<1> QED
  BY <1>2 DEF CellStatus, StatusOf

\* A step of one update inside atomicWrite before the rename.
LEMMA StatusStays ==
  ASSUME UInv, NEW u \in Updates, NEW s, stage' = [stage EXCEPT ![u] = s],
         StatusOf(s) = StatusOf(stage[u])
  PROVE  CellStatus' = CellStatus
<1>1. CellStatus' = [CellStatus EXCEPT ![u] = StatusOf(stage[u])]
  BY StatusMoves
<1> QED
  BY <1>1 DEF CellStatus

LEMMA CellInit == Init => Cell!Init
<1> SUFFICES ASSUME Init PROVE Cell!Init
  OBVIOUS
<1>1. disk.value = {} /\ \A u \in Updates : stage[u] = "idle"
  BY Constants DEF Init, Absent
<1> QED
  BY <1>1 DEF Cell!Init, CellStatus, StatusOf

LEMMA CellNext == ASSUME Unwatched PROVE UInv /\ [Next]_vars => [Cell!Next]_(Cell!vars)
<1> SUFFICES ASSUME UInv, [Next]_vars PROVE Cell!Next \/ UNCHANGED <<disk.value, CellStatus>>
  BY DEF Cell!vars
<1> DEFINE Goal == Cell!Next \/ UNCHANGED <<disk.value, CellStatus>>
<1> USE Constants
<1>0. /\ TInv /\ DiskOK /\ DraftOK /\ TmpOK /\ Synced /\ DownOK
      /\ Writers = Updates
  BY DEF UInv, FInv, Writers, Unwatched
<1>1. CASE Boot
  <2>1. stage' = stage
    BY <1>1 DEF Boot, BootRead, BootCreate, BootFails, BootWatch
  <2>2. CASE BootCreate
    <3>1. disk.value \subseteq Edits /\ disk'.value = {}
      BY <1>0, <2>2 DEF BootCreate, DownOK, Json, Defaults
    <3>2. Cell!Create
      BY <2>1, <3>1 DEF Cell!Create, CellStatus
    <3> QED
      BY <3>2 DEF Cell!Next
  <2>3. CASE BootRead \/ BootFails \/ BootWatch
    BY <2>1, <2>3 DEF BootRead, BootFails, BootWatch, CellStatus
  <2> QED
    BY <1>1, <2>2, <2>3 DEF Boot
<1>2. ASSUME NEW u \in Updates, Call(u) PROVE Goal
  <2>1. CellStatus' = [CellStatus EXCEPT ![u] = StatusOf("queued")] /\ disk' = disk
    BY <1>2, StatusMoves DEF Call
  <2>2. CellStatus[u] = "idle"
    BY <1>2 DEF Call, CellStatus, StatusOf
  <2>3. Cell!Call(u)
    BY <2>1, <2>2 DEF Cell!Call, Cell!Move, StatusOf
  <2> QED
    BY <2>3 DEF Cell!Next
<1>3. ASSUME NEW u \in Updates, Clone(u) PROVE Goal
  BY <1>3, StatusStays DEF Clone, Turn, StatusOf
<1>4. ASSUME NEW u \in Updates, Reject(u), disk' = disk,
             stage[u] \in {"queued", "cloned", "open", "written"}
      PROVE  Goal
  <2>1. CellStatus' = [CellStatus EXCEPT ![u] = StatusOf("rejected")]
    BY <1>4, StatusMoves DEF Reject
  <2>2. CellStatus[u] = "pending"
    BY <1>4 DEF CellStatus, StatusOf
  <2>3. Cell!Reject(u)
    BY <1>4, <2>1, <2>2 DEF Cell!Reject, Cell!Move, StatusOf
  <2> QED
    BY <2>3 DEF Cell!Next
<1>5. ASSUME NEW u \in Updates, RejectInvalid(u) PROVE Goal
  BY <1>4, <1>5 DEF RejectInvalid, Turn
<1>6. ASSUME NEW u \in Updates, UpdateFails(u) PROVE Goal
  BY <1>4, <1>6 DEF UpdateFails, WriteError
<1>7. ASSUME NEW u \in Updates, Publish(u) PROVE Goal
  <2>1. CellStatus' = [CellStatus EXCEPT ![u] = StatusOf("done")] /\ disk' = disk
    BY <1>7, StatusMoves DEF Publish
  <2>2. CellStatus[u] = "committed"
    BY <1>7 DEF Publish, CellStatus, StatusOf
  <2>3. Cell!Acknowledge(u)
    BY <2>1, <2>2 DEF Cell!Acknowledge, Cell!Move, StatusOf
  <2> QED
    BY <2>3 DEF Cell!Next
<1>8. ASSUME NEW u \in Updates, Truncate(u) PROVE Goal
  BY <1>8, StatusStays DEF Truncate, StatusOf
<1>9. ASSUME NEW u \in Updates, Fill(u) PROVE Goal
  <2>1. disk' = disk
    BY <1>0, <1>9 DEF Fill, TmpOK
  <2> QED
    BY <1>9, <2>1, StatusStays DEF Fill, StatusOf
<1>10. ASSUME NEW u \in Updates, Rename(u) PROVE Goal
  <2>1. stage[u] = "written" /\ up /\ \A v \in Updates \ {u} : stage[v] \notin InAtomicWrite
    BY <1>0, <1>10, Alone DEF Rename, InAtomicWrite
  <2>2. disk'.value = cache \union {u}
    BY <1>0, <1>10, <2>1 DEF Rename, TmpOK, DraftOK, InAtomicWrite, Json
  <2>3. Published = cache
    BY <2>1 DEF Published, InAtomicWrite
  <2>4. cache \subseteq disk.value /\ disk.value \ cache \in SUBSET Edits
    BY <1>0, <2>1, <2>3 DEF Synced
  <2>5. disk'.value = (disk.value \ (disk.value \ cache)) \union {u}
    BY <2>2, <2>4
  <2>6. CellStatus' = [CellStatus EXCEPT ![u] = StatusOf("renamed")] /\ CellStatus[u] = "pending"
    BY <1>10, <2>1, StatusMoves DEF Rename, CellStatus, StatusOf
  <2>7. Cell!Commit(u)
    BY <2>4, <2>5, <2>6 DEF Cell!Commit, Cell!Move, StatusOf
  <2> QED
    BY <2>7 DEF Cell!Next
<1>11. ASSUME NEW e \in Edits, Edit(e) PROVE Goal
  <2>1. disk'.value = disk.value \union {e} /\ stage' = stage
    BY <1>11 DEF Edit, Json
  <2>2. Cell!Edit(e)
    BY <2>1 DEF Cell!Edit, CellStatus
  <2> QED
    BY <2>2 DEF Cell!Next
<1>12. CASE Crash
  <2>1. disk' = disk /\ \A u \in Updates :
          stage'[u] = IF stage[u] \in Settled \union {"idle"} THEN stage[u] ELSE "lost"
    BY <1>0, <1>12 DEF Crash, Unwatched
  <2>2. \A u \in Updates : stage[u] \in UpdateStage
    BY <1>0 DEF TInv, TypeOK
  <2>3. \A u \in Updates : StatusOf(stage'[u]) =
          IF StatusOf(stage[u]) \in {"pending", "committed"} THEN "lost" ELSE StatusOf(stage[u])
    BY <2>1, <2>2, Stages DEF StatusOf, Settled
  <2>4. Cell!Crash
    BY <2>1, <2>3 DEF Cell!Crash, CellStatus
  <2> QED
    BY <2>4 DEF Cell!Next
<1>13. CASE WatchEvent \/ UNCHANGED vars
  BY <1>13 DEF WatchEvent, vars, CellStatus
<1>14. ~Unlink
  BY <1>0, NoUnlink DEF TInv, Unwatched
<1> QED
  BY <1>0, <1>1, <1>2, <1>3, <1>5, <1>6, <1>7, <1>8, <1>9, <1>10, <1>11, <1>12, <1>13, <1>14
  DEF Next, UpdateStep, WriteStep, Unwatched

(***************************************************************************)
(* The store implements AtomicStore: its rename is the commit point.       *)
(***************************************************************************)
THEOREM StoreIsAtomic == ASSUME Unwatched PROVE Spec => ImplementsAtomicStore
<1> QED
  BY CellInit, CellNext, UInit, UNext, PTL DEF Spec, ImplementsAtomicStore, Cell!Spec
==============================================================================
