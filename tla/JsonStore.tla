------------------------------ MODULE JsonStore ------------------------------
(***************************************************************************)
(* One JsonStore (server/src/state/json-store.ts) and, when it is watched, *)
(* the fs.watch reload that AccessStore adds to it                         *)
(* (server/src/modules/access/access.store.ts).                            *)
(*                                                                         *)
(* Every await of the code is a point where other callbacks run, so each   *)
(* asynchronous file operation is an action of its own; the synchronous    *)
(* code between two awaits is part of one action.                          *)
(*                                                                         *)
(* A stored value is abstracted to the set of mutations it contains: the   *)
(* update() calls and hand-edits applied to it.  The defaults are {}.      *)
(***************************************************************************)
EXTENDS Naturals, Sequences

CONSTANTS
  Updates,     \* calls of update(), each made at most once
  Edits,       \* saves of the file by a person or another program
  Invalid,     \* the mutations whose result fails the schema
  Reloads,     \* reload() calls that may overlap; {} for an unwatched store
  MaxUnlinks,  \* bound on how often another program removes the file
  PathWatch,   \* TRUE if fs.watch follows the name, FALSE if it follows the inode
  MaxCrashes   \* bound on the number of process crashes

Mutations == Updates \union Edits
Writers == Updates \union Reloads

ASSUME StoreAssumption ==
  /\ Updates \intersect Edits = {}
  /\ Updates \intersect Reloads = {}
  /\ Invalid \subseteq Mutations
  /\ MaxUnlinks \in Nat
  /\ PathWatch \in BOOLEAN
  /\ MaxCrashes \in Nat

VARIABLES
  boot,         \* how far init() has got in a process that is not up yet
  up,           \* init() has returned in the running process
  disk,         \* the file at opts.path
  tmp,          \* the file at opts.path + ".tmp", shared by every write
  cache,        \* this.cache
  chain,        \* this.writeChain: the open update() calls, oldest first
  stage,        \* how far each update() or reload() has got
  draft,        \* the value each of them holds: to be written, or just read
  watching,     \* an fs.watch is bound to the file now at opts.path
  changed,      \* the file changed and fs.watch has not reported it yet
  reloadTimer,  \* the debounce timer is armed
  outlasted,    \* the updates that finish before the timer fires (see WatchEvent)
  older,        \* the reloads under way that read the file before each of them (history)
  passed,       \* the reloads under way that read it before one that has finished (history)
  overtaken,    \* the last reload to finish was one of these (history)
  missed,       \* the file changed between init's read and the watch (history)
  saved,        \* the hand-edits made so far (history)
  unlinks,      \* the removals of the file so far (bounded by MaxUnlinks)
  crashes       \* the crashes so far (bounded by MaxCrashes)

processVars == <<boot, up>>
timerVars == <<reloadTimer, outlasted>>
watchVars == <<watching, changed, timerVars>>
orderVars == <<older, passed, overtaken>>
madeVars == <<saved, unlinks, crashes>>
envVars == <<orderVars, missed, madeVars>>
vars == <<processVars, disk, tmp, cache, chain, stage, draft, watchVars, envVars>>

Defaults == {}
Json(v) == [kind |-> "json", value |-> v]
Absent == [kind |-> "absent", value |-> {}]
Torn == [kind |-> "torn", value |-> {}]   \* truncated, not yet filled

(***************************************************************************)
(* assertValid on a value.                                                 *)
(***************************************************************************)
Valid(v) == v \intersect Invalid = {}

\* Fault: a loaded file is not checked against the schema.
FaultLoadUnchecked(file) == file.kind = "json"

\* loadOrInit accepts the file: it parses and fits the schema.
Loadable(file) == file.kind = "json" /\ Valid(file.value)

(***************************************************************************)
(* The stages.  A writer inside atomicWrite goes from "cloned" (the value  *)
(* is fixed) through "open" (tmp truncated) and "written" to "renamed".    *)
(***************************************************************************)
InAtomicWrite == {"cloned", "open", "written", "renamed"}
UpdateStage == {"idle", "queued", "done", "rejected", "lost"} \union InAtomicWrite
ReloadStage == {"idle", "reading", "read"} \union InAtomicWrite

Settled == {"done", "rejected", "lost"}

Init ==
  /\ boot = "no"
  /\ up = FALSE
  /\ disk = Absent
  /\ tmp = Absent
  /\ cache = Defaults
  /\ chain = <<>>
  /\ stage = [w \in Writers |-> "idle"]
  /\ draft = [w \in Writers |-> {}]
  /\ watching = FALSE
  /\ changed = FALSE
  /\ reloadTimer = FALSE
  /\ outlasted = {}
  /\ older = [r \in Reloads |-> {}]
  /\ passed = {}
  /\ overtaken = FALSE
  /\ missed = FALSE
  /\ saved = {}
  /\ unlinks = 0
  /\ crashes = 0

(***************************************************************************)
(* init(): the process starts and reads the file, creates it from the      *)
(* defaults if there is none, then watches it.  A file that is invalid, or *)
(* that cannot be created, makes init() throw: the process does not come   *)
(* up.  What others do to the file before it is watched is not noticed.    *)
(***************************************************************************)
BootRead ==
  /\ ~up
  /\ boot = "no"
  /\ \/ /\ Loadable(disk)
        /\ cache' = disk.value
        /\ boot' = "loaded"
     \/ /\ disk.kind = "absent"
        /\ boot' = "create"
        /\ UNCHANGED cache
  /\ UNCHANGED <<up, disk, tmp, chain, stage, draft, watchVars, envVars>>

\* atomicWrite of the defaults, over a file that has been saved meanwhile.
\* Nobody else writes tmp yet.
BootCreate ==
  /\ boot = "create"
  /\ disk' = Json(Defaults)
  /\ tmp' = Absent
  /\ boot' = "loaded"
  /\ missed' = FALSE
  /\ UNCHANGED <<up, cache, chain, stage, draft, watchVars, orderVars, madeVars>>

BootFails ==
  /\ boot = "create"
  /\ boot' = "no"
  /\ missed' = FALSE
  /\ UNCHANGED <<up, disk, tmp, cache, chain, stage, draft, watchVars, orderVars, madeVars>>

\* init() returns; AccessStore binds its watch, which fails without a file.
BootWatch ==
  /\ boot = "loaded"
  /\ boot' = "no"
  /\ up' = TRUE
  /\ watching' = (Reloads # {} /\ disk.kind # "absent")
  /\ UNCHANGED <<disk, tmp, cache, chain, stage, draft, changed, timerVars, envVars>>

Boot == BootRead \/ BootCreate \/ BootFails \/ BootWatch

-----------------------------------------------------------------------------
(***************************************************************************)
(* fs.watch.  The watch reports a change of the file it is bound to.  When *)
(* another file takes the name opts.path, a watch on the name goes on and  *)
(* a watch on the inode has reported for the last time.                    *)
(***************************************************************************)
FileModified ==
  /\ changed' = (changed \/ watching)
  /\ missed' = (missed \/ boot # "no")
  /\ UNCHANGED watching

FileReplaced ==
  /\ changed' = (changed \/ watching)
  /\ missed' = (missed \/ boot # "no")
  /\ watching' = (watching /\ PathWatch)

-----------------------------------------------------------------------------
(***************************************************************************)
(* update(fn)                                                              *)
(***************************************************************************)

\* The call: the job is appended to the promise chain.
Call(u) ==
  /\ up
  /\ stage[u] = "idle"
  /\ chain' = Append(chain, u)
  /\ stage' = [stage EXCEPT ![u] = "queued"]
  /\ UNCHANGED <<processVars, disk, tmp, cache, draft, watchVars, envVars>>

\* Fault: the jobs are not chained.
FaultUnchained(u) == up /\ stage[u] = "queued"

\* The job's turn: every earlier job has settled.
Turn(u) ==
  /\ up
  /\ chain # <<>>
  /\ Head(chain) = u
  /\ stage[u] = "queued"

\* Fault: fn is applied to the cache itself.
FaultMutateCache(u) ==
  /\ Turn(u)
  /\ Valid(cache \union {u})
  /\ cache' = cache \union {u}
  /\ draft' = [draft EXCEPT ![u] = cache \union {u}]
  /\ stage' = [stage EXCEPT ![u] = "cloned"]
  /\ UNCHANGED <<processVars, disk, tmp, chain, watchVars, envVars>>

\* structuredClone of the cache, fn, assertValid.
Clone(u) ==
  /\ Turn(u)
  /\ Valid(cache \union {u})
  /\ draft' = [draft EXCEPT ![u] = cache \union {u}]
  /\ stage' = [stage EXCEPT ![u] = "cloned"]
  /\ UNCHANGED <<processVars, disk, tmp, cache, chain, watchVars, envVars>>

\* Fault: the chain is the job's own promise, so a rejection ends it.
FaultChainBroken(u) ==
  /\ stage' = [stage EXCEPT ![u] = "rejected"]
  /\ draft' = [draft EXCEPT ![u] = {}]
  /\ UNCHANGED chain

\* The job's promise rejects; the chain swallows it and goes on.
Reject(u) ==
  /\ stage' = [stage EXCEPT ![u] = "rejected"]
  /\ draft' = [draft EXCEPT ![u] = {}]
  /\ chain' = Tail(chain)

RejectInvalid(u) ==
  /\ Turn(u)
  /\ ~Valid(cache \union {u})
  /\ Reject(u)
  /\ UNCHANGED <<processVars, disk, tmp, cache, watchVars, envVars>>

\* atomicWrite has returned: publish the draft and resolve the promise.
Publish(u) ==
  /\ stage[u] = "renamed"
  /\ cache' = draft[u]
  /\ stage' = [stage EXCEPT ![u] = "done"]
  /\ draft' = [draft EXCEPT ![u] = {}]
  /\ chain' = Tail(chain)
  /\ UNCHANGED <<processVars, disk, tmp, watchVars, envVars>>

-----------------------------------------------------------------------------
(***************************************************************************)
(* atomicWrite(value), run by an update or by a reload that found no file. *)
(***************************************************************************)

\* Fault: the file is written in place.
FaultTruncateInPlace(w) ==
  /\ stage[w] = "cloned"
  /\ disk' = Torn
  /\ tmp' = Torn
  /\ stage' = [stage EXCEPT ![w] = "open"]
  /\ UNCHANGED <<processVars, cache, chain, draft, watchVars, envVars>>

\* writeFile opens and truncates the temporary file ...
Truncate(w) ==
  /\ stage[w] = "cloned"
  /\ tmp' = Torn
  /\ stage' = [stage EXCEPT ![w] = "open"]
  /\ UNCHANGED <<processVars, disk, cache, chain, draft, watchVars, envVars>>

\* Another writer that shares the temporary file with w.
Others(w) == {v \in Writers \ {w} : stage[v] \in {"open", "written"}}

\* ... and fills it.  Two writers that fill it at once may leave a mixture
\* of both documents.  If a second writer has renamed the file in the
\* meantime, the open descriptor now refers to the file at opts.path.
Fill(w) ==
  /\ stage[w] = "open"
  /\ \/ /\ tmp.kind # "absent"
        /\ tmp' \in {Json(draft[w])} \union {Torn : other \in Others(w)}
        /\ UNCHANGED <<disk, watching, changed, missed>>
     \/ /\ tmp.kind = "absent"
        /\ disk' = Json(draft[w])
        /\ FileModified
        /\ UNCHANGED tmp
  /\ stage' = [stage EXCEPT ![w] = "written"]
  /\ UNCHANGED <<processVars, cache, chain, draft, timerVars, orderVars, madeVars>>

\* rename, followed by a chmod whose failure is ignored.
Rename(w) ==
  /\ stage[w] = "written"
  /\ tmp.kind # "absent"
  /\ disk' = tmp
  /\ tmp' = Absent
  /\ stage' = [stage EXCEPT ![w] = "renamed"]
  /\ FileReplaced
  /\ UNCHANGED <<processVars, cache, chain, draft, timerVars, orderVars, madeVars>>

\* Fault: a chmod that fails is reported as a failed write.
FaultChmodFails(w) == stage[w] \in {"cloned", "open", "written", "renamed"}

\* writeFile and rename may fail at any time; rename does when tmp has gone.
WriteError(w) == stage[w] \in {"cloned", "open", "written"}

UpdateFails(u) ==
  /\ WriteError(u)
  /\ Reject(u)
  /\ UNCHANGED <<processVars, disk, tmp, cache, watchVars, envVars>>

-----------------------------------------------------------------------------
(***************************************************************************)
(* The watcher and reload()                                                *)
(***************************************************************************)

\* Fault: a change reported while a reload runs is left to that reload.
FaultWatchCoalesced ==
  /\ up
  /\ changed
  /\ changed' = FALSE
  /\ reloadTimer' = (\A r \in Reloads : stage[r] = "idle")
  /\ outlasted' = {u \in Updates : stage[u] = "renamed"}
  /\ UNCHANGED <<processVars, disk, tmp, cache, chain, stage, draft, watching, envVars>>

\* fs.watch reports the change: scheduleReload (re)arms the timer.  The
\* timer's 100 ms outlast the chmod of an update that has already renamed.
WatchEvent ==
  /\ up
  /\ changed
  /\ changed' = FALSE
  /\ reloadTimer' = TRUE
  /\ outlasted' = {u \in Updates : stage[u] = "renamed"}
  /\ UNCHANGED <<processVars, disk, tmp, cache, chain, stage, draft, watching, envVars>>

\* The debounce timer fires: reload() calls readFile, whether or not an
\* earlier one is under way (Reloads bounds how many are).
ReloadStart(r) ==
  /\ up
  /\ reloadTimer
  /\ \A u \in outlasted : stage[u] # "renamed"
  /\ stage[r] = "idle"
  /\ reloadTimer' = FALSE
  /\ outlasted' = {}
  /\ stage' = [stage EXCEPT ![r] = "reading"]
  /\ UNCHANGED <<processVars, disk, tmp, cache, chain, draft, watching, changed, envVars>>

\* The content is read; the continuation has not run yet.  Without a file
\* loadOrInit goes on to write the defaults, through the same atomicWrite.
ReloadRead(r) ==
  /\ stage[r] = "reading"
  /\ older' = [older EXCEPT ![r] = {s \in Reloads : stage[s] \in {"read"} \union InAtomicWrite}]
  /\ missed' = FALSE
  /\ \/ /\ Loadable(disk)
        /\ draft' = [draft EXCEPT ![r] = disk.value]
        /\ stage' = [stage EXCEPT ![r] = "read"]
     \/ /\ disk.kind = "absent"
        /\ draft' = [draft EXCEPT ![r] = Defaults]
        /\ stage' = [stage EXCEPT ![r] = "cloned"]
  /\ UNCHANGED <<processVars, disk, tmp, cache, chain, watchVars, passed, overtaken, madeVars>>

\* The order without r.
Without(r) == [s \in Reloads |-> IF s = r THEN {} ELSE older[s] \ {r}]

\* The file does not parse or fails the schema, or the write of the
\* defaults fails: reload throws and the previous state is retained.
ReloadFails(r) ==
  /\ \/ stage[r] = "reading" /\ disk.kind # "absent" /\ ~Loadable(disk)
     \/ WriteError(r)
  /\ stage' = [stage EXCEPT ![r] = "idle"]
  /\ draft' = [draft EXCEPT ![r] = {}]
  /\ older' = Without(r)
  /\ passed' = passed \ {r}
  /\ UNCHANGED <<processVars, disk, tmp, cache, chain, watchVars, overtaken, missed, madeVars>>

\* The continuation of reload(): swap the in-memory copy.
ReloadFinish(r) ==
  /\ stage[r] \in {"read", "renamed"}
  /\ cache' = draft[r]
  /\ stage' = [stage EXCEPT ![r] = "idle"]
  /\ draft' = [draft EXCEPT ![r] = {}]
  /\ overtaken' = (r \in passed)
  /\ passed' = (passed \union older[r]) \ {r}
  /\ older' = Without(r)
  /\ UNCHANGED <<processVars, disk, tmp, chain, watchVars, missed, madeVars>>

-----------------------------------------------------------------------------
(***************************************************************************)
(* The environment                                                         *)
(***************************************************************************)

\* A person opens the file, changes it and saves it.
Edit(e) ==
  /\ e \notin saved
  /\ disk' = Json(disk.value \union {e})
  /\ saved' = saved \union {e}
  /\ FileModified
  /\ UNCHANGED <<processVars, tmp, cache, chain, stage, draft, timerVars, orderVars, unlinks,
                 crashes>>

\* Another program removes the file, for instance an editor that saves by
\* deleting the old file before it writes the new one.
Unlink ==
  /\ unlinks < MaxUnlinks
  /\ unlinks' = unlinks + 1
  /\ disk.kind = "json"
  /\ disk' = Absent
  /\ FileReplaced
  /\ UNCHANGED <<processVars, tmp, cache, chain, stage, draft, timerVars, orderVars, saved,
                 crashes>>

\* The process dies: memory is gone, the two files stay as they are.
Crash ==
  /\ up \/ boot # "no"
  /\ crashes < MaxCrashes
  /\ crashes' = crashes + 1
  /\ boot' = "no"
  /\ up' = FALSE
  /\ cache' = Defaults
  /\ chain' = <<>>
  /\ stage' = [w \in Writers |->
                 IF w \in Reloads THEN "idle"
                 ELSE IF stage[w] \in Settled \union {"idle"} THEN stage[w]
                 ELSE "lost"]
  /\ draft' = [w \in Writers |-> {}]
  /\ watching' = FALSE
  /\ changed' = FALSE
  /\ reloadTimer' = FALSE
  /\ outlasted' = {}
  /\ older' = [r \in Reloads |-> {}]
  /\ passed' = {}
  /\ overtaken' = FALSE
  /\ missed' = FALSE
  /\ UNCHANGED <<disk, tmp, saved, unlinks>>

-----------------------------------------------------------------------------
UpdateStep(u) ==
  Clone(u) \/ RejectInvalid(u) \/ Publish(u) \/ UpdateFails(u)

WriteStep(w) == Truncate(w) \/ Fill(w) \/ Rename(w)

ReloadStep(r) == ReloadStart(r) \/ ReloadRead(r) \/ ReloadFails(r) \/ ReloadFinish(r)

Next ==
  \/ Boot
  \/ \E u \in Updates : Call(u) \/ UpdateStep(u)
  \/ \E w \in Writers : WriteStep(w)
  \/ WatchEvent
  \/ \E r \in Reloads : ReloadStep(r)
  \/ \E e \in Edits : Edit(e)
  \/ Unlink
  \/ Crash

Spec == Init /\ [][Next]_vars

(***************************************************************************)
(* Fairness: a started file operation completes or fails, a resolved       *)
(* promise runs its continuation, an armed timer fires, a file change is   *)
(* reported, and the supervisor starts the process again.                  *)
(***************************************************************************)
Fairness ==
  /\ WF_vars(Boot)
  /\ \A u \in Updates : WF_vars(UpdateStep(u))
  /\ \A w \in Writers : WF_vars(WriteStep(w))
  /\ WF_vars(WatchEvent)
  /\ \A r \in Reloads : WF_vars(ReloadStep(r))

FairSpec == Spec /\ Fairness

-----------------------------------------------------------------------------
FileType == [kind : {"json", "absent", "torn"}, value : SUBSET Mutations]

(***************************************************************************)
(* The types of the variables.                                             *)
(***************************************************************************)
TypeOK ==
  /\ boot \in {"no", "create", "loaded"}
  /\ up \in BOOLEAN
  /\ disk \in FileType
  /\ tmp \in FileType
  /\ cache \in SUBSET Mutations
  /\ chain \in Seq(Updates)
  /\ stage \in [Writers -> UpdateStage \union ReloadStage]
  /\ \A u \in Updates : stage[u] \in UpdateStage
  /\ \A r \in Reloads : stage[r] \in ReloadStage
  /\ draft \in [Writers -> SUBSET Mutations]
  /\ watching \in BOOLEAN
  /\ changed \in BOOLEAN
  /\ reloadTimer \in BOOLEAN
  /\ outlasted \in SUBSET Updates
  /\ older \in [Reloads -> SUBSET Reloads]
  /\ passed \in SUBSET Reloads
  /\ overtaken \in BOOLEAN
  /\ missed \in BOOLEAN
  /\ saved \in SUBSET Edits
  /\ unlinks \in Nat
  /\ crashes \in Nat

(***************************************************************************)
(* An update() whose promise has resolved is in the file, and stays there  *)
(* whatever later updates, failed writes and crashes do.                   *)
(***************************************************************************)
NoLostUpdate ==
  \A u \in Updates : stage[u] = "done" => disk.kind = "json" /\ u \in disk.value

(***************************************************************************)
(* get() never shows an update whose promise rejected, nor one that is not *)
(* on disk yet: a caller acts only on state a restart would find again.    *)
(***************************************************************************)
NoDirtyRead ==
  \A u \in Updates : u \in cache => stage[u] \in {"renamed", "done", "lost"}

(***************************************************************************)
(* The write through tmp and rename: nobody who opens the file, the        *)
(* process after a crash included, finds half a document.                  *)
(***************************************************************************)
NoTornFile == disk.kind # "torn"

(***************************************************************************)
(* What get() returns satisfies the schema, also after a hand-edit that    *)
(* does not: such a reload is refused and the previous version stays.      *)
(***************************************************************************)
CacheValid == Valid(cache)

(***************************************************************************)
(* Every update() settles: a job that fails does not wedge the chain for   *)
(* the jobs queued behind it.                                              *)
(***************************************************************************)
UpdatesSettle == \A u \in Updates : stage[u] = "queued" ~> stage[u] \in Settled

(***************************************************************************)
(* Hot reload (AccessStore.startWatcher, scheduleReload): once updates and *)
(* edits stop, the process serves what is in the file, if that is valid,   *)
(* whatever reloads read before and whatever update published after them.  *)
(* The code leaves two exceptions, which nothing repairs before the next   *)
(* change: a change between init's read and the watch, and a reload that   *)
(* finishes after one that read the file later.                            *)
(***************************************************************************)
Converges == <>[](up /\ Loadable(disk) /\ ~missed /\ ~overtaken => cache = disk.value)

-----------------------------------------------------------------------------
(***************************************************************************)
(* The store as an atomic durable cell.                                    *)
(***************************************************************************)
StatusOf(s) ==
  IF s \in {"queued", "cloned", "open", "written"} THEN "pending"
  ELSE IF s = "renamed" THEN "committed"
  ELSE s

CellStatus == [u \in Updates |-> StatusOf(stage[u])]

Cell == INSTANCE AtomicStore WITH value <- disk.value, status <- CellStatus

(***************************************************************************)
(* An unwatched store implements AtomicStore: an update takes effect in    *)
(* the single step of the rename and no accepted update is ever lost.      *)
(***************************************************************************)
ImplementsAtomicStore == Cell!Spec
==============================================================================
