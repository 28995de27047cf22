----------------------------- MODULE AtomicStore -----------------------------
(***************************************************************************)
(* What a JSON file store promises to the callers of update(): the stored  *)
(* value is one durable cell, an accepted update is added to it in one     *)
(* step and no later update, failure or restart takes it out again.        *)
(*                                                                         *)
(* A value is the set of the mutations it contains.  A person may also     *)
(* edit the file; the promise does not extend to such an edit, which a     *)
(* commit may overwrite.                                                   *)
(***************************************************************************)

CONSTANTS
  Updates,   \* calls of update(), each made at most once
  Edits      \* edits of the file by hand

VARIABLES
  value,     \* the durable value
  status     \* what has become of each call

vars == <<value, status>>

Status == {"idle", "pending", "committed", "done", "rejected", "lost"}

TypeOK ==
  /\ value \in SUBSET (Updates \union Edits)
  /\ status \in [Updates -> Status]

Init ==
  /\ value = {}
  /\ status = [u \in Updates |-> "idle"]

Move(u, from, to) ==
  /\ status[u] = from
  /\ status' = [status EXCEPT ![u] = to]

Call(u) ==
  /\ Move(u, "idle", "pending")
  /\ UNCHANGED value

\* The update becomes part of the value; only hand-edits may disappear.
Commit(u) ==
  /\ Move(u, "pending", "committed")
  /\ \E overwritten \in SUBSET Edits : value' = (value \ overwritten) \union {u}

Acknowledge(u) ==
  /\ Move(u, "committed", "done")
  /\ UNCHANGED value

Reject(u) ==
  /\ Move(u, "pending", "rejected")
  /\ UNCHANGED value

\* The process dies: no open call is ever answered, the value stays.
Crash ==
  /\ status' = [u \in Updates |->
                  IF status[u] \in {"pending", "committed"} THEN "lost" ELSE status[u]]
  /\ UNCHANGED value

Edit(e) ==
  /\ value' = value \union {e}
  /\ UNCHANGED status

\* A cell that holds no update is created, over what a person saved there.
Create ==
  /\ value \subseteq Edits
  /\ value' = {}
  /\ UNCHANGED status

Next ==
  \/ \E u \in Updates : Call(u) \/ Commit(u) \/ Acknowledge(u) \/ Reject(u)
  \/ \E e \in Edits : Edit(e)
  \/ Create
  \/ Crash

Spec == Init /\ [][Next]_vars
==============================================================================
