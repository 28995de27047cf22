--------------------------- MODULE MCAccessControl ---------------------------
(***************************************************************************)
(* Constants for the run of AccessControl: a group is registered open to   *)
(* everyone who mentions the bot, as addGroup does by default, and the     *)
(* process starts from the file that loadOrInit creates, from one that     *)
(* lets in every chat, or from one that lets in the groups only.           *)
(***************************************************************************)
EXTENDS AccessControl, TLC

Open == [senders |-> {}, mention |-> "mention_only"]

MCEntries == {Open}

FileWith(policy, dms, entry) ==
  [dmPolicy |-> policy, paired |-> dms,
   groups |-> [g \in Groups |-> entry], pairs |-> [c \in Codes |-> None]]

MCFound ==
  {FileWith("pairing", {}, None), FileWith("pairing", Dms, Open), FileWith("allowlist", {}, Open)}

\* None of these sets has a distinguished member.
Symmetry ==
  Permutations(Dms) \union Permutations(Groups) \union Permutations(Users)
  \union Permutations(Codes) \union Permutations(Requests) \union Permutations(Messages)
==============================================================================
