-------------------------- MODULE MCPermissionRelay --------------------------
(***************************************************************************)
(* Constants for the runs of PermissionRelay.  All prompts but one carry   *)
(* the same request id, as when a request is issued again; the other is a  *)
(* request of its own.                                                     *)
(***************************************************************************)
EXTENDS PermissionRelay

CONSTANTS Reissued, Other, OtherPrompt

MCReqOf == [p \in Prompts |-> IF p = OtherPrompt THEN Other ELSE Reissued]
==============================================================================
