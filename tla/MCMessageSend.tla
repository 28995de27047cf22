---------------------------- MODULE MCMessageSend ----------------------------
(***************************************************************************)
(* Constants for the runs of MessageSend: texts with a blank before, at    *)
(* and after the start of a search window of two in pieces of three, at    *)
(* and around the cut, and at the end; of no more than a piece, of exactly *)
(* one, and with a rest of exactly one.                                    *)
(***************************************************************************)
EXTENDS MessageSend, TLC

L == Letter
B == Blank

MCTexts ==
  { <<L, L>>,                \* less than a piece
    <<L, B, L>>,             \* exactly a piece
    <<B, L, L, L>>,          \* a blank before the window: a hard cut
    <<L, B, L, L>>,          \* at its start, where it does not count
    <<L, L, B, L, L, L>>,    \* after it: the piece ends there; a rest of exactly a piece
    <<L, B, B, B, B>>,       \* blanks across the cut, to the end
    <<L, L, L, B, L, B, L>>  \* a blank right after a hard cut; four left if it is not skipped
  }

ShortTexts == {<<L, L>>}

Symmetry == Permutations(Calls) \union Permutations(Peers)
==============================================================================
