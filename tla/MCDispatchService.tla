------------------------- MODULE MCDispatchService -------------------------
(***************************************************************************)
(* One job, its parent and another conversation.                           *)
(***************************************************************************)
EXTENDS DispatchService, TLC

Symmetric == Permutations(Conversations)
=============================================================================
