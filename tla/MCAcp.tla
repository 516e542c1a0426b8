------------------------------- MODULE MCAcp --------------------------------
(***************************************************************************)
(* Two prompts, the second to the session of the first or to the one that  *)
(* a compaction may make; each session is loaded, and one loaded again or  *)
(* compacted.                                                              *)
(***************************************************************************)
EXTENDS Acp, TLC

CONSTANTS p1, p2, s1, s2
ToOf == (p1 :> {s1}) @@ (p2 :> {s1, s2})
=============================================================================
