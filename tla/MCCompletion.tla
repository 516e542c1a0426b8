---------------------------- MODULE MCCompletion ----------------------------
(***************************************************************************)
(* One to three outcomes.                                                  *)
(***************************************************************************)
EXTENDS Completion

ResumeThenNotify == [j \in Jobs |-> IF j = 1 THEN "resume_parent" ELSE "notify"]

OneOfEach ==
  [j \in Jobs |-> CASE j = 1 -> "resume_parent" [] j = 2 -> "notify" [] OTHER -> "poll"]

(* The first two are resumed: one whose parent is gone and one to answer.  *)
OrphanFirst == [j \in Jobs |-> IF j <= 2 THEN "resume_parent" ELSE "notify"]
=============================================================================
