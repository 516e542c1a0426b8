--------------------------- MODULE MCDispatchJobs ---------------------------
(***************************************************************************)
(* A small store with one agent.  The first two submissions replay the     *)
(* same tool call of session "s1", the third is another call of "s1", the  *)
(* fourth comes from session "s2".                                         *)
(***************************************************************************)
EXTENDS DispatchJobs, TLC

CONSTANTS j1, j2, j3, j4, w1, w2

Call(s, c) == [session |-> s, call |-> c, target |-> "researcher"]
Submissions ==
  j1 :> Call("s1", "c1") @@ j2 :> Call("s1", "c1") @@
  j3 :> Call("s1", "c2") @@ j4 :> Call("s2", "c1")

MCRequestOf == [j \in Jobs |-> Submissions[j]]
MCWorkers == {w1, w2}

(* The two replays are interchangeable, and so are the worker processes.   *)
StoreSymmetry == Permutations(Jobs \cap {j1, j2}) \cup Permutations(MCWorkers)

AllJobs == {j1, j2, j3, j4}
=============================================================================
