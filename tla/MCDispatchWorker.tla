-------------------------- MODULE MCDispatchWorker --------------------------
(***************************************************************************)
(* A worker with two jobs of one session: j1 for an agent that may be      *)
(* retried, j2 for one that may not, j3 again for the first.               *)
(***************************************************************************)
EXTENDS DispatchWorker, TLC

CONSTANTS j1, j2, j3, w1, w2, w3

Call(c, a) == [session |-> "s1", call |-> c, target |-> a]
Submissions ==
  j1 :> Call("c1", "researcher") @@ j2 :> Call("c2", "writer") @@ j3 :> Call("c3", "researcher")

MCRequestOf == [j \in Jobs |-> Submissions[j]]
OneSlotEach == [a \in Agents |-> 1]

MixedJobs == {j1, j2}     \* one to retry, one not
RivalJobs == {j1, j3}     \* two for the only slot of an agent

TwoWorkers   == {w1, w2}
ThreeWorkers == {w1, w2, w3}
WorkerSymmetry == Permutations(Workers)
=============================================================================
