-------------------------- MODULE MCResearchMemory --------------------------
(***************************************************************************)
(* Runs and a page with two URLs: what is read at the one expires after    *)
(* two hours, at the other after one, and the first may lead to the        *)
(* second.  r1, of a session, may look at both; the others, of no scope,   *)
(* have one source.  The checks of the algorithms a run uses are evaluated *)
(* with them.                                                              *)
(***************************************************************************)
EXTENDS ResearchMemory, AlgorithmChecks, TLC

CONSTANTS r1, r2, r3, home, page, news, A, B

SessionAndGlobal == [r \in Runs |-> IF r = r1 THEN "session" ELSE "global"]
HomePage == [u \in Urls |-> home]
Leads == [u \in Urls |-> Urls \cap {u, news}]
Hours == [u \in Urls |-> IF u = news THEN 1 ELSE 2]
OneSource == [r \in Runs |-> 1]
TwoAndOne == [r \in Runs |-> IF r = r1 THEN 2 ELSE 1]
Symmetric == Permutations(Contents)
=============================================================================
