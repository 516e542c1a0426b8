---------------------------- MODULE JobLifecycle ----------------------------
(***************************************************************************)
(* What the dispatch job store promises about one job, with leases, owners *)
(* clocks and capacities left out: a job moves along the state diagram of  *)
(* the store, reaches at most one outcome, and that outcome is announced   *)
(* once, in the step that decides it.                                      *)
(***************************************************************************)

CONSTANT Jobs    \* every job id the system may ever mint

VARIABLES
  phase,         \* phase[j]: where job j is in its life
  announced      \* announced[j]: the outcome recorded for the parent, or "none"

Outcomes == {"succeeded", "failed", "cancelled", "timed_out"}
Pending  == {"queued", "running", "cancel_requested"}
Phases   == {"absent", "purged"} \cup Pending \cup Outcomes

(* The outcomes a job may still reach from a pending phase. *)
MayEndAs(p) ==
  CASE p = "queued"           -> {"cancelled"}
    [] p = "running"          -> {"succeeded", "failed", "timed_out"}
    [] p = "cancel_requested" -> {"cancelled"}
    [] OTHER                  -> {}

TypeOK ==
  /\ phase \in [Jobs -> Phases]
  /\ announced \in [Jobs -> Outcomes \cup {"none"}]

Init ==
  /\ phase = [j \in Jobs |-> "absent"]
  /\ announced = [j \in Jobs |-> "none"]

Move(j, from, to) ==
  /\ phase[j] = from
  /\ phase' = [phase EXCEPT ![j] = to]
  /\ UNCHANGED announced

Accept(j)     == Move(j, "absent", "queued")
Start(j)      == Move(j, "queued", "running")
Requeue(j)    == Move(j, "running", "queued")
AskToStop(j)  == Move(j, "running", "cancel_requested")

(* The outcome is decided and announced in one step. *)
Conclude(j, o) ==
  /\ o \in MayEndAs(phase[j])
  /\ announced[j] = "none"
  /\ phase' = [phase EXCEPT ![j] = o]
  /\ announced' = [announced EXCEPT ![j] = o]

(* Retention: the old finished jobs of S disappear together with their     *)
(* announcements.                                                          *)
Forget(S) ==
  /\ \A j \in S : phase[j] \in Outcomes /\ announced[j] = phase[j]
  /\ phase' = [j \in Jobs |-> IF j \in S THEN "purged" ELSE phase[j]]
  /\ announced' = [j \in Jobs |-> IF j \in S THEN "none" ELSE announced[j]]

Next ==
  \/ \E j \in Jobs : Accept(j) \/ Start(j) \/ Requeue(j) \/ AskToStop(j)
  \/ \E j \in Jobs, o \in Outcomes : Conclude(j, o)
  \/ \E S \in SUBSET Jobs : Forget(S)

Spec == Init /\ [][Next]_<<phase, announced>>
=============================================================================
