---------------------------- MODULE CronSchedule ----------------------------
(***************************************************************************)
(* When CronWorker looks for due jobs, which of them it dispatches, and    *)
(* which schedules CronDef admits.  A schedule is the set of the minutes   *)
(* of a period at which it runs.                                           *)
(***************************************************************************)
EXTENDS Integers, Sequences, FiniteSets, FiniteSetsExt

(* croniter.get_next: the first run after a minute. *)
NextRun(schedule, period, minute) ==
  Min({m \in (minute + 1) .. (minute + period) : m % period \in schedule})

(* CronDef.validate_schedule: the gap between the first two runs after a   *)
(* base time, a midnight.                                                  *)
MinimumGap == 5
IsAdmitted(schedule, period) ==
  LET first == NextRun(schedule, period, 0)
  IN NextRun(schedule, period, first) - first >= MinimumGap

(* CronWorker.run: a tick, its work, a sleep of a minute, the next tick.   *)
TickTime(start, work, minute, k) ==
  start + (k - 1) * minute + MapThenSumSet(LAMBDA i : work[i], 1 .. (k - 1))

(* find_due_jobs looks at the minute, its seconds cut off. *)
MinuteOfTick(start, work, minute, k) == TickTime(start, work, minute, k) \div minute

(* _tick: the due jobs are published one after the other.  One whose agent *)
(* does not load ends the tick.  A one-off job is deleted when its event   *)
(* is in the queue.                                                        *)
Dispatched(due, loads) == {i \in DOMAIN due : \A k \in 1 .. i : due[k] \in loads}
=============================================================================
