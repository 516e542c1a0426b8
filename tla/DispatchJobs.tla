---------------------------- MODULE DispatchJobs ----------------------------
(***************************************************************************)
(* DispatchJobRepository (mybot/core/dispatch_jobs.py): the SQLite store   *)
(* of dispatch jobs.  Every operation holds the repository's lock, runs    *)
(* without an await and commits once, so every operation is one action.    *)
(* Its callers are left free: any session submits and cancels, any worker  *)
(* claims, renews, finishes or recovers, at any moment, in any order.      *)
(* What is shown here therefore holds for the worker of DispatchWorker and *)
(* for every other caller inside one process; the workers are the          *)
(* DispatchJobWorker objects of successive processes (design 5: the        *)
(* runtime is a single process).  Two processes sharing the file would     *)
(* interleave inside an operation, whose SELECT opens no transaction, and  *)
(* are not modelled.                                                       *)
(*                                                                         *)
(* A job id stands for the uuid that one call of submit mints, so each id  *)
(* has a fixed request, and one id is created at most once.  Timestamps    *)
(* are kept as distances from utc_now(), which every Tick shifts: what is  *)
(* left of a lease, how long ago a job ended.  Not modelled: result and    *)
(* error texts, and the columns version, attempt_count and started_at,     *)
(* which the code writes and no decision reads.                            *)
(***************************************************************************)
EXTENDS Integers, FiniteSets

CONSTANTS
  Jobs,          \* the job ids submit mints
  RequestOf,     \* RequestOf[j]: parent session, tool call and target of j
  Sessions,      \* parent sessions
  Calls,         \* tool call ids: with the session, the idempotency key
  Agents,        \* target agents
  Workers,       \* lease owners: one id per DispatchJobWorker object
  NoWorker,      \* NULL in lease_owner
  RetrySafe,     \* the agents whose definition says retry_safe: true
  MaxPending,    \* max_pending_jobs_per_session
  MaxQueued,     \* max_queued_jobs_per_agent
  LeaseTime,     \* lease_seconds, in ticks
  Retention      \* job_retention_hours, in ticks

Request == [session : Sessions, call : Calls, target : Agents]

ASSUME DispatchAssumption ==
  /\ IsFiniteSet(Jobs)                  \* the table is finite
  /\ RequestOf \in [Jobs -> Request]
  /\ NoWorker \notin Workers
  /\ RetrySafe \subseteq Agents
  /\ MaxPending \in Nat \ {0}           \* Field(ge=1)
  /\ MaxQueued \in Nat \ {0}            \* Field(ge=1)
  /\ LeaseTime \in Nat \ {0}            \* Field(gt=0)
  /\ Retention \in Nat                  \* Field(ge=1), rounded to ticks

VARIABLES
  jobs,          \* jobs[j]: the row of j in dispatch_jobs
  outbox,        \* outbox[j]: the dispatch_outbox row of j's completion
  consumed       \* jobs whose event id is in dispatch_consumers

vars == <<jobs, outbox, consumed>>

-----------------------------------------------------------------------------
Terminal == {"succeeded", "failed", "cancelled", "timed_out"}
Leased   == {"running", "cancel_requested"}
Pending  == {"queued"} \cup Leased

(* "absent": not inserted yet; "purged": deleted by cleanup_terminal. *)
Statuses == {"absent", "purged"} \cup Pending \cup Terminal

NoTime == -1     \* NULL in a time column

(* left: lease_expires_at minus now, 0 once it has passed; created: the    *)
(* place of created_at among the pending rows, the only ones a claim       *)
(* compares; age: now minus completed_at, as far as retention can tell.    *)
JobRow == [status : Statuses, owner : Workers \cup {NoWorker},
           left : (0 .. LeaseTime) \cup {NoTime}, created : Nat \cup {NoTime},
           age : (0 .. Retention + 1) \cup {NoTime}]

OutboxRow == [outcome : Terminal \cup {"none"}, published : BOOLEAN]

NoRow(status) == [status |-> status, owner |-> NoWorker, left |-> NoTime,
                  created |-> NoTime, age |-> NoTime]
NoEvent == [outcome |-> "none", published |-> FALSE]

Status(j)    == jobs[j].status
Exists(j)    == Status(j) \notin {"absent", "purged"}
SessionOf(j) == RequestOf[j].session
TargetOf(j)  == RequestOf[j].target

(* UNIQUE(parent_session_id, idempotency_key) *)
SameKey(j, k) == SessionOf(j) = SessionOf(k) /\ RequestOf[j].call = RequestOf[k].call

PendingOf(s) == {j \in Jobs : SessionOf(j) = s /\ Status(j) \in Pending}
QueuedFor(a) == {j \in Jobs : TargetOf(j) = a /\ Status(j) = "queued"}
(* Broken on purpose: the lease clock is not looked at. *)
ExpiredIgnoringClock(j) == Status(j) \in Leased
Expired(j)   == Status(j) \in Leased /\ jobs[j].left = 0

Init ==
  /\ jobs = [j \in Jobs |-> NoRow("absent")]
  /\ outbox = [j \in Jobs |-> NoEvent]
  /\ consumed = {}

-----------------------------------------------------------------------------
(* The row create_job inserts.  created_at is the latest of the pending    *)
(* rows, and two rows may have the same.                                   *)
Latest(c) ==
  /\ \A k \in Jobs : jobs[k].created <= c
  /\ c = 0 \/ \E k \in Jobs : jobs[k].created \in {c - 1, c}

Insert(j) ==
  \E c \in 0 .. Cardinality(Jobs) :
    /\ Latest(c)
    /\ jobs' = [jobs EXCEPT ![j] = [NoRow("queued") EXCEPT !.created = c]]
    /\ UNCHANGED <<outbox, consumed>>

(* Broken on purpose: the session quota forgets jobs being cancelled. *)
CreateJobForgettingCancels(j) ==
  /\ Status(j) = "absent"
  /\ \A k \in Jobs : Exists(k) => ~SameKey(j, k)
  /\ Cardinality({k \in PendingOf(SessionOf(j)) : Status(k) # "cancel_requested"}) < MaxPending
  /\ Cardinality(QueuedFor(TargetOf(j))) < MaxQueued
  /\ Insert(j)

(* create_job.  A call whose key exists gets the existing row back, and a  *)
(* session or queue at its limit gets an error: both leave the store as it *)
(* was, so only the insertion is a step.                                   *)
CreateJob(j) ==
  /\ Status(j) = "absent"
  /\ \A k \in Jobs : Exists(k) => ~SameKey(j, k)
  /\ Cardinality(PendingOf(SessionOf(j))) < MaxPending
  /\ Cardinality(QueuedFor(TargetOf(j))) < MaxQueued
  /\ Insert(j)

(* The oldest queued jobs of an agent; created_at may tie. *)
OldestQueued(a) ==
  {j \in QueuedFor(a) : \A k \in QueuedFor(a) : jobs[j].created <= jobs[k].created}

(* claim_next: queued -> running under a fresh lease of w. *)
ClaimNext(j, w) ==
  /\ j \in OldestQueued(TargetOf(j))
  /\ jobs' = [jobs EXCEPT ![j] = [@ EXCEPT !.status = "running",
                                           !.owner  = w,
                                           !.left   = LeaseTime]]
  /\ UNCHANGED <<outbox, consumed>>

(* renew_lease.  The old expiry is not looked at: an expired lease that    *)
(* nobody recovered yet is extended.                                       *)
RenewLease(j, w) ==
  /\ Status(j) \in Leased
  /\ jobs[j].owner = w
  /\ jobs' = [jobs EXCEPT ![j] = [@ EXCEPT !.left = LeaseTime]]
  /\ UNCHANGED <<outbox, consumed>>

(* The UPDATE and the INSERT OR IGNORE of _finish_in_transaction. *)
Record(j, outcome) ==
  /\ jobs' = [jobs EXCEPT ![j] = [@ EXCEPT !.status    = outcome,
                                           !.owner     = NoWorker,
                                           !.left      = NoTime,
                                           !.created   = NoTime,
                                           !.age       = 0]]
  /\ outbox' = IF outbox[j].outcome = "none"
               THEN [outbox EXCEPT ![j] = [outcome |-> outcome, published |-> FALSE]]
               ELSE outbox
  /\ UNCHANGED consumed

(* Broken on purpose: an update by job id, without compare-and-set. *)
FinishUnconditionally(j, expected, outcome) == Exists(j) /\ Record(j, outcome)

(* _finish_in_transaction: compare-and-set on the status, then the         *)
(* completion record, in one transaction.                                  *)
Finish(j, expected, outcome) == Status(j) = expected /\ Record(j, outcome)

(* The owner clause of _finish. *)
FinishAs(j, w, expected, outcome) ==
  /\ jobs[j].owner = w
  /\ Finish(j, expected, outcome)

(* Broken on purpose: a result is accepted after a cancel request. *)
FinishSuccessDespiteCancel(j, w) ==
  \E expected \in Leased : FinishAs(j, w, expected, "succeeded")

FinishSuccess(j, w)   == FinishAs(j, w, "running", "succeeded")
FinishFailure(j, w)   == FinishAs(j, w, "running", "failed")
FinishTimedOut(j, w)  == FinishAs(j, w, "running", "timed_out")
FinishCancelled(j, w) == FinishAs(j, w, "cancel_requested", "cancelled")

(* request_cancel.  A foreign session, a finished job and a second request *)
(* change nothing.                                                         *)
RequestCancel(j, s) ==
  /\ s = SessionOf(j)
  /\ \/ Finish(j, "queued", "cancelled")
     \/ /\ Status(j) = "running"
        /\ jobs' = [jobs EXCEPT ![j] = [@ EXCEPT !.status = "cancel_requested"]]
        /\ UNCHANGED <<outbox, consumed>>

(* Broken on purpose: an expired job is requeued whatever its agent says. *)
RecoverRequeueingAll(j, retry_safe) ==
  /\ Expired(j)
  /\ \/ Finish(j, "cancel_requested", "cancelled")
     \/ /\ Status(j) = "running"
        /\ jobs' = [jobs EXCEPT ![j] = [@ EXCEPT !.status = "queued",
                                                 !.owner  = NoWorker,
                                                 !.left   = NoTime]]
        /\ UNCHANGED <<outbox, consumed>>

(* recover_expired.  retry_safe comes from the agent definition, and is    *)
(* false when the definition cannot be loaded.                             *)
RecoverExpired(j, retry_safe) ==
  /\ Expired(j)
  /\ retry_safe => TargetOf(j) \in RetrySafe
  /\ \/ Finish(j, "cancel_requested", "cancelled")
     \/ /\ retry_safe
        /\ Status(j) = "running"
        /\ jobs' = [jobs EXCEPT ![j] = [@ EXCEPT !.status = "queued",
                                                 !.owner  = NoWorker,
                                                 !.left   = NoTime]]
        /\ UNCHANGED <<outbox, consumed>>
     \/ ~retry_safe /\ Finish(j, "running", "failed")      \* worker_lost

(* consume_once, called by CompletionRouter for a finished job. *)
ConsumeOnce(j) ==
  /\ Status(j) \in Terminal
  /\ consumed' = consumed \cup {j}
  /\ UNCHANGED <<jobs, outbox>>

(* mark_outbox_published: an update by event id.  That CompletionRouter    *)
(* calls it only after consume_once or was_consumed is in DispatchWorker   *)
(* and in Completion.                                                      *)
MarkOutboxPublished(j) ==
  /\ outbox[j].outcome # "none"
  /\ outbox' = [outbox EXCEPT ![j] = [@ EXCEPT !.published = TRUE]]
  /\ UNCHANGED <<jobs, consumed>>

(* cleanup_terminal: three deletes in one transaction. *)
Old(j) == jobs[j].age > Retention

(* Broken on purpose: the outbox is not asked. *)
CleanupUnpublished ==
  LET gone == {j \in Jobs : Old(j)}
  IN /\ consumed' = consumed \ gone
     /\ outbox' = [j \in Jobs |-> IF j \in gone THEN NoEvent ELSE outbox[j]]
     /\ jobs' = [j \in Jobs |-> IF j \in gone THEN NoRow("purged") ELSE jobs[j]]

CleanupTerminal ==
  LET gone == {j \in Jobs : Old(j) /\ outbox[j].published}
      dead == {j \in Jobs : Old(j) /\ (j \in gone \/ outbox[j].outcome = "none")}
  IN /\ consumed' = consumed \ gone
     /\ outbox' = [j \in Jobs |-> IF j \in gone THEN NoEvent ELSE outbox[j]]
     /\ jobs' = [j \in Jobs |-> IF j \in dead THEN NoRow("purged") ELSE jobs[j]]

(* A tick of the clock, seen from every timestamp. *)
Passed(row) ==
  [row EXCEPT !.left = IF @ > 0 THEN @ - 1 ELSE @,
              !.age  = IF @ \in 0 .. Retention THEN @ + 1 ELSE @]

Tick ==
  /\ jobs' = [j \in Jobs |-> Passed(jobs[j])]
  /\ UNCHANGED <<outbox, consumed>>

-----------------------------------------------------------------------------
WorkerStep(j, w) ==
  \/ ClaimNext(j, w)
  \/ RenewLease(j, w)
  \/ FinishSuccess(j, w)
  \/ FinishFailure(j, w)
  \/ FinishTimedOut(j, w)
  \/ FinishCancelled(j, w)

Next ==
  \/ \E j \in Jobs : CreateJob(j) \/ ConsumeOnce(j) \/ MarkOutboxPublished(j)
  \/ \E j \in Jobs, w \in Workers : WorkerStep(j, w)
  \/ \E j \in Jobs, s \in Sessions : RequestCancel(j, s)
  \/ \E j \in Jobs, r \in BOOLEAN : RecoverExpired(j, r)
  \/ CleanupTerminal
  \/ Tick

Spec == Init /\ [][Next]_vars

-----------------------------------------------------------------------------
(* The type invariant, with the NULL discipline of the columns: a lease is *)
(* held exactly while a worker is in charge, completed_at is set exactly   *)
(* when the job has an outcome, and created_at is kept while it is pending.*)
NullsFit(row) ==
  /\ row.status \in Leased   <=> row.owner # NoWorker
  /\ row.status \in Leased   <=> row.left # NoTime
  /\ row.status \in Terminal <=> row.age # NoTime
  /\ row.status \in Pending  <=> row.created # NoTime

TypeOK ==
  /\ jobs \in [Jobs -> JobRow]
  /\ outbox \in [Jobs -> OutboxRow]
  /\ consumed \subseteq Jobs
  /\ \A j \in Jobs : NullsFit(jobs[j])

(* The completion record: it exists exactly when the job has an outcome,   *)
(* and it carries that outcome.  Cancel, completion, lease recovery and    *)
(* retention may interleave in any order (design 7.3, 8.2).                *)
OutboxTellsTheOutcome ==
  \A j \in Jobs : outbox[j].outcome = IF Status(j) \in Terminal THEN Status(j) ELSE "none"

(* max_pending_jobs_per_session is never exceeded, whatever the workers    *)
(* do with the jobs in between: create_job counts all three pending states.*)
PendingWithinLimit == \A s \in Sessions : Cardinality(PendingOf(s)) <= MaxPending

(* A tool call keeps its job (design 11).  Whatever became of the job, no  *)
(* other submission of its call starts a second one while it is on file,   *)
(* and it leaves the file only with an outcome that was marked published,  *)
(* after Retention, together with the record of its consumption.  Only     *)
(* then does a replay of the call start it anew.                           *)
CallsKeepTheirJob ==
  [][\A j \in Jobs : Exists(j) =>
       /\ \A k \in Jobs : SameKey(j, k) /\ ~Exists(k) => ~Exists(k)'
       /\ \/ Exists(j)'
          \/ /\ Status(j) \in Terminal /\ outbox[j].published /\ Old(j)
             /\ j \notin consumed']_vars

(* While a lease is valid no other worker gets the job: the job stays with *)
(* its owner until it has an outcome (design 14.3).                        *)
ValidLeaseIsExclusive ==
  [][\A j \in Jobs :
       Status(j) \in Leased /\ jobs[j].left > 0
         => jobs'[j].owner = jobs[j].owner \/ Status(j)' \in Terminal]_vars

(* The store implements the life cycle of JobLifecycle: the diagram of     *)
(* design 7.2, final outcomes, and one announcement made with the outcome. *)
PhaseOf     == [j \in Jobs |-> Status(j)]
AnnouncedOf == [j \in Jobs |-> outbox[j].outcome]

Lifecycle == INSTANCE JobLifecycle WITH phase <- PhaseOf, announced <- AnnouncedOf

ImplementsLifecycle == Lifecycle!Spec

(* The queue limit, as design 16 (item 5) states it: at most               *)
(* max_queued_jobs_per_agent jobs wait for one agent.  Recovery puts jobs  *)
(* back in the queue without looking at the limit.                         *)
QueuedWithinLimit == \A a \in Agents : Cardinality(QueuedFor(a)) <= MaxQueued
=============================================================================
