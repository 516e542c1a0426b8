--------------------------- MODULE DispatchWorker ---------------------------
(***************************************************************************)
(* DispatchJobWorker (mybot/server/dispatch_worker.py) at work on the      *)
(* store of DispatchJobs: one asyncio process, its job tasks and their     *)
(* heartbeats, the cancel events that reach them over the event bus, and   *)
(* the ways all this fails: the process crashes or is stopped, the event   *)
(* loop stalls, a heartbeat dies.  The database and its clock survive.     *)
(*                                                                         *)
(* Coroutines interleave at their awaits only: what runs between two       *)
(* awaits is one action.  A task is named by its job and its attempt.      *)
(* The DispatchQueuedEvent that wakes the worker early is left out: the    *)
(* worker also scans every scan_interval_seconds, and only that is         *)
(* promised (fairness below).                                              *)
(***************************************************************************)
EXTENDS Integers, FiniteSets

CONSTANTS
  Jobs, RequestOf, Sessions, Calls, Agents, Workers, NoWorker, RetrySafe,
  MaxPending, MaxQueued, LeaseTime, Retention,     \* see DispatchJobs
  NoJob,            \* no job
  MaxConcurrency,   \* MaxConcurrency[a]: max_concurrency of agent a
  Faults,           \* which of AllFaults may happen
  MaxFaults,        \* bound: how many of them happen
  RoutedJobs,       \* bound: the jobs whose completion gets routed
  MaxAttempts       \* bound on attempt_count, above what MaxFaults allows

AllFaults == {"crash", "stop", "stall", "heartbeat"}

ASSUME WorkerAssumption ==
  /\ RequestOf \in [Jobs -> [session : Sessions, call : Calls, target : Agents]]
  /\ NoWorker \notin Workers
  /\ NoJob \notin Jobs
  /\ LeaseTime \in Nat \ {0}
  /\ Retention \in Nat
  /\ MaxConcurrency \in [Agents -> Nat \ {0}]     \* Field(ge=1)
  /\ Faults \subseteq AllFaults
  /\ MaxFaults \in Nat
  /\ RoutedJobs \subseteq Jobs
  /\ MaxAttempts \in Nat \ {0}

VARIABLES
  jobs, outbox, consumed,   \* the database
  attempts,     \* attempts[j]: the attempt_count column
  worker,       \* worker_id of the live DispatchJobWorker, or NoWorker
  past,         \* the worker ids of this and of earlier processes
  stopping,     \* run() was cancelled and waits for its tasks
  doomed,       \* the job just claimed for an agent that does not load
  task,         \* task[j][n]: the asyncio task of attempt n at job j
  registry,     \* registry[j]: the attempt behind _tasks[j], 0 if none
  cancels,      \* the jobs with a CancelDispatchEvent on the bus
  faults        \* how many faults happened, and whether one let leases run out

store   == <<jobs, outbox, consumed>>
process == <<worker, past, stopping>>
vars    == <<jobs, outbox, consumed, attempts, worker, past, stopping, doomed,
             task, registry, cancels, faults>>

Store == INSTANCE DispatchJobs

Status(j) == jobs[j].status
Attempts  == 1 .. MaxAttempts

(* created: create_task was called, the coroutine did not start yet;       *)
(* running: inside _execute; ending: past its last write to the store.     *)
TaskRow == [pc : {"none", "created", "running", "ending"},
            cancelled : BOOLEAN,     \* task.cancel() was called
            beating : BOOLEAN]       \* its heartbeat task is alive

NoTask == [pc |-> "none", cancelled |-> FALSE, beating |-> FALSE]

Live(j, n)    == task[j][n].pc \in {"created", "running"}
Running(j, n) == task[j][n].pc = "running" /\ ~task[j][n].cancelled

(* _running_by_agent: up at _start_job, down in the done callback. *)
RunningByAgent(a) ==
  {t \in Jobs \X Attempts : RequestOf[t[1]].target = a /\ task[t[1]][t[2]].pc # "none"}

NoTasks == [j \in Jobs |-> [n \in Attempts |-> NoTask]]

Init ==
  /\ Store!Init
  /\ attempts = [j \in Jobs |-> 0]
  /\ worker = NoWorker
  /\ past = {}
  /\ stopping = FALSE
  /\ doomed = NoJob
  /\ task = NoTasks
  /\ registry = [j \in Jobs |-> 0]
  /\ cancels = {}
  /\ faults = [count |-> 0, late |-> FALSE]

-----------------------------------------------------------------------------
(* The process.                                                            *)

(* A new process has a new DispatchJobWorker, hence a new worker_id. *)
Start ==
  /\ worker = NoWorker
  /\ \E w \in Workers \ past : worker' = w /\ past' = past \cup {w}
  /\ UNCHANGED <<store, attempts, stopping, doomed, task, registry, cancels, faults>>

(* What dies with the process: tasks, heartbeats and the queue of the bus. *)
Gone ==
  /\ worker' = NoWorker
  /\ stopping' = FALSE
  /\ doomed' = NoJob
  /\ task' = NoTasks
  /\ registry' = [j \in Jobs |-> 0]
  /\ cancels' = {}
  /\ UNCHANGED <<store, attempts, past>>

Fault(kind) ==
  /\ kind \in Faults
  /\ faults.count < MaxFaults
  /\ faults' = [count |-> faults.count + 1,
                late  |-> faults.late \/ kind \in {"stall", "heartbeat"}]

Crash == worker # NoWorker /\ Workers \ past # {} /\ Fault("crash") /\ Gone

(* The server stops: run() is cancelled, cancels what _tasks holds and     *)
(* waits for it.  The event bus was stopped before.                        *)
Stop ==
  /\ worker # NoWorker /\ ~stopping /\ doomed = NoJob
  /\ Workers \ past # {}
  /\ Fault("stop")
  /\ stopping' = TRUE
  /\ task' = [j \in Jobs |-> [n \in Attempts |->
                IF n = registry[j] THEN [task[j][n] EXCEPT !.cancelled = TRUE]
                                   ELSE task[j][n]]]
  /\ cancels' = {}
  /\ UNCHANGED <<store, attempts, worker, past, doomed, registry>>

(* The tasks are over: the process exits. *)
Exit ==
  /\ stopping
  /\ \A j \in Jobs : registry[j] = 0
  /\ Gone
  /\ UNCHANGED faults

Scanning == worker # NoWorker /\ ~stopping /\ doomed = NoJob
Serving  == worker # NoWorker /\ doomed = NoJob

-----------------------------------------------------------------------------
(* The worker's loop.                                                      *)

(* _claim_available, one claim: a free slot, claim_next, _start_job. *)
Claim(j) ==
  LET n == attempts[j] + 1
  IN /\ Scanning
     /\ n \in Attempts
     /\ Cardinality(RunningByAgent(RequestOf[j].target)) < MaxConcurrency[RequestOf[j].target]
     /\ Store!ClaimNext(j, worker)
     /\ attempts' = [attempts EXCEPT ![j] = n]
     /\ task' = [task EXCEPT ![j][n] = [NoTask EXCEPT !.pc = "created"]]
     /\ registry' = [registry EXCEPT ![j] = n]
     /\ UNCHANGED <<process, doomed, cancels, faults>>

(* The agent's definition is gone: the job is claimed, and failed in the   *)
(* next transaction.  No await lies in between, but a crash may.           *)
ClaimUnloadable(j) ==
  /\ Scanning
  /\ attempts[j] + 1 \in Attempts
  /\ Store!ClaimNext(j, worker)
  /\ attempts' = [attempts EXCEPT ![j] = @ + 1]
  /\ doomed' = j
  /\ UNCHANGED <<process, task, registry, cancels, faults>>

FailUnloadable ==
  /\ doomed # NoJob
  /\ Store!FinishFailure(doomed, worker)
  /\ doomed' = NoJob
  /\ UNCHANGED <<process, attempts, task, registry, cancels, faults>>

(* Broken on purpose: only running jobs are looked at. *)
RecoverRunningOnly(j) ==
  /\ Scanning
  /\ Status(j) = "running"
  /\ \E retry_safe \in BOOLEAN : Store!RecoverExpired(j, retry_safe)
  /\ UNCHANGED <<process, attempts, doomed, task, registry, cancels, faults>>

(* _recover_expired, one job.  A definition that does not load counts as   *)
(* not safe to retry.                                                      *)
Recover(j) ==
  /\ Scanning
  /\ \E retry_safe \in BOOLEAN : Store!RecoverExpired(j, retry_safe)
  /\ UNCHANGED <<process, attempts, doomed, task, registry, cancels, faults>>

Cleanup ==
  /\ Scanning
  /\ Store!CleanupTerminal
  /\ UNCHANGED <<process, attempts, doomed, task, registry, cancels, faults>>

-----------------------------------------------------------------------------
(* The tasks.                                                              *)

Ended == [pc |-> "ending", cancelled |-> FALSE, beating |-> FALSE]

End(j, n) ==
  /\ task' = [task EXCEPT ![j][n] = Ended]
  /\ UNCHANGED <<process, attempts, doomed, registry, cancels, faults>>

(* _execute up to its first await: the heartbeat is created, and a job     *)
(* that is no longer running (cancel_requested, say) is left alone.        *)
StartTask(j, n) ==
  /\ Serving
  /\ task[j][n].pc = "created" /\ ~task[j][n].cancelled
  /\ IF Status(j) = "running"
     THEN /\ task' = [task EXCEPT ![j][n] = [@ EXCEPT !.pc = "running", !.beating = TRUE]]
          /\ UNCHANGED <<store, process, attempts, doomed, registry, cancels, faults>>
     ELSE End(j, n) /\ UNCHANGED store

(* A task cancelled before its coroutine started runs none of its code. *)
CancelBeforeStart(j, n) ==
  /\ Serving
  /\ task[j][n].pc = "created" /\ task[j][n].cancelled
  /\ End(j, n)
  /\ UNCHANGED store

(* A compare-and-set of this worker that finds another status or owner     *)
(* returns False and changes nothing.                                      *)
Owns(j, status) == jobs[j].owner = worker /\ Status(j) = status

(* finish_success, and finish_cancelled when a cancel request came first. *)
ChildSucceeds(j, n) ==
  /\ Serving /\ Running(j, n)
  /\ \/ Store!FinishSuccess(j, worker)
     \/ Store!FinishCancelled(j, worker)
     \/ ~Owns(j, "running") /\ ~Owns(j, "cancel_requested") /\ UNCHANGED store
  /\ End(j, n)

(* The child raises.  Nothing is written when a cancel request came first: *)
(* the job then waits for its lease to run out.                            *)
ChildFails(j, n) ==
  /\ Serving /\ Running(j, n)
  /\ \/ Store!FinishFailure(j, worker)
     \/ ~Owns(j, "running") /\ UNCHANGED store
  /\ End(j, n)

(* The execution deadline elapses, at the semaphore or in the chat. *)
TimesOut(j, n) ==
  /\ Serving /\ Running(j, n)
  /\ \/ Store!FinishTimedOut(j, worker)
     \/ ~Owns(j, "running") /\ UNCHANGED store
  /\ End(j, n)

(* CancelledError arrives: only a cancel request is concluded; a shutdown  *)
(* leaves the job as it is.                                                *)
TaskCancelled(j, n) ==
  /\ Serving
  /\ task[j][n].pc = "running" /\ task[j][n].cancelled
  /\ \/ Store!FinishCancelled(j, worker)
     \/ ~Owns(j, "cancel_requested") /\ UNCHANGED store
  /\ End(j, n)

(* Broken on purpose: the slot is not given back. *)
TaskDoneLeakingSlot(j, n) ==
  /\ Serving
  /\ task[j][n].pc = "ending"
  /\ registry[j] # 0
  /\ registry' = [registry EXCEPT ![j] = 0]
  /\ UNCHANGED <<store, process, attempts, doomed, task, cancels, faults>>

(* The done callback.  It pops _tasks by job id, whoever is behind it. *)
TaskDone(j, n) ==
  /\ Serving
  /\ task[j][n].pc = "ending"
  /\ task' = [task EXCEPT ![j][n] = NoTask]
  /\ registry' = [registry EXCEPT ![j] = 0]
  /\ UNCHANGED <<store, process, attempts, doomed, cancels, faults>>

(* Broken on purpose: the lease is not renewed after a cancel request. *)
HeartbeatWhileRunning(j, n) ==
  /\ Serving
  /\ task[j][n].pc = "running" /\ task[j][n].beating
  /\ \/ Status(j) = "running" /\ Store!RenewLease(j, worker) /\ UNCHANGED task
     \/ /\ ~Owns(j, "running")
        /\ task' = [task EXCEPT ![j][n].beating = FALSE]
        /\ UNCHANGED store
  /\ UNCHANGED <<process, attempts, doomed, registry, cancels, faults>>

(* One turn of _heartbeat: it ends when the lease is not renewed. *)
Heartbeat(j, n) ==
  /\ Serving
  /\ task[j][n].pc = "running" /\ task[j][n].beating
  /\ \/ Store!RenewLease(j, worker) /\ UNCHANGED task
     \/ /\ ~Owns(j, "running") /\ ~Owns(j, "cancel_requested")
        /\ task' = [task EXCEPT ![j][n].beating = FALSE]
        /\ UNCHANGED store
  /\ UNCHANGED <<process, attempts, doomed, registry, cancels, faults>>

(* renew_lease raises (the database stays locked): nobody restarts it. *)
HeartbeatDies(j, n) ==
  /\ Serving
  /\ task[j][n].pc = "running" /\ task[j][n].beating
  /\ Fault("heartbeat")
  /\ task' = [task EXCEPT ![j][n].beating = FALSE]
  /\ UNCHANGED <<store, process, attempts, doomed, registry, cancels>>

-----------------------------------------------------------------------------
(* The callers, in the same process.                                       *)

Submit(j) ==
  /\ Serving
  /\ Store!CreateJob(j)
  /\ UNCHANGED <<process, attempts, doomed, task, registry, cancels, faults>>

(* Broken on purpose: the tool forgets the CancelDispatchEvent. *)
SubagentCancelSilently(j) ==
  /\ Serving
  /\ Store!RequestCancel(j, RequestOf[j].session)
  /\ UNCHANGED <<process, attempts, doomed, task, registry, cancels, faults>>

(* subagent_cancel, and subagent_dispatch after its wait: request_cancel,  *)
(* then an event if the job is cancel_requested, for a second call too.    *)
SubagentCancel(j) ==
  /\ Serving
  /\ \/ Store!RequestCancel(j, RequestOf[j].session)
     \/ Status(j) = "cancel_requested" /\ UNCHANGED store
  /\ cancels' = IF Status(j)' = "cancel_requested" /\ ~stopping
                THEN cancels \cup {j} ELSE cancels
  /\ UNCHANGED <<process, attempts, doomed, task, registry, faults>>

(* The bus hands a CancelDispatchEvent to cancel(). *)
DeliverCancel(j) ==
  /\ Scanning
  /\ j \in cancels
  /\ cancels' = cancels \ {j}
  /\ task' = IF registry[j] # 0 /\ Live(j, registry[j])
             THEN [task EXCEPT ![j][registry[j]].cancelled = TRUE]
             ELSE task
  /\ UNCHANGED <<store, process, attempts, doomed, registry, faults>>

(* Broken on purpose: the outbox is marked before the consumption. *)
RoutePublishFirst(j) ==
  /\ Serving /\ j \in RoutedJobs
  /\ \/ Store!MarkOutboxPublished(j)
     \/ outbox[j].published /\ Store!ConsumeOnce(j)
  /\ UNCHANGED <<process, attempts, doomed, task, registry, cancels, faults>>

(* CompletionRouter, as far as the store sees it: consume_once when the    *)
(* turn or the reply is through, then, or when was_consumed says so, the   *)
(* mark on the outbox.  The module Completion has it in full.              *)
Route(j) ==
  /\ Serving /\ j \in RoutedJobs
  /\ \/ Store!ConsumeOnce(j)
     \/ j \in consumed /\ Store!MarkOutboxPublished(j)
  /\ UNCHANGED <<process, attempts, doomed, task, registry, cancels, faults>>

-----------------------------------------------------------------------------
(* Time.  A heartbeat renews every third of the lease, so as long as the   *)
(* event loop turns, no lease runs out under a task that still beats or    *)
(* has yet to start.                                                       *)
HeartbeatsAreOnTime ==
  \A j \in Jobs, n \in Attempts :
    task[j][n].pc = "created" \/ task[j][n].beating => jobs[j].left # 1

Quiet == UNCHANGED <<attempts, process, doomed, task, registry, cancels>>

Tick == HeartbeatsAreOnTime /\ Store!Tick /\ Quiet /\ UNCHANGED faults

(* The event loop is blocked, longer than a lease lasts. *)
Stall == ~HeartbeatsAreOnTime /\ Fault("stall") /\ Store!Tick /\ Quiet

-----------------------------------------------------------------------------
TaskStep(j, n) ==
  \/ StartTask(j, n)
  \/ CancelBeforeStart(j, n)
  \/ ChildSucceeds(j, n)
  \/ ChildFails(j, n)
  \/ TimesOut(j, n)
  \/ TaskCancelled(j, n)
  \/ TaskDone(j, n)

Next ==
  \/ Start \/ Crash \/ Stop \/ Exit
  \/ FailUnloadable \/ Cleanup \/ Tick \/ Stall
  \/ \E j \in Jobs :
       \/ Claim(j) \/ ClaimUnloadable(j) \/ Recover(j)
       \/ Submit(j) \/ SubagentCancel(j) \/ DeliverCancel(j) \/ Route(j)
  \/ \E j \in Jobs, n \in Attempts : TaskStep(j, n) \/ Heartbeat(j, n) \/ HeartbeatDies(j, n)

Spec == Init /\ [][Next]_vars

(* A stopped service is started again; the worker scans for ever, each     *)
(* scan recovers and claims all it may; a started task gets to its end, at *)
(* the latest by its deadline; heartbeats and the clock go on.  Nothing is *)
(* assumed of the callers and of the bus, nor that definitions stay away.  *)
Fairness ==
  /\ WF_vars(Start) /\ WF_vars(Exit)
  /\ WF_vars(FailUnloadable)
  /\ WF_vars(Tick)
  /\ WF_vars(\E j \in Jobs : Claim(j))
  /\ \A j \in Jobs : WF_vars(Recover(j))
  /\ \A j \in Jobs, n \in Attempts : WF_vars(TaskStep(j, n)) /\ WF_vars(Heartbeat(j, n))

FairSpec == Spec /\ Fairness

-----------------------------------------------------------------------------
TypeOK ==
  /\ Store!TypeOK
  /\ attempts \in [Jobs -> 0 .. MaxAttempts]
  /\ past \subseteq Workers /\ worker \in past \cup {NoWorker}
  /\ stopping \in BOOLEAN /\ (stopping => worker # NoWorker)
  /\ doomed \in Jobs \cup {NoJob}
  /\ task \in [Jobs -> [Attempts -> TaskRow]]
  /\ registry \in [Jobs -> 0 .. MaxAttempts]
  /\ cancels \subseteq Jobs
  /\ faults \in [count : 0 .. MaxFaults, late : BOOLEAN]

(* A task that runs, or is about to, works for the latest attempt at its   *)
(* job, and this worker holds the lease: across crashes, restarts and      *)
(* shutdowns no job runs twice at a time, and none runs that the store     *)
(* calls queued or finished (design 14.3).  It takes a stall of the loop   *)
(* or a dead heartbeat to break this.                                      *)
LiveTaskHoldsLease ==
  ~faults.late =>
    \A j \in Jobs, n \in Attempts :
      Live(j, n) => /\ Status(j) \in Store!Leased
                    /\ jobs[j].owner = worker
                    /\ attempts[j] = n

(* A cancel request is never forgotten: until the task has been told, its  *)
(* event is still on the bus.  Rests on _tasks naming the right task.      *)
CancelReachesTask ==
  ~faults.late =>
    \A j \in Jobs, n \in Attempts :
      Status(j) = "cancel_requested" /\ Live(j, n) /\ ~task[j][n].cancelled
        => j \in cancels

(* A job whose agent is not retry_safe is started at most once, whatever   *)
(* fails: a child with side effects is never replayed (design 14.3).       *)
NonRetrySafeRunsOnce ==
  \A j \in Jobs : RequestOf[j].target \notin RetrySafe => attempts[j] <= 1

(* Every extra attempt at a job was paid for by a fault: cancelling,       *)
(* finishing late, waiting for a slot never make a job run again.          *)
EveryRetryHasAFault == \A j \in Jobs : attempts[j] <= 1 + faults.count

(* An outcome that nobody has routed is never swept away: between the job, *)
(* the router's two commits, a crash and the retention of any later        *)
(* process, the row goes only after its consumption was on file.           *)
OnlyRoutedJobsArePurged ==
  [][\A j \in Jobs :
       Status(j) # "purged" /\ Status(j)' = "purged"
         => Status(j) \in Store!Terminal /\ j \in consumed]_vars

(* A queued job gets an outcome, if faults are finitely many.              *)
EveryJobEnds == \A j \in Jobs : Status(j) = "queued" ~> Status(j) \in Store!Terminal

(* A cancel request ends in "cancelled", even when its event is lost or    *)
(* the child fails first; lease recovery is what settles those.            *)
EveryCancelEnds ==
  \A j \in Jobs : Status(j) = "cancel_requested" ~> Status(j) = "cancelled"
=============================================================================
