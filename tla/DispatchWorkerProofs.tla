------------------------ MODULE DispatchWorkerProofs ------------------------
(***************************************************************************)
(* Theorems about the worker, for every set of jobs, agents and worker     *)
(* ids, and any number of faults of any kind: it never replays a job that  *)
(* is not safe to retry, a retry has a fault, no outcome is purged before  *)
(* it was routed, and until a lease runs out under a task the live tasks   *)
(* hold their leases and hear of their cancellation.                       *)
(***************************************************************************)
EXTENDS DispatchWorker, TLAPS

-----------------------------------------------------------------------------
(* A step of the worker is a step of the store, for the worker acts under  *)
(* a worker id.                                                            *)
IdInv ==
  /\ worker \in Workers \cup {NoWorker}
  /\ doomed \in Jobs \cup {NoJob}
  /\ doomed # NoJob => worker # NoWorker

LEMMA IdsKept == IdInv /\ [Next]_vars => IdInv'
<1>. SUFFICES ASSUME IdInv, [Next]_vars PROVE IdInv'
  OBVIOUS
<1>. USE DEF IdInv, process, store
<1>1. ASSUME NEW j \in Jobs, NEW n \in Attempts, TaskStep(j, n) PROVE IdInv'
  BY <1>1 DEF TaskStep, StartTask, CancelBeforeStart, ChildSucceeds, ChildFails, TimesOut,
     TaskCancelled, TaskDone, End
<1>2. ASSUME NEW j \in Jobs, NEW n \in Attempts, Heartbeat(j, n) \/ HeartbeatDies(j, n)
      PROVE  IdInv'
  BY <1>2 DEF Heartbeat, HeartbeatDies
<1>3. ASSUME NEW j \in Jobs,
             \/ Claim(j) \/ ClaimUnloadable(j) \/ Recover(j)
             \/ Submit(j) \/ SubagentCancel(j) \/ DeliverCancel(j) \/ Route(j)
      PROVE  IdInv'
  BY <1>3 DEF Claim, ClaimUnloadable, Recover, Submit, SubagentCancel, DeliverCancel, Route,
     Scanning
<1>4. CASE Start \/ Crash \/ Stop \/ Exit
  BY <1>4, WorkerAssumption DEF Start, Crash, Stop, Exit, Gone
<1>5. CASE FailUnloadable \/ Cleanup \/ Tick \/ Stall
  BY <1>5 DEF FailUnloadable, Cleanup, Tick, Stall, Quiet
<1>6. CASE UNCHANGED vars
  BY <1>6 DEF vars
<1>. QED BY <1>1, <1>2, <1>3, <1>4, <1>5, <1>6 DEF Next

LEMMA TaskStepImplements ==
  ASSUME IdInv, NEW j \in Jobs, NEW n \in Attempts,
         TaskStep(j, n) \/ Heartbeat(j, n) \/ HeartbeatDies(j, n)
  PROVE  [Store!Next]_(Store!vars)
<1>0. UNCHANGED store => UNCHANGED Store!vars
  BY DEF store, Store!vars
<1>1. ASSUME worker \in Workers, Store!WorkerStep(j, worker) PROVE Store!Next
  BY <1>1 DEF Store!Next
<1>2. Serving => worker \in Workers
  BY DEF Serving, IdInv
<1>3. CASE TaskDone(j, n) \/ StartTask(j, n) \/ CancelBeforeStart(j, n) \/ HeartbeatDies(j, n)
  BY <1>0, <1>3 DEF TaskDone, StartTask, CancelBeforeStart, HeartbeatDies, store
<1>4. CASE ChildSucceeds(j, n) \/ ChildFails(j, n) \/ TimesOut(j, n) \/ TaskCancelled(j, n)
  BY <1>0, <1>1, <1>2, <1>4 DEF ChildSucceeds, ChildFails, TimesOut, TaskCancelled,
     Store!WorkerStep
<1>5. CASE Heartbeat(j, n)
  BY <1>0, <1>1, <1>2, <1>5 DEF Heartbeat, Store!WorkerStep
<1>. QED BY <1>3, <1>4, <1>5 DEF TaskStep

LEMMA StepImplements == IdInv /\ [Next]_vars => [Store!Next]_(Store!vars)
<1>. SUFFICES ASSUME IdInv, [Next]_vars PROVE [Store!Next]_(Store!vars)
  OBVIOUS
<1>0. UNCHANGED store => UNCHANGED Store!vars
  BY DEF store, Store!vars
<1>1. ASSUME NEW j \in Jobs, Claim(j) \/ ClaimUnloadable(j) PROVE Store!Next
  <2>1. worker \in Workers /\ Store!ClaimNext(j, worker)
    BY <1>1 DEF Claim, ClaimUnloadable, Scanning, IdInv
  <2>. QED BY <2>1 DEF Store!Next, Store!WorkerStep
<1>2. CASE FailUnloadable
  <2>1. doomed \in Jobs /\ worker \in Workers /\ Store!FinishFailure(doomed, worker)
    BY <1>2 DEF FailUnloadable, IdInv
  <2>. QED BY <2>1 DEF Store!Next, Store!WorkerStep
<1>3. ASSUME NEW j \in Jobs, Recover(j) \/ Submit(j) \/ Route(j) PROVE Store!Next
  BY <1>3 DEF Recover, Submit, Route, Store!Next
<1>4. ASSUME NEW j \in Jobs, SubagentCancel(j) PROVE [Store!Next]_(Store!vars)
  <2>1. RequestOf[j].session \in Sessions
    BY WorkerAssumption
  <2>. QED BY <1>0, <1>4, <2>1 DEF SubagentCancel, Store!Next
<1>5. ASSUME NEW j \in Jobs, DeliverCancel(j) PROVE UNCHANGED Store!vars
  BY <1>0, <1>5 DEF DeliverCancel, store
<1>6. CASE Cleanup \/ Tick \/ Stall
  BY <1>6 DEF Cleanup, Tick, Stall, Store!Next
<1>7. CASE Start \/ Crash \/ Stop \/ Exit \/ UNCHANGED vars
  BY <1>0, <1>7 DEF Start, Crash, Stop, Exit, Gone, vars, store
<1>. QED BY <1>1, <1>2, <1>3, <1>4, <1>5, <1>6, <1>7, TaskStepImplements DEF Next

-----------------------------------------------------------------------------
(* What steps of the store do to the row of each job.                      *)
Row == [status : Store!Statuses, owner : Workers \cup {NoWorker},
        left : Int, created : Int, age : Int]

Shape == jobs \in [Jobs -> Row]

Becomes(j, to) ==
  Shape' /\ Status(j)' = to /\ \A k \in Jobs \ {j} : jobs'[k] = jobs[k]

LEMMA RowWritten ==
  ASSUME Shape, NEW j \in Jobs, NEW r \in Row, jobs' = [jobs EXCEPT ![j] = r]
  PROVE  Becomes(j, r.status) /\ jobs'[j] = r
BY DEF Shape, Becomes, Status

LEMMA CreateEffect ==
  ASSUME Shape, NEW j \in Jobs, Store!CreateJob(j)
  PROVE  Status(j) = "absent" /\ Becomes(j, "queued") /\ jobs'[j].age = Store!NoTime
<1>0. Store!Insert(j)
  BY DEF Store!CreateJob
<1>1. PICK c \in 0 .. Store!Cardinality(Jobs) :
        jobs' = [jobs EXCEPT ![j] = [Store!NoRow("queued") EXCEPT !.created = c]]
  BY <1>0 DEF Store!Insert
<1>. DEFINE r == [Store!NoRow("queued") EXCEPT !.created = c]
<1>2. r \in Row /\ r.status = "queued" /\ r.age = Store!NoTime
  BY DEF Row, Store!NoRow, Store!Statuses, Store!Pending, Store!NoTime
<1>. HIDE DEF r
<1>3. jobs' = [jobs EXCEPT ![j] = r]
  BY <1>1 DEF r
<1>4. Status(j) = "absent"
  BY DEF Store!CreateJob, Store!Status, Status
<1>. QED BY <1>2, <1>3, <1>4, RowWritten

LEMMA ClaimEffect ==
  ASSUME Shape, NEW j \in Jobs, NEW w \in Workers, Store!ClaimNext(j, w)
  PROVE  /\ Status(j) = "queued" /\ Becomes(j, "running")
         /\ jobs'[j].owner = w /\ jobs'[j].left = LeaseTime /\ jobs'[j].age = jobs[j].age
<1>. DEFINE r == [jobs[j] EXCEPT !.status = "running", !.owner = w, !.left = LeaseTime]
<1>1. jobs[j] \in Row
  BY DEF Shape
<1>2. /\ r.status = "running" /\ r.owner = w /\ r.left = LeaseTime
      /\ r.created = jobs[j].created /\ r.age = jobs[j].age
  BY <1>1 DEF Row
<1>a. /\ r.status \in Store!Statuses /\ r.owner \in Workers \cup {NoWorker}
      /\ r.left \in Int /\ r.created \in Int /\ r.age \in Int
  BY <1>1, <1>2, WorkerAssumption DEF Row, Store!Statuses, Store!Pending, Store!Leased
<1>3. r \in Row
  BY <1>1, <1>a DEF Row
<1>4. jobs' = [jobs EXCEPT ![j] = r]
  BY DEF Store!ClaimNext
<1>5. Status(j) = "queued"
  BY DEF Store!ClaimNext, Store!OldestQueued, Store!QueuedFor, Store!Status, Status
<1>. QED BY <1>2, <1>3, <1>4, <1>5, RowWritten

LEMMA RenewEffect ==
  ASSUME Shape, NEW j \in Jobs, NEW w, Store!RenewLease(j, w)
  PROVE  /\ Status(j) \in Store!Leased /\ Becomes(j, Status(j))
         /\ jobs'[j].owner = jobs[j].owner /\ jobs'[j].left = LeaseTime
         /\ jobs'[j].age = jobs[j].age
<1>. DEFINE r == [jobs[j] EXCEPT !.left = LeaseTime]
<1>1. jobs[j] \in Row
  BY DEF Shape
<1>2. /\ r \in Row /\ r.status = Status(j)
      /\ r.owner = jobs[j].owner /\ r.left = LeaseTime /\ r.age = jobs[j].age
  BY <1>1, WorkerAssumption DEF Row, Status
<1>. HIDE DEF r
<1>3. jobs' = [jobs EXCEPT ![j] = r] /\ Status(j) \in Store!Leased
  BY DEF Store!RenewLease, Store!Status, Status, r
<1>. QED BY <1>2, <1>3, RowWritten

LEMMA RecordEffect ==
  ASSUME Shape, NEW j \in Jobs, NEW outcome \in Store!Terminal, Store!Record(j, outcome)
  PROVE  Becomes(j, outcome)
<1>. DEFINE r == [jobs[j] EXCEPT !.status = outcome, !.owner = NoWorker,
                                 !.left = Store!NoTime, !.created = Store!NoTime,
                                 !.age = 0]
<1>1. jobs[j] \in Row
  BY DEF Shape
<1>2. /\ r.status = outcome /\ r.owner = NoWorker /\ r.left = Store!NoTime
      /\ r.created = Store!NoTime /\ r.age = 0
  BY <1>1 DEF Row
<1>a. /\ r.status \in Store!Statuses /\ r.owner \in Workers \cup {NoWorker}
      /\ r.left \in Int /\ r.created \in Int /\ r.age \in Int
  BY <1>1, <1>2 DEF Row, Store!Statuses, Store!NoTime
<1>3. r \in Row
  BY <1>1, <1>a DEF Row
<1>4. jobs' = [jobs EXCEPT ![j] = r]
  BY DEF Store!Record
<1>. QED BY <1>2, <1>3, <1>4, RowWritten

LEMMA CancelEffect ==
  ASSUME Shape, NEW j \in Jobs,
         jobs' = [jobs EXCEPT ![j] = [@ EXCEPT !.status = "cancel_requested"]]
  PROVE  /\ Becomes(j, "cancel_requested") /\ jobs'[j].owner = jobs[j].owner
         /\ jobs'[j].left = jobs[j].left /\ jobs'[j].age = jobs[j].age
<1>. DEFINE r == [jobs[j] EXCEPT !.status = "cancel_requested"]
<1>1. /\ r \in Row /\ r.status = "cancel_requested" /\ r.owner = jobs[j].owner
      /\ r.left = jobs[j].left /\ r.age = jobs[j].age
  BY DEF Shape, Row, Store!Statuses, Store!Pending, Store!Leased
<1>2. jobs' = [jobs EXCEPT ![j] = r]
  OBVIOUS
<1>. HIDE DEF r
<1>. QED BY <1>1, <1>2, RowWritten

LEMMA RequeueEffect ==
  ASSUME Shape, NEW j \in Jobs,
         jobs' = [jobs EXCEPT ![j] = [@ EXCEPT !.status = "queued", !.owner = NoWorker,
                                               !.left = Store!NoTime]]
  PROVE  Becomes(j, "queued") /\ jobs'[j].age = jobs[j].age
<1>. DEFINE r == [jobs[j] EXCEPT !.status = "queued", !.owner = NoWorker,
                                 !.left = Store!NoTime]
<1>1. jobs[j] \in Row
  BY DEF Shape
<1>2. /\ r.status = "queued" /\ r.owner = NoWorker /\ r.left = Store!NoTime
      /\ r.created = jobs[j].created /\ r.age = jobs[j].age
  BY <1>1 DEF Row
<1>3. /\ r.status \in Store!Statuses /\ r.owner \in Workers \cup {NoWorker}
      /\ r.left \in Int /\ r.created \in Int /\ r.age \in Int
  BY <1>1, <1>2 DEF Row, Store!Statuses, Store!Pending, Store!NoTime
<1>4. r \in Row
  BY <1>1, <1>3 DEF Row
<1>5. jobs' = [jobs EXCEPT ![j] = r]
  OBVIOUS
<1>. HIDE DEF r
<1>6. Becomes(j, r.status) /\ jobs'[j] = r
  BY <1>4, <1>5, RowWritten
<1>. QED BY <1>2, <1>6

LEMMA CleanupEffect ==
  ASSUME Shape, Store!CleanupTerminal
  PROVE  /\ Shape'
         /\ \A k \in Jobs : \/ jobs'[k] = jobs[k]
                            \/ /\ jobs[k].age > Retention
                               /\ Status(k)' = "purged"
<1>1. PICK dead \in SUBSET Jobs :
        /\ \A k \in dead : jobs[k].age > Retention
        /\ jobs' = [j \in Jobs |-> IF j \in dead THEN Store!NoRow("purged") ELSE jobs[j]]
  BY DEF Store!CleanupTerminal, Store!Old
<1>2. Store!NoRow("purged") \in Row /\ Store!NoRow("purged").status = "purged"
  BY DEF Row, Store!NoRow, Store!Statuses, Store!NoTime
<1>. QED BY <1>1, <1>2 DEF Shape, Status

LEMMA TickEffect ==
  ASSUME Shape, Store!Tick
  PROVE  /\ Shape'
         /\ \A k \in Jobs : /\ Status(k)' = Status(k) /\ jobs'[k].owner = jobs[k].owner
                            /\ jobs'[k].left = IF jobs[k].left > 0 THEN jobs[k].left - 1
                                                                  ELSE jobs[k].left
                            /\ jobs[k].age = Store!NoTime => jobs'[k].age = Store!NoTime
<1>1. ASSUME NEW j \in Jobs
      PROVE  /\ Store!Passed(jobs[j]) \in Row
             /\ Store!Passed(jobs[j]).status = jobs[j].status
             /\ Store!Passed(jobs[j]).owner = jobs[j].owner
             /\ Store!Passed(jobs[j]).left = IF jobs[j].left > 0 THEN jobs[j].left - 1
                                                                ELSE jobs[j].left
             /\ jobs[j].age = Store!NoTime => Store!Passed(jobs[j]).age = Store!NoTime
  <2>1. jobs[j] \in Row
    BY DEF Shape
  <2>. DEFINE p == Store!Passed(jobs[j])
  <2>2. /\ p.status = jobs[j].status /\ p.owner = jobs[j].owner
        /\ p.left = (IF jobs[j].left > 0 THEN jobs[j].left - 1 ELSE jobs[j].left)
        /\ p.created = jobs[j].created
        /\ p.age = (IF jobs[j].age \in 0 .. Retention THEN jobs[j].age + 1 ELSE jobs[j].age)
    BY <2>1 DEF Store!Passed, Row
  <2>3. p.left \in Int /\ p.age \in Int
    BY <2>1, <2>2 DEF Row
  <2>4. jobs[j].age = Store!NoTime => p.age = Store!NoTime
    BY <2>2 DEF Store!NoTime
  <2>5. p \in Row
    BY <2>1, <2>2, <2>3 DEF Store!Passed, Row
  <2>. QED BY <2>2, <2>4, <2>5
<1>2. jobs' = [j \in Jobs |-> Store!Passed(jobs[j])]
  BY DEF Store!Tick
<1>. QED BY <1>1, <1>2 DEF Shape, Status

(* Retention and the router.  An age is of a finished job, a finished job  *)
(* has its record, and a record is marked after its consumption.           *)
RoutedInv ==
  /\ Shape
  /\ outbox \in [Jobs -> Store!OutboxRow]
  /\ \A j \in Jobs : jobs[j].age # Store!NoTime
                     => Status(j) \in Store!Terminal /\ outbox[j].outcome # "none"
  /\ \A j \in Jobs : outbox[j].published => j \in consumed

(* The router's order, the one thing a step of the store does not have.    *)
InOrder == \A j \in Jobs : ~outbox[j].published /\ outbox'[j].published => j \in consumed

(* What one step leaves of the invariant, and of a job that it purges.     *)
RoutedStep ==
  /\ RoutedInv'
  /\ \A k \in Jobs : Status(k) # "purged" /\ Status(k)' = "purged"
                     => Status(k) \in Store!Terminal /\ k \in consumed

(* Any step that writes one row and no outbox record. *)
LEMMA RowStepRoutes ==
  ASSUME RoutedInv, NEW j \in Jobs, NEW to, Becomes(j, to), to # "purged",
         jobs'[j].age # Store!NoTime => to \in Store!Terminal /\ outbox[j].outcome # "none",
         UNCHANGED <<outbox, consumed>>
  PROVE  RoutedStep
BY DEF RoutedInv, RoutedStep, Becomes, Status

LEMMA RecordRoutes ==
  ASSUME RoutedInv, NEW j \in Jobs, NEW outcome \in Store!Terminal, Store!Record(j, outcome)
  PROVE  RoutedStep
<1>1. Becomes(j, outcome)
  BY RecordEffect DEF RoutedInv
<1>2. /\ outbox' \in [Jobs -> Store!OutboxRow] /\ consumed' = consumed
      /\ outbox'[j].outcome # "none"
      /\ \A k \in Jobs : /\ outbox'[k].published => outbox[k].published
                         /\ outbox[k].outcome # "none" => outbox'[k].outcome # "none"
  <2>. DEFINE e == [outcome |-> outcome, published |-> FALSE]
  <2>1. e \in Store!OutboxRow /\ e.outcome # "none" /\ ~e.published
    BY DEF Store!OutboxRow, Store!Terminal
  <2>2. outbox' = IF outbox[j].outcome = "none" THEN [outbox EXCEPT ![j] = e] ELSE outbox
    BY DEF Store!Record
  <2>3. consumed' = consumed
    BY DEF Store!Record
  <2>. HIDE DEF e
  <2>. QED BY <2>1, <2>2, <2>3 DEF RoutedInv
<1>3. outcome # "purged" /\ outcome \in Store!Terminal
  BY DEF Store!Terminal
<1>. QED BY <1>1, <1>2, <1>3 DEF RoutedInv, RoutedStep, Becomes, Status

LEMMA CleanupRoutes ==
  ASSUME RoutedInv, Store!CleanupTerminal
  PROVE  RoutedStep
<1>. DEFINE gone == {j \in Jobs : Store!Old(j) /\ outbox[j].published}
<1>1. \A j \in Jobs : Store!Old(j) => Status(j) \in Store!Terminal /\ outbox[j].outcome # "none"
  BY WorkerAssumption DEF RoutedInv, Store!Old, Store!NoTime
<1>2. /\ consumed' = consumed \ gone
      /\ outbox' = [j \in Jobs |-> IF j \in gone THEN Store!NoEvent ELSE outbox[j]]
      /\ jobs' = [j \in Jobs |-> IF j \in gone THEN Store!NoRow("purged") ELSE jobs[j]]
  BY <1>1 DEF Store!CleanupTerminal
<1>3. Store!NoEvent \in Store!OutboxRow /\ ~Store!NoEvent.published
  BY DEF Store!NoEvent, Store!OutboxRow
<1>4. Store!NoRow("purged").age = Store!NoTime
  BY DEF Store!NoRow
<1>5. \A j \in gone : Status(j) \in Store!Terminal /\ j \in consumed
  BY <1>1 DEF RoutedInv
<1>6. Shape'
  BY CleanupEffect DEF RoutedInv
<1>7. gone \subseteq Jobs
  OBVIOUS
<1>. HIDE DEF gone
<1>8. RoutedInv'
  BY <1>2, <1>3, <1>4, <1>6, <1>7 DEF RoutedInv, Status
<1>. QED BY <1>2, <1>5, <1>8 DEF RoutedStep, Status

LEMMA StoreStepRoutes ==
  ASSUME RoutedInv, Store!Next, InOrder
  PROVE  RoutedStep
<1>. USE DEF Store!Terminal
<1>0. ASSUME NEW j \in Jobs, NEW expected, NEW outcome \in Store!Terminal,
             Store!Finish(j, expected, outcome)
      PROVE  RoutedStep
  BY <1>0, RecordRoutes DEF Store!Finish
<1>s. Shape /\ \A j \in Jobs : Status(j) \notin Store!Terminal => jobs[j].age = Store!NoTime
  BY DEF RoutedInv
<1>1. ASSUME NEW j \in Jobs, NEW w \in Workers, Store!WorkerStep(j, w)
      PROVE  RoutedStep
  <2>1. CASE Store!ClaimNext(j, w)
    <3>1. Status(j) = "queued" /\ Becomes(j, "running") /\ jobs'[j].age = jobs[j].age
      BY <1>s, <2>1, ClaimEffect
    <3>2. UNCHANGED <<outbox, consumed>>
      BY <2>1 DEF Store!ClaimNext
    <3>. QED BY <1>s, <3>1, <3>2, RowStepRoutes
  <2>2. CASE Store!RenewLease(j, w)
    <3>1. /\ Status(j) \in Store!Leased /\ Becomes(j, Status(j)) /\ jobs'[j].age = jobs[j].age
      BY <1>s, <2>2, RenewEffect
    <3>2. UNCHANGED <<outbox, consumed>>
      BY <2>2 DEF Store!RenewLease
    <3>3. Status(j) # "purged" /\ jobs[j].age = Store!NoTime
      BY <1>s, <3>1 DEF Store!Leased
    <3>. QED BY <3>1, <3>2, <3>3, RowStepRoutes
  <2>3. CASE \/ Store!FinishSuccess(j, w) \/ Store!FinishFailure(j, w)
             \/ Store!FinishTimedOut(j, w) \/ Store!FinishCancelled(j, w)
    BY <1>0, <2>3 DEF Store!FinishSuccess, Store!FinishFailure, Store!FinishTimedOut,
       Store!FinishCancelled, Store!FinishAs
  <2>. QED BY <1>1, <2>1, <2>2, <2>3 DEF Store!WorkerStep
<1>2. ASSUME NEW j \in Jobs, NEW s \in Sessions, Store!RequestCancel(j, s) PROVE RoutedStep
  <2>1. CASE Store!Finish(j, "queued", "cancelled")
    BY <1>0, <2>1
  <2>2. CASE /\ Store!Status(j) = "running"
             /\ jobs' = [jobs EXCEPT ![j] = [@ EXCEPT !.status = "cancel_requested"]]
             /\ UNCHANGED <<outbox, consumed>>
    <3>1. Becomes(j, "cancel_requested") /\ jobs'[j].age = jobs[j].age
      BY <1>s, <2>2, CancelEffect
    <3>2. Status(j) = "running"
      BY <2>2 DEF Status, Store!Status
    <3>. QED BY <1>s, <2>2, <3>1, <3>2, RowStepRoutes
  <2>. QED BY <1>2, <2>1, <2>2 DEF Store!RequestCancel
<1>3. ASSUME NEW j \in Jobs, NEW r \in BOOLEAN, Store!RecoverExpired(j, r) PROVE RoutedStep
  <2>1. CASE Store!Finish(j, "cancel_requested", "cancelled") \/ Store!Finish(j, "running", "failed")
    BY <1>0, <2>1
  <2>2. CASE /\ Store!Status(j) = "running"
             /\ jobs' = [jobs EXCEPT ![j] = [@ EXCEPT !.status = "queued", !.owner = NoWorker,
                                                      !.left = Store!NoTime]]
             /\ UNCHANGED <<outbox, consumed>>
    <3>1. Becomes(j, "queued") /\ jobs'[j].age = jobs[j].age
      BY <1>s, <2>2, RequeueEffect
    <3>2. Status(j) = "running"
      BY <2>2 DEF Status, Store!Status
    <3>. QED BY <1>s, <2>2, <3>1, <3>2, RowStepRoutes
  <2>. QED BY <1>3, <2>1, <2>2 DEF Store!RecoverExpired
<1>4. ASSUME NEW j \in Jobs, Store!CreateJob(j) PROVE RoutedStep
  <2>1. Becomes(j, "queued") /\ jobs'[j].age = Store!NoTime
    BY <1>s, <1>4, CreateEffect
  <2>2. UNCHANGED <<outbox, consumed>>
    BY <1>4 DEF Store!CreateJob, Store!Insert
  <2>. QED BY <2>1, <2>2, RowStepRoutes
<1>5. ASSUME NEW j \in Jobs, Store!ConsumeOnce(j) PROVE RoutedStep
  BY <1>5 DEF Store!ConsumeOnce, RoutedInv, RoutedStep, Shape, Status
<1>6. ASSUME NEW j \in Jobs, Store!MarkOutboxPublished(j) PROVE RoutedStep
  <2>. DEFINE e == [outbox[j] EXCEPT !.published = TRUE]
  <2>1. e \in Store!OutboxRow /\ e.outcome = outbox[j].outcome
    BY DEF RoutedInv, Store!OutboxRow
  <2>2. outbox' = [outbox EXCEPT ![j] = e] /\ jobs' = jobs /\ consumed' = consumed
    BY <1>6 DEF Store!MarkOutboxPublished
  <2>. HIDE DEF e
  <2>3. /\ outbox' \in [Jobs -> Store!OutboxRow]
        /\ \A k \in Jobs : outbox'[k].outcome = outbox[k].outcome
    BY <2>1, <2>2 DEF RoutedInv
  <2>4. \A k \in Jobs : outbox'[k].published => k \in consumed
    BY DEF InOrder, RoutedInv
  <2>. QED BY <2>2, <2>3, <2>4 DEF RoutedInv, RoutedStep, Shape, Status
<1>7. CASE Store!CleanupTerminal
  BY <1>7, CleanupRoutes
<1>8. CASE Store!Tick
  <2>1. Shape' /\ \A k \in Jobs : /\ Status(k)' = Status(k)
                                  /\ jobs[k].age = Store!NoTime => jobs'[k].age = Store!NoTime
    BY <1>s, <1>8, TickEffect
  <2>2. UNCHANGED <<outbox, consumed>>
    BY <1>8 DEF Store!Tick
  <2>. QED BY <2>1, <2>2 DEF RoutedInv, RoutedStep
<1>. QED BY <1>1, <1>2, <1>3, <1>4, <1>5, <1>6, <1>7, <1>8 DEF Store!Next

(* The router is the only one to mark a record, and it has its order. *)
LEMMA RouterIsInOrder == IdInv /\ RoutedInv /\ Next => InOrder
<1>. SUFFICES ASSUME IdInv, RoutedInv, Next, NEW k \in Jobs, ~outbox[k].published, outbox'[k].published
              PROVE  k \in consumed
  BY DEF InOrder
<1>1. ASSUME outbox' = outbox PROVE FALSE
  BY <1>1
<1>2. ASSUME NEW j \in Jobs, NEW o, Store!Record(j, o) PROVE FALSE
  <2>. DEFINE e == [outcome |-> o, published |-> FALSE]
  <2>1. ~e.published
    OBVIOUS
  <2>2. outbox' = outbox \/ outbox' = [outbox EXCEPT ![j] = e]
    BY <1>2 DEF Store!Record
  <2>. HIDE DEF e
  <2>. QED BY <1>1, <2>1, <2>2 DEF RoutedInv
<1>3. ASSUME NEW j \in Jobs, NEW n \in Attempts,
             TaskStep(j, n) \/ Heartbeat(j, n) \/ HeartbeatDies(j, n)
      PROVE  FALSE
  <2>1. CASE ChildSucceeds(j, n) \/ ChildFails(j, n) \/ TimesOut(j, n) \/ TaskCancelled(j, n)
    BY <1>1, <1>2, <2>1 DEF ChildSucceeds, ChildFails, TimesOut, TaskCancelled, Store!Finish,
       Store!FinishSuccess, Store!FinishFailure, Store!FinishTimedOut, Store!FinishCancelled,
       Store!FinishAs, store
  <2>2. CASE TaskDone(j, n) \/ StartTask(j, n) \/ CancelBeforeStart(j, n) \/ HeartbeatDies(j, n)
    BY <1>1, <2>2 DEF TaskDone, StartTask, CancelBeforeStart, HeartbeatDies, store
  <2>3. CASE Heartbeat(j, n)
    BY <1>1, <2>3 DEF Heartbeat, Store!RenewLease, store
  <2>. QED BY <1>3, <2>1, <2>2, <2>3 DEF TaskStep
<1>4. ASSUME NEW j \in Jobs, Recover(j) \/ SubagentCancel(j) PROVE FALSE
  BY <1>1, <1>2, <1>4 DEF Recover, SubagentCancel, Store!RecoverExpired, Store!RequestCancel,
     Store!Finish, store
<1>5. ASSUME NEW j \in Jobs, Claim(j) \/ ClaimUnloadable(j) \/ Submit(j) \/ DeliverCancel(j)
      PROVE  FALSE
  BY <1>1, <1>5 DEF Claim, ClaimUnloadable, Submit, DeliverCancel, Store!ClaimNext,
     Store!CreateJob, Store!Insert, store
<1>6. ASSUME NEW j \in Jobs, Route(j) PROVE k \in consumed
  <2>1. CASE Store!ConsumeOnce(j)
    BY <1>1, <2>1 DEF Store!ConsumeOnce
  <2>2. CASE j \in consumed /\ Store!MarkOutboxPublished(j)
    BY <2>2 DEF Store!MarkOutboxPublished, RoutedInv
  <2>. QED BY <1>6, <2>1, <2>2 DEF Route
<1>7. CASE FailUnloadable
  BY <1>2, <1>7 DEF IdInv, FailUnloadable, Store!FinishFailure, Store!FinishAs, Store!Finish
<1>8. CASE Cleanup
  <2>1. outbox' = [j \in Jobs |-> IF Store!Old(j) /\ outbox[j].published
                                  THEN Store!NoEvent ELSE outbox[j]]
    BY <1>8 DEF Cleanup, Store!CleanupTerminal
  <2>2. ~Store!NoEvent.published
    BY DEF Store!NoEvent
  <2>. QED BY <2>1, <2>2
<1>9. CASE Tick \/ Stall \/ Start \/ Crash \/ Stop \/ Exit
  BY <1>1, <1>9 DEF Tick, Stall, Start, Crash, Stop, Exit, Gone, Store!Tick, store
<1>. QED BY <1>3, <1>4, <1>5, <1>6, <1>7, <1>8, <1>9 DEF Next

LEMMA RoutedStepHolds == IdInv /\ RoutedInv /\ [Next]_vars => RoutedStep
<1>. SUFFICES ASSUME IdInv, RoutedInv, [Next]_vars PROVE RoutedStep
  OBVIOUS
<1>1. CASE UNCHANGED Store!vars
  BY <1>1 DEF Store!vars, RoutedStep, RoutedInv, Shape, Status
<1>2. CASE Next /\ Store!Next
  BY <1>2, RouterIsInOrder, StoreStepRoutes
<1>3. CASE UNCHANGED vars
  BY <1>1, <1>3 DEF vars, Store!vars
<1>. QED BY <1>1, <1>2, <1>3, StepImplements

(* For any jobs, faults and number of processes: retention takes no        *)
(* outcome that was not consumed, whatever lies between the router's two   *)
(* commits.                                                                *)
THEOREM NoUnseenOutcomeIsDeleted == Spec => OnlyRoutedJobsArePurged
<1>. DEFINE Routed == \A j \in Jobs : Status(j) # "purged" /\ Status(j)' = "purged"
                        => Status(j) \in Store!Terminal /\ j \in consumed
<1>1. Init => IdInv /\ RoutedInv
  <2>1. Store!NoRow("absent") \in Row /\ Store!NoRow("absent").age = Store!NoTime
    BY DEF Row, Store!NoRow, Store!Statuses, Store!NoTime
  <2>2. Store!NoEvent \in Store!OutboxRow /\ ~Store!NoEvent.published
    BY DEF Store!NoEvent, Store!OutboxRow
  <2>. QED BY <2>1, <2>2 DEF Init, Store!Init, IdInv, RoutedInv, Shape
<1>2. IdInv /\ RoutedInv /\ [Next]_vars => RoutedInv' /\ [Routed]_vars
  BY RoutedStepHolds DEF RoutedStep
<1>. QED BY <1>1, <1>2, IdsKept, PTL DEF Spec, OnlyRoutedJobsArePurged

-----------------------------------------------------------------------------
(* A job not yet started stays so, and no other job becomes one, unless    *)
(* recovery requeues it and its agent is safe to retry.                    *)
Fresh(k) == Status(k) \in {"absent", "queued"}

NoneRefreshed ==
  Shape' /\ \A k \in Jobs : Fresh(k)' => Fresh(k) \/ RequestOf[k].target \in RetrySafe

LEMMA BecomesOther ==
  ASSUME NEW j \in Jobs, NEW to, Becomes(j, to), Fresh(j) \/ to \notin {"absent", "queued"}
  PROVE  NoneRefreshed
BY DEF Becomes, NoneRefreshed, Fresh, Status

LEMMA StoreStepRefreshesNone ==
  ASSUME Shape, Store!Next
  PROVE  NoneRefreshed
<1>. USE DEF Store!Terminal
<1>0. ASSUME NEW j \in Jobs, NEW expected, NEW outcome \in Store!Terminal,
             Store!Finish(j, expected, outcome)
      PROVE  NoneRefreshed
  BY <1>0, RecordEffect, BecomesOther DEF Store!Finish
<1>1. ASSUME NEW j \in Jobs, NEW w \in Workers, Store!WorkerStep(j, w)
      PROVE  NoneRefreshed
  <2>1. CASE Store!ClaimNext(j, w)
    BY <2>1, ClaimEffect, BecomesOther DEF Fresh
  <2>2. CASE Store!RenewLease(j, w)
    BY <2>2, RenewEffect, BecomesOther DEF Fresh
  <2>3. CASE \/ Store!FinishSuccess(j, w) \/ Store!FinishFailure(j, w)
             \/ Store!FinishTimedOut(j, w) \/ Store!FinishCancelled(j, w)
    BY <1>0, <2>3 DEF Store!FinishSuccess, Store!FinishFailure, Store!FinishTimedOut,
       Store!FinishCancelled, Store!FinishAs
  <2>. QED BY <1>1, <2>1, <2>2, <2>3 DEF Store!WorkerStep
<1>2. ASSUME NEW j \in Jobs, NEW s \in Sessions, Store!RequestCancel(j, s)
      PROVE  NoneRefreshed
  <2>1. CASE Store!Finish(j, "queued", "cancelled")
    BY <1>0, <2>1
  <2>2. CASE jobs' = [jobs EXCEPT ![j] = [@ EXCEPT !.status = "cancel_requested"]]
    BY <2>2, CancelEffect, BecomesOther
  <2>. QED BY <1>2, <2>1, <2>2 DEF Store!RequestCancel
<1>3. ASSUME NEW j \in Jobs, NEW b \in BOOLEAN, Store!RecoverExpired(j, b)
      PROVE  NoneRefreshed
  <2>1. CASE Store!Finish(j, "cancel_requested", "cancelled") \/ Store!Finish(j, "running", "failed")
    BY <1>0, <2>1
  <2>2. CASE /\ b
             /\ jobs' = [jobs EXCEPT ![j] = [@ EXCEPT !.status = "queued",
                                                      !.owner  = NoWorker,
                                                      !.left   = Store!NoTime]]
    <3>1. RequestOf[j].target \in RetrySafe
      BY <1>3, <2>2 DEF Store!RecoverExpired, Store!TargetOf
    <3>. QED BY <2>2, <3>1, RequeueEffect DEF Becomes, NoneRefreshed, Fresh, Status
  <2>. QED BY <1>3, <2>1, <2>2 DEF Store!RecoverExpired
<1>4. ASSUME NEW j \in Jobs, Store!CreateJob(j) PROVE NoneRefreshed
  BY <1>4, CreateEffect, BecomesOther DEF Fresh
<1>5. ASSUME NEW j \in Jobs, Store!ConsumeOnce(j) \/ Store!MarkOutboxPublished(j)
      PROVE  NoneRefreshed
  BY <1>5 DEF Store!ConsumeOnce, Store!MarkOutboxPublished, NoneRefreshed, Shape, Fresh, Status
<1>6. CASE Store!CleanupTerminal
  BY <1>6, CleanupEffect DEF NoneRefreshed, Fresh, Status
<1>7. CASE Store!Tick
  BY <1>7, TickEffect DEF NoneRefreshed, Fresh
<1>. QED BY <1>1, <1>2, <1>3, <1>4, <1>5, <1>6, <1>7 DEF Store!Next

-----------------------------------------------------------------------------
(* The inductive invariant behind NonRetrySafeRunsOnce: as long as such a  *)
(* job may still be claimed, it never was.                                 *)
OnceInv ==
  /\ Shape
  /\ attempts \in [Jobs -> Nat]
  /\ \A j \in Jobs : RequestOf[j].target \notin RetrySafe
                       => attempts[j] <= 1 /\ (Fresh(j) => attempts[j] = 0)

(* Only a claim counts an attempt.                                         *)
LEMMA OthersCountNone ==
  ASSUME [Next]_vars, \A j \in Jobs : ~Claim(j) /\ ~ClaimUnloadable(j)
  PROVE  attempts' = attempts
<1>. USE DEF process, store
<1>1. ASSUME NEW j \in Jobs, NEW n \in Attempts,
             TaskStep(j, n) \/ Heartbeat(j, n) \/ HeartbeatDies(j, n)
      PROVE  attempts' = attempts
  BY <1>1 DEF TaskStep, StartTask, CancelBeforeStart, ChildSucceeds, ChildFails, TimesOut,
     TaskCancelled, TaskDone, End, Heartbeat, HeartbeatDies
<1>2. ASSUME NEW j \in Jobs,
             Recover(j) \/ Submit(j) \/ SubagentCancel(j) \/ DeliverCancel(j) \/ Route(j)
      PROVE  attempts' = attempts
  BY <1>2 DEF Recover, Submit, SubagentCancel, DeliverCancel, Route
<1>3. CASE Start \/ Crash \/ Stop \/ Exit
  BY <1>3 DEF Start, Crash, Stop, Exit, Gone
<1>4. CASE FailUnloadable \/ Cleanup \/ Tick \/ Stall
  BY <1>4 DEF FailUnloadable, Cleanup, Tick, Stall, Quiet
<1>5. CASE UNCHANGED vars
  BY <1>5 DEF vars
<1>. QED BY <1>1, <1>2, <1>3, <1>4, <1>5 DEF Next

LEMMA OnceStep == IdInv /\ OnceInv /\ [Next]_vars => OnceInv'
<1>. SUFFICES ASSUME IdInv, OnceInv, [Next]_vars PROVE OnceInv'
  OBVIOUS
<1>1. ASSUME NEW j \in Jobs, Claim(j) \/ ClaimUnloadable(j) PROVE OnceInv'
  <2>1. worker \in Workers /\ Store!ClaimNext(j, worker)
    BY <1>1 DEF Claim, ClaimUnloadable, Scanning, IdInv
  <2>2. attempts' = [attempts EXCEPT ![j] = attempts[j] + 1]
    BY <1>1 DEF Claim, ClaimUnloadable
  <2>3. Status(j) = "queued" /\ Becomes(j, "running")
    BY <2>1, ClaimEffect DEF OnceInv
  <2>. QED BY <2>2, <2>3 DEF OnceInv, Becomes, Fresh, Status
<1>2. CASE \A j \in Jobs : ~Claim(j) /\ ~ClaimUnloadable(j)
  <2>1. attempts' = attempts
    BY <1>2, OthersCountNone
  <2>2. NoneRefreshed
    <3>1. [Store!Next]_(Store!vars)
      BY StepImplements
    <3>2. CASE UNCHANGED Store!vars
      BY <3>2 DEF Store!vars, NoneRefreshed, OnceInv, Shape, Fresh, Status
    <3>. QED BY <3>1, <3>2, StoreStepRefreshesNone DEF OnceInv
  <2>. QED BY <2>1, <2>2 DEF OnceInv, NoneRefreshed
<1>. QED BY <1>1, <1>2

(* A job whose agent does not declare retry_safe is started at most once,  *)
(* however often and however the process crashes, stalls, stops or loses a *)
(* heartbeat (design 14.3: no blind replay of side effects).               *)
THEOREM UnsafeJobsRunOnce == Spec => []NonRetrySafeRunsOnce
<1>1. Init => IdInv /\ OnceInv
  <2>1. Store!NoRow("absent") \in Row
    BY DEF Row, Store!NoRow, Store!Statuses, Store!NoTime
  <2>. QED BY <2>1 DEF Init, Store!Init, IdInv, OnceInv, Shape
<1>2. OnceInv => NonRetrySafeRunsOnce
  BY DEF OnceInv, NonRetrySafeRunsOnce
<1>. QED BY <1>1, <1>2, IdsKept, OnceStep, PTL DEF Spec
-----------------------------------------------------------------------------
(* The inductive invariant behind LiveTaskHoldsLease, CancelReachesTask    *)
(* and EveryRetryHasAFault, job by job.                                    *)
Startable == {"absent", "queued", "running"}     \* it may come to run again

Books ==
  /\ task \in [Jobs -> [Attempts -> TaskRow]]
  /\ attempts \in [Jobs -> Nat] /\ registry \in [Jobs -> 0 .. MaxAttempts]
  /\ faults \in [count : Nat, late : BOOLEAN]

(* Only finished jobs have an age, a cancel event is only on the bus for a *)
(* job that never runs again, and only started tasks beat.                 *)
HistoryAt(j) ==
  /\ Status(j) \in Startable \cup {"cancel_requested"} => jobs[j].age = Store!NoTime
  /\ j \in cancels => Status(j) \notin Startable
  /\ \A n \in Attempts : task[j][n].beating => task[j][n].pc = "running"

(* A live task is the latest attempt and the one in _tasks, it beats, its  *)
(* lease is valid, and it knows of a cancel request or its event is on the *)
(* way.  It is the only task of the job, and when it is over without an    *)
(* outcome, no other follows.                                              *)
LiveFits(j, n) ==
  /\ Status(j) \in Store!Leased /\ jobs[j].owner = worker /\ worker # NoWorker
  /\ jobs[j].left > 0 /\ attempts[j] = n /\ registry[j] = n /\ doomed # j
  /\ task[j][n].pc = "running" => task[j][n].beating
  /\ Status(j) = "cancel_requested" => j \in cancels \/ task[j][n].cancelled
  /\ stopping => task[j][n].cancelled
  /\ task[j][n].cancelled => stopping \/ Status(j) \notin Startable

LeaseAt(j) ==
  ~faults.late =>
    /\ \A n \in Attempts : Live(j, n) => LiveFits(j, n)
    /\ \A n \in Attempts :
         task[j][n].pc = "ending" => stopping \/ Status(j) \notin Startable
    /\ \A n, m \in Attempts : task[j][n].pc # "none" /\ task[j][m].pc # "none" => n = m

(* An attempt beyond the faults so far is kept: nothing but another fault  *)
(* can take the job from it and put it back into the queue.                *)
Kept(j) ==
  /\ jobs[j].owner = worker /\ worker # NoWorker
  /\ \/ doomed = j
     \/ /\ jobs[j].left > 0
        /\ \E n \in Attempts : /\ task[j][n].pc = "created" \/ task[j][n].beating
                               /\ ~task[j][n].cancelled

RetryAt(j) ==
  /\ attempts[j] <= 1 + faults.count
  /\ attempts[j] > faults.count =>
       /\ ~stopping
       /\ Status(j) \notin {"absent", "queued"}
       /\ Status(j) = "running" => Kept(j)

JobInv(j) == HistoryAt(j) /\ LeaseAt(j) /\ RetryAt(j)

WorkerInv == IdInv /\ Shape /\ Books /\ \A j \in Jobs : JobInv(j)

(* What a step leaves alone, it need not be asked about.                   *)
Untouched(j) ==
  /\ jobs'[j] = jobs[j] /\ attempts'[j] = attempts[j]
  /\ registry'[j] = registry[j] /\ task'[j] = task[j]
  /\ j \in cancels' <=> j \in cancels
  /\ doomed' = j <=> doomed = j
  /\ worker' = worker /\ stopping' = stopping /\ faults' = faults

LEMMA UntouchedStays ==
  ASSUME NEW j \in Jobs, JobInv(j), Untouched(j)
  PROVE  JobInv(j)'
<1>. USE DEF Untouched, Status
<1>1. HistoryAt(j)'
  BY DEF JobInv, HistoryAt
<1>2. LeaseAt(j)'
  BY DEF JobInv, LeaseAt, Live, LiveFits
<1>3. RetryAt(j)'
  BY DEF JobInv, RetryAt, Kept
<1>. QED BY <1>1, <1>2, <1>3 DEF JobInv

(* The end of a task: its outcome is stored, or nothing is since the job   *)
(* is being cancelled, the task was, or the lease is another's.            *)
LEMMA EndOfTask ==
  ASSUME WorkerInv, Serving, NEW j \in Jobs, NEW n \in Attempts, Live(j, n), End(j, n),
         \/ \E outcome \in Store!Terminal : Store!Record(j, outcome)
         \/ /\ UNCHANGED store
            /\ Status(j) # "running" \/ task[j][n].cancelled \/ jobs[j].owner # worker
  PROVE  Shape' /\ Books' /\ \A k \in Jobs : JobInv(k)'
<1>. USE DEF store, process
<1>1. /\ task' = [task EXCEPT ![j][n] = Ended]
      /\ UNCHANGED <<worker, stopping, attempts, doomed, registry, cancels, faults>>
  BY DEF End
<1>2. /\ task \in [Jobs -> [Attempts -> TaskRow]]
      /\ task'[j] \in [Attempts -> TaskRow] /\ task'[j][n] = Ended
      /\ \A m \in Attempts \ {n} : task'[j][m] = task[j][m]
      /\ \A k \in Jobs \ {j} : task'[k] = task[k]
  BY <1>1 DEF WorkerInv, Books, TaskRow, Ended
<1>3. Books'
  BY <1>1, <1>2 DEF WorkerInv, Books, TaskRow, Ended
<1>4. /\ Shape' /\ \A k \in Jobs \ {j} : jobs'[k] = jobs[k]
      /\ \/ Status(j)' \in Store!Terminal
         \/ /\ jobs'[j] = jobs[j]
            /\ Status(j) # "running" \/ task[j][n].cancelled \/ jobs[j].owner # worker
  BY RecordEffect DEF Becomes, WorkerInv, Shape, Status
<1>5. \A k \in Jobs \ {j} : JobInv(k)'
  BY <1>1, <1>2, <1>4, UntouchedStays DEF WorkerInv, Untouched
<1>6. JobInv(j)
  BY DEF WorkerInv
<1>7. HistoryAt(j)'
  BY <1>1, <1>2, <1>4, <1>6 DEF JobInv, HistoryAt, Ended, Startable, Store!Terminal, Status
<1>8. LeaseAt(j)'
  <2>. SUFFICES ASSUME ~faults.late
                PROVE  /\ \A m \in Attempts : (Live(j, m) => LiveFits(j, m))'
                       /\ \A m \in Attempts :
                            task'[j][m].pc = "ending" => stopping' \/ Status(j)' \notin Startable
                       /\ \A m, l \in Attempts :
                            task'[j][m].pc # "none" /\ task'[j][l].pc # "none" => m = l
    BY <1>1 DEF LeaseAt
  <2>1. LiveFits(j, n) /\ \A m \in Attempts \ {n} : task[j][m].pc = "none"
    BY <1>6 DEF JobInv, LeaseAt, Live
  <2>2. stopping \/ Status(j)' \notin Startable
    BY <1>1, <1>4, <2>1 DEF LiveFits, Startable, Store!Leased, Store!Terminal, Status
  <2>. QED BY <1>1, <1>2, <2>1, <2>2 DEF Live, Ended
<1>9. RetryAt(j)'
  <2>1. CASE Status(j)' \in Store!Terminal
    BY <1>1, <1>4, <1>6, <2>1 DEF JobInv, RetryAt, Store!Terminal
  <2>2. CASE jobs'[j] = jobs[j]
    <3>1. ASSUME attempts[j] > faults.count, Status(j) = "running" PROVE Kept(j)'
      <4>1. PICK m \in Attempts : /\ task[j][m].pc = "created" \/ task[j][m].beating
                                 /\ ~task[j][m].cancelled
        BY <1>6, <3>1, WorkerAssumption DEF JobInv, RetryAt, Kept, Serving
      <4>2. Kept(j) /\ jobs[j].left > 0
        BY <1>6, <3>1, WorkerAssumption DEF JobInv, RetryAt, Kept, Serving
      <4>3. m # n
        BY <1>4, <2>2, <3>1, <4>1, <4>2 DEF Kept, Status, Store!Terminal
      <4>. QED BY <1>1, <1>2, <2>2, <4>1, <4>2, <4>3 DEF Kept
    <3>. QED BY <1>1, <1>6, <2>2, <3>1 DEF JobInv, RetryAt, Status
  <2>. QED BY <1>4, <2>1, <2>2
<1>. QED BY <1>3, <1>4, <1>5, <1>7, <1>8, <1>9 DEF JobInv

LEMMA FaultForgives ==
  ASSUME NEW j \in Jobs, JobInv(j), Books, attempts' = attempts,
         faults'.count = faults.count + 1
  PROVE  RetryAt(j)'
BY DEF JobInv, RetryAt, Books

LEMMA TaskEnds ==
  ASSUME WorkerInv, NEW j \in Jobs, NEW n \in Attempts,
         \/ CancelBeforeStart(j, n) \/ ChildSucceeds(j, n) \/ ChildFails(j, n)
         \/ TimesOut(j, n) \/ TaskCancelled(j, n)
         \/ (StartTask(j, n) /\ Status(j) # "running")
  PROVE  Shape' /\ Books' /\ \A k \in Jobs : JobInv(k)'
<1>1. Serving /\ Live(j, n) /\ End(j, n)
  BY DEF CancelBeforeStart, ChildSucceeds, ChildFails, TimesOut, TaskCancelled, StartTask,
     Live, Running
<1>. DEFINE Over == \/ \E outcome \in Store!Terminal : Store!Record(j, outcome)
                    \/ /\ UNCHANGED store
                       /\ Status(j) # "running" \/ task[j][n].cancelled \/ jobs[j].owner # worker
<1>2. Over
  <2>1. CASE CancelBeforeStart(j, n)
    BY <2>1 DEF CancelBeforeStart
  <2>6. CASE StartTask(j, n) /\ Status(j) # "running"
    BY <2>6 DEF StartTask
  <2>2. CASE ChildSucceeds(j, n)
    BY <2>2 DEF ChildSucceeds, Owns, Store!FinishSuccess, Store!FinishCancelled,
       Store!FinishAs, Store!Finish, Store!Terminal, Store!Status, Status
  <2>4. CASE ChildFails(j, n)
    BY <2>4 DEF ChildFails, Owns, Store!FinishFailure, Store!FinishAs, Store!Finish,
       Store!Terminal, Store!Status, Status
  <2>5. CASE TimesOut(j, n)
    BY <2>5 DEF TimesOut, Owns, Store!FinishTimedOut, Store!FinishAs, Store!Finish,
       Store!Terminal, Store!Status, Status
  <2>3. CASE TaskCancelled(j, n)
    <3>1. task[j][n].cancelled /\ (Store!FinishCancelled(j, worker) \/ UNCHANGED store)
      BY <2>3 DEF TaskCancelled
    <3>2. CASE Store!FinishCancelled(j, worker)
      BY <3>2 DEF Store!FinishCancelled, Store!FinishAs, Store!Finish, Store!Terminal
    <3>. QED BY <3>1, <3>2
  <2>. HIDE DEF Over
  <2>. QED BY <2>1, <2>2, <2>3, <2>4, <2>5, <2>6
<1>. QED BY <1>1, <1>2, EndOfTask

LEMMA TaskStarts ==
  ASSUME WorkerInv, NEW j \in Jobs, NEW n \in Attempts,
         StartTask(j, n), Status(j) = "running"
  PROVE  Shape' /\ Books' /\ \A k \in Jobs : JobInv(k)'
<1>. USE DEF store, process
<1>. DEFINE t == [task[j][n] EXCEPT !.pc = "running", !.beating = TRUE]
<1>1. /\ task' = [task EXCEPT ![j][n] = t] /\ task[j][n].pc = "created"
      /\ UNCHANGED <<jobs, worker, stopping, attempts, doomed, registry, cancels, faults>>
  BY DEF StartTask
<1>2. task[j][n] \in TaskRow
  BY DEF WorkerInv, Books
<1>3. t \in TaskRow /\ t.pc = "running" /\ t.beating /\ t.cancelled = task[j][n].cancelled
  BY <1>2 DEF TaskRow
<1>. HIDE DEF t
<1>4. /\ task'[j] \in [Attempts -> TaskRow] /\ task'[j][n] = t
      /\ \A m \in Attempts \ {n} : task'[j][m] = task[j][m]
      /\ \A k \in Jobs \ {j} : task'[k] = task[k]
  BY <1>1, <1>3 DEF WorkerInv, Books
<1>5. Books' /\ Shape'
  BY <1>1, <1>3 DEF WorkerInv, Books, Shape
<1>6. \A k \in Jobs \ {j} : JobInv(k)'
  BY <1>1, <1>4, UntouchedStays DEF WorkerInv, Untouched
<1>7. JobInv(j)
  BY DEF WorkerInv
<1>8. HistoryAt(j)'
  BY <1>1, <1>3, <1>4, <1>7 DEF JobInv, HistoryAt, Status
<1>9. LeaseAt(j)'
  BY <1>1, <1>3, <1>4, <1>7 DEF JobInv, LeaseAt, LiveFits, Live, Status
<1>10. RetryAt(j)'
  BY <1>1, <1>3, <1>4, <1>7 DEF JobInv, RetryAt, Kept, Status
<1>. QED BY <1>5, <1>6, <1>8, <1>9, <1>10 DEF JobInv

LEMMA TaskIsDone ==
  ASSUME WorkerInv, NEW j \in Jobs, NEW n \in Attempts, TaskDone(j, n)
  PROVE  Shape' /\ Books' /\ \A k \in Jobs : JobInv(k)'
<1>. USE DEF store, process
<1>1. /\ task' = [task EXCEPT ![j][n] = NoTask] /\ task[j][n].pc = "ending"
      /\ registry' = [registry EXCEPT ![j] = 0]
      /\ UNCHANGED <<jobs, worker, stopping, attempts, doomed, cancels, faults>>
  BY DEF TaskDone
<1>4. /\ task'[j] \in [Attempts -> TaskRow] /\ task'[j][n] = NoTask
      /\ \A m \in Attempts \ {n} : task'[j][m] = task[j][m]
      /\ \A k \in Jobs \ {j} : task'[k] = task[k] /\ registry'[k] = registry[k]
  BY <1>1 DEF WorkerInv, Books, NoTask, TaskRow
<1>5. Books' /\ Shape'
  BY <1>1, WorkerAssumption DEF WorkerInv, Books, Shape, NoTask, TaskRow
<1>6. \A k \in Jobs \ {j} : JobInv(k)'
  BY <1>1, <1>4, UntouchedStays DEF WorkerInv, Untouched
<1>7. JobInv(j)
  BY DEF WorkerInv
<1>8. HistoryAt(j)'
  BY <1>1, <1>4, <1>7 DEF JobInv, HistoryAt, Status, NoTask
<1>9. LeaseAt(j)'
  BY <1>1, <1>4, <1>7 DEF JobInv, LeaseAt, LiveFits, Live, Status, NoTask
<1>10. RetryAt(j)'
  <2>1. ~task[j][n].beating /\ task[j][n].pc # "created"
    BY <1>1, <1>7 DEF JobInv, HistoryAt
  <2>. QED BY <1>1, <1>4, <1>7, <2>1 DEF JobInv, RetryAt, Kept, Status
<1>. QED BY <1>5, <1>6, <1>8, <1>9, <1>10 DEF JobInv

(* A heartbeat that stops on its own, or dies, is the last of its task.    *)
LEMMA BeatOver ==
  ASSUME WorkerInv, NEW j \in Jobs, NEW n \in Attempts, task[j][n].pc = "running",
         task' = [task EXCEPT ![j][n].beating = FALSE]
  PROVE  \E t \in TaskRow : /\ ~t.beating /\ t.pc = "running"
                             /\ t.cancelled = task[j][n].cancelled
                             /\ task' = [task EXCEPT ![j][n] = t]
<1>. DEFINE t == [task[j][n] EXCEPT !.beating = FALSE]
<1>1. task[j][n] \in TaskRow
  BY DEF WorkerInv, Books
<1>2. t \in TaskRow /\ ~t.beating /\ t.pc = "running" /\ t.cancelled = task[j][n].cancelled
  BY <1>1 DEF TaskRow
<1>3. task' = [task EXCEPT ![j][n] = t]
  OBVIOUS
<1>. QED BY <1>2, <1>3

LEMMA HeartbeatStops ==
  ASSUME WorkerInv, NEW j \in Jobs, NEW n \in Attempts, NEW t \in TaskRow,
         ~t.beating, t.pc = "running", t.cancelled = task[j][n].cancelled,
         task[j][n].pc = "running", task' = [task EXCEPT ![j][n] = t],
         UNCHANGED <<store, process, attempts, doomed, registry, cancels>>,
         \/ /\ faults' = faults /\ Serving
            /\ ~(jobs[j].owner = worker /\ Status(j) \in Store!Leased)
         \/ Fault("heartbeat")
  PROVE  Shape' /\ Books' /\ \A k \in Jobs : JobInv(k)'
<1>. USE DEF store, process
<1>b. task \in [Jobs -> [Attempts -> TaskRow]]
  BY DEF WorkerInv, Books
<1>4. /\ task'[j] \in [Attempts -> TaskRow] /\ task'[j][n] = t
      /\ \A m \in Attempts \ {n} : task'[j][m] = task[j][m]
      /\ \A k \in Jobs \ {j} : task'[k] = task[k]
  BY <1>b
<1>a. faults' \in [count : Nat, late : BOOLEAN]
  <2>1. faults \in [count : Nat, late : BOOLEAN]
    BY DEF WorkerInv, Books
  <2>2. CASE Fault("heartbeat")
    BY <2>1, <2>2 DEF Fault
  <2>. QED BY <2>1, <2>2
<1>c. task' \in [Jobs -> [Attempts -> TaskRow]]
  BY <1>b
<1>5. Books' /\ Shape'
  BY <1>c, <1>a DEF WorkerInv, Books, Shape
<1>6. \A k \in Jobs : JobInv(k) /\ HistoryAt(k)'
  BY <1>4 DEF WorkerInv, JobInv, HistoryAt, Status
<1>7. CASE Fault("heartbeat")
  <2>1. \A k \in Jobs : RetryAt(k)'
    BY <1>6, <1>7, FaultForgives DEF WorkerInv, Fault
  <2>2. faults'.late
    BY <1>7 DEF Fault
  <2>. QED BY <1>5, <1>6, <2>1, <2>2 DEF JobInv, LeaseAt
<1>8. CASE /\ faults' = faults /\ Serving
           /\ ~(jobs[j].owner = worker /\ Status(j) \in Store!Leased)
  <2>1. \A k \in Jobs \ {j} : JobInv(k)'
    BY <1>4, <1>6, <1>8, UntouchedStays DEF Untouched
  <2>2. LeaseAt(j)'
    BY <1>4, <1>6, <1>8 DEF JobInv, LeaseAt, LiveFits, Live, Status
  <2>3. RetryAt(j)'
    BY <1>6, <1>8 DEF JobInv, RetryAt, Kept, Status, Store!Leased
  <2>. QED BY <1>5, <1>6, <2>1, <2>2, <2>3 DEF JobInv
<1>. QED BY <1>7, <1>8

LEMMA HeartbeatRenews ==
  ASSUME WorkerInv, NEW j \in Jobs, Store!RenewLease(j, worker),
         UNCHANGED <<process, attempts, doomed, task, registry, cancels, faults>>
  PROVE  Shape' /\ Books' /\ \A k \in Jobs : JobInv(k)'
<1>. USE DEF process
<1>1. /\ Shape' /\ Status(j)' = Status(j) /\ jobs'[j].owner = jobs[j].owner
      /\ jobs'[j].left = LeaseTime /\ jobs'[j].age = jobs[j].age
      /\ \A k \in Jobs \ {j} : jobs'[k] = jobs[k]
  BY RenewEffect DEF WorkerInv, Becomes
<1>2. LeaseTime > 0
  BY WorkerAssumption
<1>3. Books'
  BY DEF WorkerInv, Books
<1>4. \A k \in Jobs \ {j} : JobInv(k)'
  BY <1>1, UntouchedStays DEF WorkerInv, Untouched
<1>5. JobInv(j)'
  BY <1>1, <1>2 DEF WorkerInv, JobInv, HistoryAt, LeaseAt, LiveFits, Live, RetryAt, Kept
<1>. QED BY <1>1, <1>3, <1>4, <1>5

LEMMA TaskStepKeeps ==
  ASSUME WorkerInv, NEW j \in Jobs, NEW n \in Attempts,
         TaskStep(j, n) \/ Heartbeat(j, n) \/ HeartbeatDies(j, n)
  PROVE  Shape' /\ Books' /\ \A k \in Jobs : JobInv(k)'
<1>1. CASE TaskStep(j, n)
  BY <1>1, TaskStarts, TaskEnds, TaskIsDone DEF TaskStep
<1>2. CASE Heartbeat(j, n)
  BY <1>2, HeartbeatRenews, BeatOver, HeartbeatStops DEF Heartbeat, Owns, Store!Leased
<1>3. CASE HeartbeatDies(j, n)
  BY <1>3, BeatOver, HeartbeatStops DEF HeartbeatDies
<1>. QED BY <1>1, <1>2, <1>3

(* What the loop and the callers do to one job.                            *)
LEMMA ClaimKeeps ==
  ASSUME WorkerInv, NEW j \in Jobs, Claim(j)
  PROVE  Shape' /\ Books' /\ \A k \in Jobs : JobInv(k)'
<1>. USE DEF process
<1>. DEFINE t == [NoTask EXCEPT !.pc = "created"]
<1>0. PICK n \in Attempts :
      /\ n = attempts[j] + 1
      /\ Scanning /\ worker \in Workers /\ Store!ClaimNext(j, worker)
      /\ attempts' = [attempts EXCEPT ![j] = n]
      /\ task' = [task EXCEPT ![j][n] = t]
      /\ registry' = [registry EXCEPT ![j] = n]
      /\ UNCHANGED <<worker, stopping, doomed, cancels, faults>>
  BY DEF Claim, Scanning, WorkerInv, IdInv
<1>1. t \in TaskRow /\ t.pc = "created" /\ ~t.beating /\ ~t.cancelled
  BY DEF NoTask, TaskRow
<1>2. n \in 1 .. MaxAttempts /\ n \in Nat
  BY DEF Attempts
<1>. HIDE DEF t
<1>3. /\ Shape' /\ Status(j) = "queued" /\ Status(j)' = "running"
      /\ jobs'[j].owner = worker /\ jobs'[j].left > 0 /\ jobs'[j].age = jobs[j].age
      /\ \A k \in Jobs \ {j} : jobs'[k] = jobs[k]
  BY <1>0, ClaimEffect, WorkerAssumption DEF WorkerInv, Becomes
<1>4. /\ task'[j] \in [Attempts -> TaskRow] /\ task'[j][n] = t
      /\ \A m \in Attempts \ {n} : task'[j][m] = task[j][m]
      /\ attempts'[j] = n /\ registry'[j] = n
      /\ \A k \in Jobs \ {j} : /\ task'[k] = task[k] /\ registry'[k] = registry[k]
                               /\ attempts'[k] = attempts[k]
  BY <1>0, <1>1 DEF WorkerInv, Books
<1>5. Books'
  BY <1>0, <1>1, <1>2 DEF WorkerInv, Books
<1>6. \A k \in Jobs \ {j} : JobInv(k)'
  BY <1>0, <1>3, <1>4, UntouchedStays DEF WorkerInv, Untouched
<1>7. JobInv(j)
  BY DEF WorkerInv
<1>8. HistoryAt(j)'
  BY <1>0, <1>1, <1>3, <1>4, <1>7 DEF JobInv, HistoryAt, Startable
<1>9. LeaseAt(j)'
  <2>. SUFFICES ASSUME ~faults.late PROVE LeaseAt(j)'
    BY <1>0 DEF LeaseAt
  <2>1. \A m \in Attempts : task[j][m].pc = "none"
    <3>1. \A m \in Attempts : ~Live(j, m) /\ task[j][m].pc # "ending"
      BY <1>0, <1>3, <1>7 DEF JobInv, LeaseAt, LiveFits, Scanning, Startable, Store!Leased
    <3>2. \A m \in Attempts : task[j][m].pc \in {"none", "created", "running", "ending"}
      BY DEF WorkerInv, Books, TaskRow
    <3>. QED BY <3>1, <3>2 DEF Live
  <2>2. LiveFits(j, n)'
    BY <1>0, <1>1, <1>3, <1>4, WorkerAssumption DEF LiveFits, Scanning, Store!Leased
  <2>3. \A m \in Attempts : task'[j][m].pc # "none" => m = n
    BY <1>4, <2>1
  <2>. QED BY <1>1, <1>4, <2>2, <2>3 DEF LeaseAt, Live
<1>10. RetryAt(j)'
  <2>1. attempts[j] <= faults.count
    BY <1>3, <1>7 DEF JobInv, RetryAt, WorkerInv, Books
  <2>2. Kept(j)'
    BY <1>0, <1>1, <1>3, <1>4, WorkerAssumption DEF Kept, Scanning
  <2>. QED BY <1>0, <1>2, <1>3, <1>4, <2>1, <2>2 DEF RetryAt, Scanning, WorkerInv, Books
<1>. QED BY <1>3, <1>5, <1>6, <1>8, <1>9, <1>10 DEF JobInv

LEMMA ClaimUnloadableKeeps ==
  ASSUME WorkerInv, NEW j \in Jobs, ClaimUnloadable(j)
  PROVE  Shape' /\ Books' /\ \A k \in Jobs : JobInv(k)'
<1>. USE DEF process
<1>0. /\ Scanning /\ worker \in Workers /\ Store!ClaimNext(j, worker)
      /\ attempts' = [attempts EXCEPT ![j] = attempts[j] + 1] /\ doomed' = j
      /\ UNCHANGED <<worker, stopping, task, registry, cancels, faults>>
  BY DEF ClaimUnloadable, Scanning, WorkerInv, IdInv
<1>1. /\ Shape' /\ Status(j) = "queued" /\ Status(j)' = "running"
      /\ jobs'[j].owner = worker /\ jobs'[j].age = jobs[j].age
      /\ \A k \in Jobs \ {j} : jobs'[k] = jobs[k]
  BY <1>0, ClaimEffect DEF WorkerInv, Becomes
<1>2. attempts'[j] = attempts[j] + 1 /\ \A k \in Jobs \ {j} : attempts'[k] = attempts[k]
  BY <1>0 DEF WorkerInv, Books
<1>3. Books'
  BY <1>0 DEF WorkerInv, Books
<1>4. \A k \in Jobs \ {j} : JobInv(k)'
  BY <1>0, <1>1, <1>2, WorkerAssumption, UntouchedStays DEF WorkerInv, Untouched, Scanning
<1>5. JobInv(j)
  BY DEF WorkerInv
<1>6. HistoryAt(j)'
  BY <1>0, <1>1, <1>5 DEF JobInv, HistoryAt, Startable
<1>7. LeaseAt(j)'
  BY <1>0, <1>1, <1>5 DEF JobInv, LeaseAt, LiveFits, Live, Scanning, Startable, Store!Leased
<1>8. RetryAt(j)'
  <2>1. attempts[j] <= faults.count
    BY <1>1, <1>5 DEF JobInv, RetryAt, WorkerInv, Books
  <2>2. Kept(j)'
    BY <1>0, <1>1, WorkerAssumption DEF Kept, Scanning
  <2>. QED BY <1>0, <1>1, <1>2, <2>1, <2>2 DEF RetryAt, Scanning, WorkerInv, Books
<1>. QED BY <1>1, <1>3, <1>4, <1>6, <1>7, <1>8 DEF JobInv

(* A job concluded outside its task: no task of it is live.                *)
LEMMA ConcludedElsewhere ==
  ASSUME WorkerInv, NEW j \in Jobs, NEW outcome \in Store!Terminal, Store!Record(j, outcome),
         ~faults.late => \A n \in Attempts : ~Live(j, n),
         UNCHANGED <<process, attempts, task, registry, cancels, faults>>,
         doomed' = doomed \/ (doomed = j /\ doomed' = NoJob)
  PROVE  Shape' /\ Books' /\ \A k \in Jobs : JobInv(k)'
<1>. USE DEF process
<1>1. Shape' /\ Status(j)' \in Store!Terminal /\ \A k \in Jobs \ {j} : jobs'[k] = jobs[k]
  BY RecordEffect DEF WorkerInv, Becomes
<1>2. Books'
  BY DEF WorkerInv, Books
<1>3. \A k \in Jobs \ {j} : JobInv(k)'
  BY <1>1, WorkerAssumption, UntouchedStays DEF WorkerInv, Untouched
<1>4. JobInv(j)
  BY DEF WorkerInv
<1>5. HistoryAt(j)'
  BY <1>1, <1>4 DEF JobInv, HistoryAt, Startable, Store!Terminal
<1>6. LeaseAt(j)'
  BY <1>1, <1>4 DEF JobInv, LeaseAt, Live, Startable, Store!Terminal
<1>7. RetryAt(j)'
  BY <1>1, <1>4 DEF JobInv, RetryAt, Store!Terminal
<1>. QED BY <1>1, <1>2, <1>3, <1>5, <1>6, <1>7 DEF JobInv

LEMMA RecoverKeeps ==
  ASSUME WorkerInv, NEW j \in Jobs, Recover(j)
  PROVE  Shape' /\ Books' /\ \A k \in Jobs : JobInv(k)'
<1>. USE DEF process
<1>1. /\ Scanning /\ UNCHANGED <<worker, stopping, past, attempts, doomed, task, registry, cancels, faults>>
      /\ Status(j) \in Store!Leased /\ jobs[j].left = 0
      /\ \/ Store!Record(j, "cancelled") \/ Store!Record(j, "failed")
         \/ /\ Status(j) = "running"
            /\ jobs' = [jobs EXCEPT ![j] = [@ EXCEPT !.status = "queued", !.owner = NoWorker,
                                                     !.left = Store!NoTime]]
  BY DEF Recover, Store!RecoverExpired, Store!Expired, Store!Finish, Store!Status, Status
<1>2. JobInv(j)
  BY DEF WorkerInv
<1>3. ~faults.late => \A n \in Attempts : ~Live(j, n)
  BY <1>1, <1>2 DEF JobInv, LeaseAt, LiveFits
<1>4. CASE Store!Record(j, "cancelled") \/ Store!Record(j, "failed")
  <2>1. PICK outcome \in Store!Terminal : Store!Record(j, outcome)
    BY <1>4 DEF Store!Terminal
  <2>2. UNCHANGED <<process, attempts, task, registry, cancels, faults>> /\ doomed' = doomed
    BY <1>1
  <2>. QED BY <1>3, <2>1, <2>2, ConcludedElsewhere
<1>5. CASE /\ Status(j) = "running"
           /\ jobs' = [jobs EXCEPT ![j] = [@ EXCEPT !.status = "queued", !.owner = NoWorker,
                                                    !.left = Store!NoTime]]
  <2>1. /\ Shape' /\ Status(j)' = "queued" /\ jobs'[j].age = jobs[j].age
        /\ \A k \in Jobs \ {j} : jobs'[k] = jobs[k]
    BY <1>5, RequeueEffect DEF WorkerInv, Becomes
  <2>2. Books'
    BY <1>1 DEF WorkerInv, Books
  <2>3. \A k \in Jobs \ {j} : JobInv(k)'
    BY <1>1, <2>1, UntouchedStays DEF WorkerInv, Untouched
  <2>4. HistoryAt(j)'
    BY <1>1, <1>2, <1>5, <2>1 DEF JobInv, HistoryAt, Startable
  <2>5. LeaseAt(j)'
    BY <1>1, <1>2, <1>3, <1>5, <2>1 DEF JobInv, LeaseAt, Live, Scanning, Startable
  <2>6. attempts[j] <= faults.count
    <3>1. ~Kept(j)
      BY <1>1, WorkerAssumption DEF Kept, Scanning
    <3>. QED BY <1>2, <1>5, <3>1 DEF JobInv, RetryAt, WorkerInv, Books
  <2>7. RetryAt(j)'
    BY <1>1, <2>6 DEF RetryAt, WorkerInv, Books
  <2>. QED BY <2>1, <2>2, <2>3, <2>4, <2>5, <2>7 DEF JobInv
<1>. QED BY <1>1, <1>4, <1>5

LEMMA SubmitKeeps ==
  ASSUME WorkerInv, NEW j \in Jobs, Submit(j)
  PROVE  Shape' /\ Books' /\ \A k \in Jobs : JobInv(k)'
<1>. USE DEF process
<1>1. UNCHANGED <<worker, stopping, attempts, doomed, task, registry, cancels, faults>>
  BY DEF Submit
<1>2. /\ Shape' /\ Status(j) = "absent" /\ Status(j)' = "queued"
      /\ jobs'[j].age = Store!NoTime /\ \A k \in Jobs \ {j} : jobs'[k] = jobs[k]
  BY CreateEffect DEF Submit, WorkerInv, Becomes
<1>3. Books'
  BY <1>1 DEF WorkerInv, Books
<1>4. \A k \in Jobs \ {j} : JobInv(k)'
  BY <1>1, <1>2, UntouchedStays DEF WorkerInv, Untouched
<1>5. JobInv(j)
  BY DEF WorkerInv
<1>6. JobInv(j)'
  BY <1>1, <1>2, <1>5 DEF JobInv, HistoryAt, LeaseAt, LiveFits, Live, RetryAt, Startable,
     Store!Leased
<1>. QED BY <1>2, <1>3, <1>4, <1>6

LEMMA SubagentCancelKeeps ==
  ASSUME WorkerInv, NEW j \in Jobs, SubagentCancel(j)
  PROVE  Shape' /\ Books' /\ \A k \in Jobs : JobInv(k)'
<1>. USE DEF process
<1>1. UNCHANGED <<worker, stopping, attempts, doomed, task, registry, faults>>
  BY DEF SubagentCancel
<1>2. /\ Shape' /\ \A k \in Jobs \ {j} : jobs'[k] = jobs[k]
      /\ \/ /\ Status(j) \in {"running", "cancel_requested"} /\ Status(j)' = "cancel_requested"
            /\ jobs'[j].owner = jobs[j].owner /\ jobs'[j].left = jobs[j].left
            /\ jobs'[j].age = jobs[j].age
         \/ Status(j) = "queued" /\ Status(j)' = "cancelled"
  <2>1. CASE Store!Record(j, "cancelled") /\ Status(j) = "queued"
    BY <2>1, RecordEffect DEF WorkerInv, Becomes, Store!Terminal
  <2>2. CASE /\ Status(j) = "running"
             /\ jobs' = [jobs EXCEPT ![j] = [@ EXCEPT !.status = "cancel_requested"]]
    BY <2>2, CancelEffect DEF WorkerInv, Becomes
  <2>3. CASE Status(j) = "cancel_requested" /\ UNCHANGED store
    BY <2>3 DEF store, WorkerInv, Shape, Status
  <2>. QED BY <2>1, <2>2, <2>3 DEF SubagentCancel, Store!RequestCancel, Store!Finish,
           Store!Status, Status
<1>3. cancels' = IF Status(j)' = "cancel_requested" /\ ~stopping
                 THEN cancels \cup {j} ELSE cancels
  BY DEF SubagentCancel
<1>4. Books'
  BY <1>1 DEF WorkerInv, Books
<1>5. \A k \in Jobs \ {j} : JobInv(k)'
  BY <1>1, <1>2, <1>3, UntouchedStays DEF WorkerInv, Untouched
<1>6. JobInv(j)
  BY DEF WorkerInv
<1>7. HistoryAt(j)'
  BY <1>1, <1>2, <1>3, <1>6 DEF JobInv, HistoryAt, Startable
<1>8. LeaseAt(j)'
  BY <1>1, <1>2, <1>3, <1>6 DEF JobInv, LeaseAt, LiveFits, Live, Startable, Store!Leased
<1>9. RetryAt(j)'
  BY <1>1, <1>2, <1>6 DEF JobInv, RetryAt
<1>. QED BY <1>2, <1>4, <1>5, <1>7, <1>8, <1>9 DEF JobInv

LEMMA DeliverCancelKeeps ==
  ASSUME WorkerInv, NEW j \in Jobs, DeliverCancel(j)
  PROVE  Shape' /\ Books' /\ \A k \in Jobs : JobInv(k)'
<1>. USE DEF process, store
<1>. DEFINE n == registry[j]
            t == [task[j][n] EXCEPT !.cancelled = TRUE]
<1>1. /\ UNCHANGED <<jobs, worker, stopping, attempts, doomed, registry, faults>>
      /\ Scanning /\ j \in cancels /\ cancels' = cancels \ {j}
  BY DEF DeliverCancel
<1>2. JobInv(j) /\ Shape' /\ registry \in [Jobs -> 0 .. MaxAttempts]
      /\ task \in [Jobs -> [Attempts -> TaskRow]]
  BY <1>1 DEF WorkerInv, Shape, Books
<1>3. CASE ~(n # 0 /\ Live(j, n))
  <2>1. task' = task
    BY <1>3 DEF DeliverCancel
  <2>2. \A k \in Jobs \ {j} : JobInv(k)'
    BY <1>1, <2>1, UntouchedStays DEF WorkerInv, Untouched
  <2>3. ~faults.late => \A m \in Attempts : ~Live(j, m)
    BY <1>2, <1>3 DEF JobInv, LeaseAt, LiveFits, Attempts
  <2>4. JobInv(j)'
    BY <1>1, <1>2, <2>1, <2>3 DEF JobInv, HistoryAt, LeaseAt, Live, RetryAt, Kept, Status
  <2>. QED BY <1>1, <1>2, <2>1, <2>2, <2>4 DEF WorkerInv, Books
<1>4. CASE n # 0 /\ Live(j, n) /\ n \in Attempts
  <2>1. task' = [task EXCEPT ![j][n] = t]
    BY <1>4 DEF DeliverCancel
  <2>2. task[j][n] \in TaskRow
    BY <1>2, <1>4
  <2>3. t \in TaskRow /\ t.cancelled /\ t.pc = task[j][n].pc /\ t.beating = task[j][n].beating
    BY <2>2 DEF TaskRow
  <2>4. n \in Attempts /\ n = registry[j]
    BY <1>4
  <2>. HIDE DEF n, t
  <2>5. /\ task'[j] \in [Attempts -> TaskRow] /\ task'[j][n] = t
        /\ \A m \in Attempts \ {n} : task'[j][m] = task[j][m]
        /\ \A k \in Jobs \ {j} : task'[k] = task[k]
        /\ task' \in [Jobs -> [Attempts -> TaskRow]]
    BY <1>2, <2>1, <2>3, <2>4
  <2>6. Books'
    BY <1>1, <2>5 DEF WorkerInv, Books
  <2>7. \A k \in Jobs \ {j} : JobInv(k)'
    BY <1>1, <2>5, UntouchedStays DEF WorkerInv, Untouched
  <2>8. HistoryAt(j)'
    BY <1>1, <1>2, <2>3, <2>4, <2>5 DEF JobInv, HistoryAt, Status
  <2>9. Status(j) \notin Startable
    BY <1>1, <1>2 DEF JobInv, HistoryAt
  <2>a. \A m \in Attempts : /\ task'[j][m].pc = task[j][m].pc
                            /\ task'[j][m].beating = task[j][m].beating
                            /\ task[j][m].cancelled => task'[j][m].cancelled
                            /\ m = n => task'[j][m].cancelled
    BY <2>3, <2>5
  <2>10. LeaseAt(j)'
    <3>. SUFFICES ASSUME ~faults.late PROVE LeaseAt(j)'
      BY <1>1 DEF LeaseAt
    <3>1. ASSUME NEW m \in Attempts, Live(j, m)' PROVE LiveFits(j, m)'
      <4>1. LiveFits(j, m) /\ m = n
        BY <1>2, <2>4, <2>a, <3>1 DEF JobInv, LeaseAt, LiveFits, Live
      <4>. QED BY <1>1, <2>9, <2>a, <4>1 DEF LiveFits, Status
    <3>. QED BY <1>1, <1>2, <2>9, <2>a, <3>1 DEF JobInv, LeaseAt, Status
  <2>11. RetryAt(j)'
    BY <1>1, <1>2, <2>9 DEF JobInv, RetryAt, Status, Startable
  <2>. QED BY <1>2, <2>6, <2>7, <2>8, <2>10, <2>11 DEF JobInv
<1>. QED BY <1>2, <1>3, <1>4 DEF Attempts

LEMMA JobStepKeeps ==
  ASSUME WorkerInv, NEW j \in Jobs,
         \/ Claim(j) \/ ClaimUnloadable(j) \/ Recover(j)
         \/ Submit(j) \/ SubagentCancel(j) \/ DeliverCancel(j) \/ Route(j)
  PROVE  Shape' /\ Books' /\ \A k \in Jobs : JobInv(k)'
<1>1. CASE Route(j)
  <2>1. UNCHANGED <<jobs, worker, stopping, attempts, doomed, task, registry, cancels, faults>>
    BY <1>1 DEF Route, Store!ConsumeOnce, Store!MarkOutboxPublished, process
  <2>2. \A k \in Jobs : Untouched(k)
    BY <2>1 DEF Untouched
  <2>. QED BY <2>1, <2>2, UntouchedStays DEF WorkerInv, Shape, Books
<1>. QED BY <1>1, ClaimKeeps, ClaimUnloadableKeeps, RecoverKeeps, SubmitKeeps,
         SubagentCancelKeeps, DeliverCancelKeeps

LEMMA FailUnloadableKeeps ==
  ASSUME WorkerInv, FailUnloadable
  PROVE  Shape' /\ Books' /\ \A k \in Jobs : JobInv(k)'
<1>1. /\ doomed \in Jobs /\ JobInv(doomed) /\ doomed' = NoJob
      /\ UNCHANGED <<process, attempts, task, registry, cancels, faults>>
  BY DEF FailUnloadable, WorkerInv, IdInv
<1>2. Store!Record(doomed, "failed")
  BY DEF FailUnloadable, Store!FinishFailure, Store!FinishAs, Store!Finish
<1>3. ~faults.late => \A n \in Attempts : ~Live(doomed, n)
  BY <1>1 DEF JobInv, LeaseAt, LiveFits
<1>4. "failed" \in Store!Terminal
  BY DEF Store!Terminal
<1>. QED BY <1>1, <1>2, <1>3, <1>4, ConcludedElsewhere

LEMMA CleanupKeeps ==
  ASSUME WorkerInv, Cleanup
  PROVE  Shape' /\ Books' /\ \A k \in Jobs : JobInv(k)'
<1>1. UNCHANGED <<worker, stopping, attempts, doomed, task, registry, cancels, faults>>
  BY DEF Cleanup, process
<1>2. Shape' /\ Books'
  BY <1>1, CleanupEffect DEF Cleanup, WorkerInv, Books
<1>3. ASSUME NEW k \in Jobs PROVE JobInv(k)'
  <2>1. JobInv(k)
    BY DEF WorkerInv
  <2>2. CASE jobs'[k] = jobs[k]
    BY <1>1, <2>1, <2>2, UntouchedStays DEF Untouched
  <2>3. CASE jobs[k].age > Retention /\ Status(k)' = "purged"
    <3>1. Status(k) \notin Startable \cup {"cancel_requested"}
      BY <2>1, <2>3, WorkerAssumption DEF JobInv, HistoryAt, Store!NoTime
    <3>2. ~faults.late => \A n \in Attempts : ~Live(k, n)
      BY <2>1, <3>1 DEF JobInv, LeaseAt, LiveFits, Startable, Store!Leased
    <3>3. HistoryAt(k)'
      BY <1>1, <2>1, <2>3 DEF JobInv, HistoryAt, Startable
    <3>4. LeaseAt(k)'
      BY <1>1, <2>1, <2>3, <3>2 DEF JobInv, LeaseAt, Live, Startable
    <3>5. RetryAt(k)'
      BY <1>1, <2>1, <2>3, <3>1 DEF JobInv, RetryAt, Startable
    <3>. QED BY <3>3, <3>4, <3>5 DEF JobInv
  <2>. QED BY <2>2, <2>3, CleanupEffect DEF Cleanup, WorkerInv
<1>. QED BY <1>2, <1>3

(* Time passes: on time, or with a stall that counts as a fault.           *)
LEMMA TimeKeeps ==
  ASSUME WorkerInv, Tick \/ Stall
  PROVE  Shape' /\ Books' /\ \A k \in Jobs : JobInv(k)'
<1>1. /\ Shape' /\ Quiet
      /\ \A k \in Jobs : /\ Status(k)' = Status(k) /\ jobs'[k].owner = jobs[k].owner
                         /\ jobs'[k].left = IF jobs[k].left > 0 THEN jobs[k].left - 1
                                                                ELSE jobs[k].left
                         /\ jobs[k].age = Store!NoTime => jobs'[k].age = Store!NoTime
  BY TickEffect DEF Tick, Stall, WorkerInv
<1>2. UNCHANGED <<worker, stopping, attempts, doomed, task, registry, cancels>>
  BY <1>1 DEF Quiet, process
<1>3. \A k \in Jobs : JobInv(k) /\ jobs[k].left \in Int
  BY DEF WorkerInv, Shape, Row
<1>4. \A k \in Jobs : HistoryAt(k)'
  BY <1>1, <1>2, <1>3 DEF JobInv, HistoryAt
<1>5. CASE Tick
  <2>1. faults' = faults /\ HeartbeatsAreOnTime
    BY <1>5 DEF Tick
  <2>2. Books'
    BY <1>2, <2>1 DEF WorkerInv, Books
  <2>3. ASSUME NEW k \in Jobs PROVE LeaseAt(k)' /\ RetryAt(k)'
    <3>1. \A n \in Attempts :
            jobs[k].left > 0 /\ (task[k][n].pc = "created" \/ task[k][n].beating)
              => jobs'[k].left > 0
      BY <1>1, <1>3, <2>1, <2>3 DEF HeartbeatsAreOnTime
    <3>2. LeaseAt(k)'
      <4>. SUFFICES ASSUME ~faults.late PROVE LeaseAt(k)'
        BY <2>1 DEF LeaseAt
      <4>1. ASSUME NEW n \in Attempts, Live(k, n) PROVE LiveFits(k, n)'
        <5>1. LiveFits(k, n) /\ (task[k][n].pc = "created" \/ task[k][n].beating)
          BY <1>3, <4>1 DEF JobInv, LeaseAt, LiveFits, Live
        <5>. QED BY <1>1, <1>2, <3>1, <5>1 DEF LiveFits
      <4>. QED BY <1>1, <1>2, <1>3, <4>1 DEF JobInv, LeaseAt, Live
    <3>3. Kept(k) => Kept(k)'
      BY <1>1, <1>2, <3>1 DEF Kept
    <3>4. RetryAt(k)'
      BY <1>1, <1>2, <1>3, <2>1, <3>3 DEF JobInv, RetryAt
    <3>. QED BY <3>2, <3>4
  <2>. QED BY <1>1, <1>4, <2>2, <2>3 DEF JobInv
<1>6. CASE Stall
  <2>1. faults'.late /\ faults'.count = faults.count + 1
    BY <1>6 DEF Stall, Fault
  <2>2. faults' \in [count : Nat, late : BOOLEAN]
    BY <1>6 DEF Stall, Fault, WorkerInv, Books
  <2>3. Books'
    BY <1>2, <2>2 DEF WorkerInv, Books
  <2>4. \A k \in Jobs : RetryAt(k)'
    BY <1>2, <1>3, <2>1, FaultForgives DEF WorkerInv
  <2>. QED BY <1>1, <1>4, <2>1, <2>3, <2>4 DEF JobInv, LeaseAt
<1>. QED BY <1>5, <1>6

LEMMA ProcessKeeps ==
  ASSUME WorkerInv, Start \/ Crash \/ Stop \/ Exit
  PROVE  Shape' /\ Books' /\ \A k \in Jobs : JobInv(k)'
<1>0. /\ \A k \in Jobs : JobInv(k)
      /\ jobs' = jobs /\ attempts' = attempts /\ Shape' /\ Books
  BY DEF Start, Crash, Stop, Exit, Gone, store, WorkerInv, Shape
<1>1. \A k \in Jobs : Status(k)' = Status(k)
  BY <1>0 DEF Status
<1>2. ASSUME Gone, (faults'.count = faults.count + 1) \/ (stopping /\ faults' = faults),
             faults' \in [count : Nat, late : BOOLEAN]
      PROVE  Books' /\ \A k \in Jobs : JobInv(k)'
  <2>1. task' = NoTasks /\ registry' = [j \in Jobs |-> 0] /\ cancels' = {}
    BY <1>2 DEF Gone
  <2>2. \A k \in Jobs, n \in Attempts : task'[k][n] = NoTask
    BY <2>1 DEF NoTasks
  <2>3. Books'
    BY <1>0, <1>2, <2>1, WorkerAssumption DEF Books, NoTasks, NoTask, TaskRow
  <2>4. \A k \in Jobs : HistoryAt(k)' /\ LeaseAt(k)'
    BY <1>0, <1>1, <2>1, <2>2 DEF JobInv, HistoryAt, LeaseAt, Live, NoTask
  <2>5. \A k \in Jobs : RetryAt(k)'
    <3>1. CASE faults'.count = faults.count + 1
      BY <1>0, <3>1, FaultForgives
    <3>2. CASE stopping /\ faults' = faults
      BY <1>0, <3>2 DEF JobInv, RetryAt, Books
    <3>. QED BY <1>2, <3>1, <3>2
  <2>. QED BY <2>3, <2>4, <2>5 DEF JobInv
<1>3. CASE Start
  <2>1. worker = NoWorker /\ UNCHANGED <<stopping, doomed, task, registry, cancels, faults>>
    BY <1>3 DEF Start
  <2>2. Books'
    BY <1>0, <2>1 DEF Books
  <2>3. \A k \in Jobs : HistoryAt(k)' /\ LeaseAt(k)' /\ RetryAt(k)'
    BY <1>0, <1>1, <2>1 DEF JobInv, HistoryAt, LeaseAt, LiveFits, Live, RetryAt, Kept
  <2>. QED BY <1>0, <2>2, <2>3 DEF JobInv
<1>4. CASE Crash
  <2>1. Gone /\ faults'.count = faults.count + 1
    BY <1>4 DEF Crash, Fault
  <2>2. faults' \in [count : Nat, late : BOOLEAN]
    BY <1>0, <1>4 DEF Crash, Fault, Books
  <2>. QED BY <1>0, <1>2, <2>1, <2>2
<1>5. CASE Exit
  <2>1. Gone /\ stopping /\ faults' = faults
    BY <1>5 DEF Exit
  <2>. QED BY <1>0, <1>2, <2>1 DEF Books
<1>6. CASE Stop
  <2>1. /\ stopping' /\ cancels' = {} /\ UNCHANGED <<worker, doomed, registry>>
        /\ faults'.count = faults.count + 1
        /\ faults.late => faults'.late
        /\ task' = [j \in Jobs |-> [n \in Attempts |->
                      IF n = registry[j] THEN [task[j][n] EXCEPT !.cancelled = TRUE]
                                         ELSE task[j][n]]]
    BY <1>6 DEF Stop, Fault
  <2>2. faults' \in [count : Nat, late : BOOLEAN]
    BY <1>0, <1>6 DEF Stop, Fault, Books
  <2>3. ASSUME NEW j \in Jobs, NEW n \in Attempts
        PROVE  /\ task'[j][n] \in TaskRow
               /\ task'[j][n].pc = task[j][n].pc /\ task'[j][n].beating = task[j][n].beating
               /\ n = registry[j] => task'[j][n].cancelled
    <3>1. task[j][n] \in TaskRow
      BY <1>0 DEF Books
    <3>2. task'[j][n] = IF n = registry[j] THEN [task[j][n] EXCEPT !.cancelled = TRUE]
                                           ELSE task[j][n]
      BY <2>1
    <3>. QED BY <3>1, <3>2 DEF TaskRow
  <2>4. Books'
    BY <1>0, <2>1, <2>2, <2>3 DEF Books
  <2>5. \A k \in Jobs : HistoryAt(k)'
    BY <1>0, <1>1, <2>1, <2>3 DEF JobInv, HistoryAt
  <2>6. ASSUME NEW k \in Jobs PROVE LeaseAt(k)'
    BY <1>0, <1>1, <2>1, <2>3 DEF JobInv, LeaseAt, LiveFits, Live
  <2>7. \A k \in Jobs : RetryAt(k)'
    BY <1>0, <2>1, FaultForgives
  <2>. QED BY <1>0, <2>4, <2>5, <2>6, <2>7 DEF JobInv
<1>. QED BY <1>0, <1>3, <1>4, <1>5, <1>6

LEMMA WorkerStep == WorkerInv /\ [Next]_vars => WorkerInv'
<1>. SUFFICES ASSUME WorkerInv, [Next]_vars PROVE WorkerInv'
  OBVIOUS
<1>1. IdInv'
  BY IdsKept DEF WorkerInv
<1>2. Shape' /\ Books' /\ \A k \in Jobs : JobInv(k)'
  <2>1. CASE UNCHANGED vars
    <3>1. \A k \in Jobs : Untouched(k)
      BY <2>1 DEF vars, Untouched
    <3>. QED BY <2>1, <3>1, UntouchedStays DEF vars, WorkerInv, Shape, Books
  <2>. QED BY <2>1, TaskStepKeeps, JobStepKeeps, FailUnloadableKeeps, CleanupKeeps, TimeKeeps,
           ProcessKeeps DEF Next
<1>. QED BY <1>1, <1>2 DEF WorkerInv

LEMMA WorkerInvHolds == Spec => []WorkerInv
<1>1. Init => WorkerInv
  <2>. SUFFICES ASSUME Init PROVE WorkerInv
    OBVIOUS
  <2>1. Store!NoRow("absent") \in Row
    BY DEF Row, Store!NoRow, Store!Statuses, Store!NoTime
  <2>2. IdInv /\ Shape /\ \A j \in Jobs : jobs[j] = Store!NoRow("absent")
    BY <2>1 DEF Init, Store!Init, IdInv, Shape
  <2>3. Books /\ \A j \in Jobs, n \in Attempts : task[j][n] = NoTask
    BY WorkerAssumption DEF Init, Books, NoTasks, NoTask, TaskRow
  <2>4. ASSUME NEW j \in Jobs PROVE HistoryAt(j) /\ LeaseAt(j) /\ RetryAt(j)
    BY <2>2, <2>3 DEF Init, HistoryAt, LeaseAt, Live, RetryAt, NoTask, Status, Store!NoRow
  <2>. QED BY <2>2, <2>3, <2>4 DEF WorkerInv, JobInv
<1>. QED BY <1>1, WorkerStep, PTL DEF Spec

(* Until a stall or a dead heartbeat lets a lease run out, a task that is  *)
(* alive is the latest attempt at its job and its worker holds the lease:  *)
(* through crashes, restarts and shutdowns no job runs twice at a time     *)
(* (design 14.3).                                                          *)
THEOREM LiveTasksHoldLeases == Spec => []LiveTaskHoldsLease
<1>1. WorkerInv => LiveTaskHoldsLease
  BY DEF WorkerInv, JobInv, LeaseAt, LiveFits, LiveTaskHoldsLease
<1>. QED BY <1>1, WorkerInvHolds, PTL

(* Until then, too, a cancel request always reaches the task: it was told, *)
(* or the event that will tell it is on the bus.                           *)
THEOREM CancelsReachTasks == Spec => []CancelReachesTask
<1>1. WorkerInv => CancelReachesTask
  BY DEF WorkerInv, JobInv, LeaseAt, LiveFits, CancelReachesTask
<1>. QED BY <1>1, WorkerInvHolds, PTL

(* Whatever fails, an attempt beyond the first was paid for by a fault of  *)
(* its own: no path of cancellation, late results, deadlines or shutdown   *)
(* makes a job run again by itself.                                        *)
THEOREM RetriesHaveFaults == Spec => []EveryRetryHasAFault
<1>1. WorkerInv => EveryRetryHasAFault
  BY DEF WorkerInv, JobInv, RetryAt, EveryRetryHasAFault
<1>. QED BY <1>1, WorkerInvHolds, PTL
=============================================================================
