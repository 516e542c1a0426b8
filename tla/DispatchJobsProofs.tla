------------------------- MODULE DispatchJobsProofs -------------------------
(***************************************************************************)
(* Theorems about the dispatch job store, for every set of jobs, sessions  *)
(* agents and workers, every limit and every lease time.                   *)
(***************************************************************************)
EXTENDS DispatchJobs, FiniteSetTheorems, TLAPS

(* The inductive invariant.  TypeOK alone is inductive; what the store     *)
(* promises about completion records is inductive only next to it, because *)
(* Finish inserts a record only where none is.                             *)
IInv == TypeOK /\ OutboxTellsTheOutcome

-----------------------------------------------------------------------------
LEMMA InitEstablishes == Init => IInv
<1>1. NoRow("absent") \in JobRow /\ NullsFit(NoRow("absent"))
  BY DEF NoRow, JobRow, NullsFit, Statuses, Pending, Leased, Terminal, NoTime
<1>2. NoEvent \in OutboxRow
  BY DEF NoEvent, OutboxRow
<1>3. Init => TypeOK
  BY <1>1, <1>2 DEF Init, TypeOK
<1>4. Init => OutboxTellsTheOutcome
  BY DEF Init, OutboxTellsTheOutcome, NoRow, NoEvent, Terminal, Status
<1>. QED BY <1>3, <1>4 DEF IInv

(* Writing one well-formed row, and the completion record that goes with   *)
(* it, keeps the invariant.                                                *)
LEMMA RowUpdate ==
  ASSUME IInv, NEW j \in Jobs, NEW r \in JobRow, NullsFit(r), NEW e \in OutboxRow,
         e.outcome = IF r.status \in Terminal THEN r.status ELSE "none",
         jobs' = [jobs EXCEPT ![j] = r],
         outbox' = [outbox EXCEPT ![j] = e],
         UNCHANGED consumed
  PROVE  IInv'
<1>1. TypeOK'
  BY DEF IInv, TypeOK
<1>2. OutboxTellsTheOutcome'
  BY DEF IInv, TypeOK, OutboxTellsTheOutcome, Status
<1>. QED BY <1>1, <1>2 DEF IInv

(* The same for a row without an outcome, before and after.                *)
LEMMA PendingUpdate ==
  ASSUME IInv, NEW j \in Jobs, NEW r \in JobRow, NullsFit(r),
         Status(j) \notin Terminal, r.status \notin Terminal,
         jobs' = [jobs EXCEPT ![j] = r],
         UNCHANGED <<outbox, consumed>>
  PROVE  IInv'
<1>1. outbox[j] \in OutboxRow /\ outbox[j].outcome = "none"
  BY DEF IInv, TypeOK, OutboxTellsTheOutcome
<1>2. outbox' = [outbox EXCEPT ![j] = outbox[j]]
  BY DEF IInv, TypeOK
<1>. QED BY <1>1, <1>2, RowUpdate

LEMMA InsertKeeps ==
  ASSUME IInv, NEW j \in Jobs, Status(j) = "absent", Insert(j)
  PROVE  IInv'
<1>0. PICK c \in 0 .. Cardinality(Jobs) : /\ jobs' = [jobs EXCEPT ![j] = [NoRow("queued") EXCEPT !.created = c]]
                                         /\ UNCHANGED <<outbox, consumed>>
  BY DEF Insert
<1>. DEFINE r == [NoRow("queued") EXCEPT !.created = c]
<1>1. r \in JobRow /\ NullsFit(r) /\ r.status = "queued"
  BY DEF IInv, TypeOK, NoRow, JobRow, NullsFit, Statuses, Pending, Leased, Terminal, NoTime
<1>. HIDE DEF r
<1>2. jobs' = [jobs EXCEPT ![j] = r]
  BY <1>0 DEF r
<1>. QED BY <1>0, <1>1, <1>2, PendingUpdate DEF Terminal

(* A completion is recorded for a job in a pending status only, so there   *)
(* is no record yet and the insertion takes effect.                        *)
LEMMA RecordKeeps ==
  ASSUME IInv, NEW j \in Jobs, Status(j) \in Pending,
         NEW outcome \in Terminal, Record(j, outcome)
  PROVE  IInv'
<1>. DEFINE r == [jobs[j] EXCEPT !.status = outcome, !.owner = NoWorker,
                                 !.left = NoTime, !.created = NoTime, !.age = 0]
            e == [outcome |-> outcome, published |-> FALSE]
<1>0. jobs[j] \in JobRow /\ NullsFit(jobs[j]) /\ jobs[j].status \in Pending
  BY DEF IInv, TypeOK, Status
<1>1. r \in JobRow
  <2>1. /\ r.status = outcome /\ r.owner = NoWorker /\ r.left = NoTime
        /\ r.created = NoTime /\ r.age = 0
    BY <1>0 DEF JobRow
  <2>2. r.status \in Statuses /\ r.age \in 0 .. Retention + 1
    BY <2>1, DispatchAssumption DEF Statuses
  <2>. QED BY <1>0, <2>1, <2>2 DEF JobRow
<1>2. NullsFit(r) /\ r.status = outcome
  BY <1>0 DEF JobRow, NullsFit, Pending, Leased, Terminal, NoTime
<1>3. e \in OutboxRow /\ e.outcome = outcome /\ ~e.published
  BY DEF OutboxRow
<1>4. outbox[j].outcome = "none" /\ outbox[j] \in OutboxRow
  BY DEF IInv, TypeOK, OutboxTellsTheOutcome, Pending, Leased, Terminal
<1>. HIDE DEF r, e
<1>5. jobs' = [jobs EXCEPT ![j] = r]
  BY DEF Record, r
<1>6. outbox' = [outbox EXCEPT ![j] = e]
  BY <1>4 DEF Record, e
<1>7. UNCHANGED consumed
  BY DEF Record
<1>8. e.outcome = IF r.status \in Terminal THEN r.status ELSE "none"
  BY <1>2, <1>3
<1>. QED BY <1>1, <1>2, <1>3, <1>5, <1>6, <1>7, <1>8, RowUpdate

LEMMA CreateKeeps ==
  ASSUME IInv, NEW j \in Jobs, CreateJob(j)
  PROVE  IInv'
BY InsertKeeps DEF CreateJob

LEMMA ClaimKeeps ==
  ASSUME IInv, NEW j \in Jobs, NEW w \in Workers, ClaimNext(j, w)
  PROVE  IInv'
<1>. DEFINE r == [jobs[j] EXCEPT !.status = "running", !.owner = w,
                                 !.left = LeaseTime]
<1>1. jobs[j] \in JobRow /\ NullsFit(jobs[j]) /\ Status(j) = "queued"
  BY DEF ClaimNext, OldestQueued, QueuedFor, IInv, TypeOK
<1>a. LeaseTime \in 1 .. LeaseTime /\ w # NoWorker
  BY <1>1, DispatchAssumption
<1>b. r \in JobRow /\ r.status = "running"
  <2>1. /\ r.status = "running" /\ r.owner = w /\ r.left = LeaseTime
        /\ r.created = jobs[j].created /\ r.age = jobs[j].age
    BY <1>1 DEF JobRow
  <2>2. /\ r.status \in Statuses /\ r.owner \in Workers \cup {NoWorker}
        /\ r.left \in (0 .. LeaseTime) \cup {NoTime}
    BY <2>1, <1>a DEF Statuses, Pending, Leased
  <2>. QED BY <1>1, <2>1, <2>2 DEF JobRow
<1>c. NullsFit(r)
  BY <1>1, <1>a DEF JobRow, NullsFit, Pending, Leased, Terminal, NoTime, Status
<1>2. r \in JobRow /\ NullsFit(r) /\ r.status = "running"
  BY <1>b, <1>c
<1>. HIDE DEF r
<1>3. jobs' = [jobs EXCEPT ![j] = r]
  BY DEF ClaimNext, r
<1>. QED BY <1>1, <1>2, <1>3, PendingUpdate DEF ClaimNext, Terminal

LEMMA RenewKeeps ==
  ASSUME IInv, NEW j \in Jobs, NEW w \in Workers, RenewLease(j, w)
  PROVE  IInv'
<1>. DEFINE r == [jobs[j] EXCEPT !.left = LeaseTime]
<1>1. jobs[j] \in JobRow /\ NullsFit(jobs[j]) /\ Status(j) \in Leased
  BY DEF RenewLease, IInv, TypeOK
<1>2. r \in JobRow /\ NullsFit(r) /\ r.status \in Leased
  BY <1>1, DispatchAssumption
     DEF JobRow, NullsFit, Statuses, Pending, Leased, Terminal, NoTime, Status
<1>. HIDE DEF r
<1>3. jobs' = [jobs EXCEPT ![j] = r]
  BY DEF RenewLease, r
<1>. QED BY <1>1, <1>2, <1>3, PendingUpdate DEF RenewLease, Leased, Terminal

LEMMA FinishKeeps ==
  ASSUME IInv, NEW j \in Jobs, NEW expected \in Pending, NEW outcome \in Terminal,
         Finish(j, expected, outcome)
  PROVE  IInv'
BY RecordKeeps DEF Finish

LEMMA RequestCancelKeeps ==
  ASSUME IInv, NEW j \in Jobs, NEW s \in Sessions, RequestCancel(j, s)
  PROVE  IInv'
<1>1. CASE Finish(j, "queued", "cancelled")
  BY <1>1, FinishKeeps DEF Pending, Terminal
<1>2. CASE /\ Status(j) = "running"
           /\ jobs' = [jobs EXCEPT ![j] = [@ EXCEPT !.status = "cancel_requested"]]
           /\ UNCHANGED <<outbox, consumed>>
  <2>. DEFINE r == [jobs[j] EXCEPT !.status = "cancel_requested"]
  <2>1. jobs[j] \in JobRow /\ NullsFit(jobs[j])
    BY DEF IInv, TypeOK
  <2>2. r \in JobRow /\ NullsFit(r) /\ r.status = "cancel_requested"
    BY <1>2, <2>1 DEF JobRow, NullsFit, Statuses, Pending, Leased, Terminal, Status
  <2>. HIDE DEF r
  <2>3. jobs' = [jobs EXCEPT ![j] = r]
    BY <1>2 DEF r
  <2>. QED BY <1>2, <2>2, <2>3, PendingUpdate DEF Terminal
<1>. QED BY <1>1, <1>2 DEF RequestCancel

LEMMA RecoverKeeps ==
  ASSUME IInv, NEW j \in Jobs, NEW retry_safe \in BOOLEAN, RecoverExpired(j, retry_safe)
  PROVE  IInv'
<1>1. CASE Finish(j, "cancel_requested", "cancelled")
  BY <1>1, FinishKeeps DEF Pending, Leased, Terminal
<1>2. CASE Finish(j, "running", "failed")
  BY <1>2, FinishKeeps DEF Pending, Leased, Terminal
<1>3. CASE /\ Status(j) = "running"
           /\ jobs' = [jobs EXCEPT ![j] = [@ EXCEPT !.status = "queued",
                                                    !.owner  = NoWorker,
                                                    !.left = NoTime]]
           /\ UNCHANGED <<outbox, consumed>>
  <2>. DEFINE r == [jobs[j] EXCEPT !.status = "queued", !.owner = NoWorker,
                                   !.left = NoTime]
  <2>1. jobs[j] \in JobRow /\ NullsFit(jobs[j])
    BY DEF IInv, TypeOK
  <2>2. r \in JobRow /\ NullsFit(r) /\ r.status = "queued"
    BY <1>3, <2>1 DEF JobRow, NullsFit, Statuses, Pending, Leased, Terminal, NoTime, Status
  <2>. HIDE DEF r
  <2>3. jobs' = [jobs EXCEPT ![j] = r]
    BY <1>3 DEF r
  <2>. QED BY <1>3, <2>2, <2>3, PendingUpdate DEF Terminal
<1>. QED BY <1>1, <1>2, <1>3 DEF RecoverExpired

LEMMA ConsumeKeeps ==
  ASSUME IInv, NEW j \in Jobs, ConsumeOnce(j)
  PROVE  IInv'
BY DEF ConsumeOnce, IInv, TypeOK, OutboxTellsTheOutcome, Status

LEMMA PublishKeeps ==
  ASSUME IInv, NEW j \in Jobs, MarkOutboxPublished(j)
  PROVE  IInv'
<1>. DEFINE e == [outbox[j] EXCEPT !.published = TRUE]
<1>1. outbox[j] \in OutboxRow /\ jobs[j] \in JobRow /\ NullsFit(jobs[j])
  BY DEF IInv, TypeOK
<1>2. e \in OutboxRow /\ e.outcome = outbox[j].outcome
  BY <1>1 DEF OutboxRow
<1>3. e.outcome = IF jobs[j].status \in Terminal THEN jobs[j].status ELSE "none"
  BY <1>2 DEF IInv, OutboxTellsTheOutcome, Status
<1>. HIDE DEF e
<1>4. outbox' = [outbox EXCEPT ![j] = e] /\ jobs' = [jobs EXCEPT ![j] = jobs[j]]
  BY DEF MarkOutboxPublished, e, IInv, TypeOK
<1>. QED BY <1>1, <1>2, <1>3, <1>4, RowUpdate DEF MarkOutboxPublished

LEMMA OldHasOutcome ==
  ASSUME IInv, NEW j \in Jobs, Old(j)
  PROVE  Status(j) \in Terminal /\ outbox[j].outcome = Status(j)
<1>1. jobs[j].age # NoTime
  BY DispatchAssumption DEF Old, NoTime
<1>. QED BY <1>1 DEF IInv, TypeOK, NullsFit, OutboxTellsTheOutcome, Status

(* Retention removes a row and its record together: a job with an outcome  *)
(* has a record, so an old job goes only when its record goes.             *)
LEMMA CleanupKeeps ==
  ASSUME IInv, CleanupTerminal
  PROVE  IInv'
<1>. DEFINE gone == {j \in Jobs : Old(j) /\ outbox[j].published}
<1>1. \A j \in Jobs : Old(j) => Status(j) \in Terminal /\ outbox[j].outcome # "none"
  BY OldHasOutcome DEF Terminal
<1>2. /\ consumed' = consumed \ gone
      /\ outbox' = [j \in Jobs |-> IF j \in gone THEN NoEvent ELSE outbox[j]]
      /\ jobs' = [j \in Jobs |-> IF j \in gone THEN NoRow("purged") ELSE jobs[j]]
  BY <1>1 DEF CleanupTerminal
<1>3. NoRow("purged") \in JobRow /\ NullsFit(NoRow("purged")) /\ NoRow("purged").status = "purged"
  BY DEF NoRow, JobRow, NullsFit, Statuses, Pending, Leased, Terminal, NoTime
<1>4. NoEvent \in OutboxRow /\ NoEvent.outcome = "none" /\ ~NoEvent.published
  BY DEF NoEvent, OutboxRow
<1>. HIDE DEF gone
<1>5. TypeOK'
  BY <1>2, <1>3, <1>4 DEF IInv, TypeOK
<1>6. OutboxTellsTheOutcome'
  BY <1>2, <1>3, <1>4 DEF IInv, OutboxTellsTheOutcome, Status, Terminal
<1>. QED BY <1>5, <1>6 DEF IInv

(* A tick moves the timestamps and nothing else.                           *)
LEMMA TickMovesTime ==
  ASSUME IInv, Tick, NEW k \in Jobs
  PROVE  /\ jobs'[k] \in JobRow /\ NullsFit(jobs'[k])
         /\ Status(k)' = Status(k) /\ jobs'[k].owner = jobs[k].owner
<1>1. jobs[k] \in JobRow /\ NullsFit(jobs[k]) /\ jobs'[k] = Passed(jobs[k])
  BY DEF Tick, IInv, TypeOK
<1>2. /\ jobs[k].left \in (0 .. LeaseTime) \cup {NoTime}
      /\ jobs[k].age \in (0 .. Retention + 1) \cup {NoTime}
      /\ LeaseTime \in Nat /\ Retention \in Nat
  BY <1>1, DispatchAssumption DEF JobRow
<1>3. /\ Passed(jobs[k]).left \in (0 .. LeaseTime) \cup {NoTime}
      /\ Passed(jobs[k]).left = NoTime <=> jobs[k].left = NoTime
      /\ Passed(jobs[k]).age \in (0 .. Retention + 1) \cup {NoTime}
      /\ Passed(jobs[k]).age = NoTime <=> jobs[k].age = NoTime
      /\ Passed(jobs[k]).status = jobs[k].status
      /\ Passed(jobs[k]).owner = jobs[k].owner
      /\ Passed(jobs[k]).created = jobs[k].created
  BY <1>1, <1>2 DEF Passed, JobRow, NoTime
<1>4. Passed(jobs[k]) \in JobRow
  BY <1>1, <1>3 DEF Passed, JobRow
<1>. QED BY <1>1, <1>3, <1>4 DEF NullsFit, Status

LEMMA TickKeeps ==
  ASSUME IInv, Tick
  PROVE  IInv'
<1>1. jobs' \in [Jobs -> JobRow]
  <2>1. jobs' = [k \in Jobs |-> jobs'[k]]
    BY DEF Tick
  <2>. QED BY <2>1, TickMovesTime
<1>. QED BY <1>1, TickMovesTime DEF Tick, IInv, TypeOK, OutboxTellsTheOutcome

LEMMA StepKeeps == IInv /\ [Next]_vars => IInv'
<1>. SUFFICES ASSUME IInv, [Next]_vars PROVE IInv'
  OBVIOUS
<1>1. ASSUME NEW j \in Jobs, NEW w \in Workers, WorkerStep(j, w) PROVE IInv'
  BY <1>1, ClaimKeeps, RenewKeeps, FinishKeeps DEF WorkerStep, FinishSuccess, FinishFailure,
     FinishTimedOut, FinishCancelled, FinishAs, Pending, Leased, Terminal
<1>2. CASE Tick
  BY <1>2, TickKeeps
<1>3. CASE UNCHANGED vars
  BY <1>3 DEF vars, IInv, TypeOK, OutboxTellsTheOutcome, Status
<1>. QED BY <1>1, <1>2, <1>3, CreateKeeps, ConsumeKeeps, PublishKeeps, RequestCancelKeeps,
            RecoverKeeps, CleanupKeeps DEF Next

THEOREM InductiveInvariant == Spec => []IInv
BY InitEstablishes, StepKeeps, PTL DEF Spec

(* Every column has its type and is NULL exactly when it should be: a      *)
(* lease exists only while a worker is in charge of the job.               *)
THEOREM TypeCorrect == Spec => []TypeOK
BY InductiveInvariant, PTL DEF IInv

(* A job has a completion record exactly when it has an outcome, and the   *)
(* record carries that outcome, however cancel, completion, lease recovery *)
(* and retention interleave.                                               *)
THEOREM OutcomeIsRecorded == Spec => []OutboxTellsTheOutcome
BY InductiveInvariant, PTL DEF IInv

-----------------------------------------------------------------------------
(* What one step does to the statuses.                                     *)

(* Only create_job brings a job into existence or makes it pending.        *)
LEMMA NothingElseCreates ==
  ASSUME IInv, [Next]_vars, \A j \in Jobs : ~CreateJob(j), NEW k \in Jobs
  PROVE  /\ Exists(k)' => Exists(k)
         /\ Status(k)' \in Pending => Status(k) \in Pending
<1>. USE DEF Pending, Leased, Terminal, Exists, Status
<1>0. jobs \in [Jobs -> JobRow]
  BY DEF IInv, TypeOK
<1>1. ASSUME NEW j \in Jobs, NEW w \in Workers, WorkerStep(j, w)
      PROVE  /\ Exists(k)' => Exists(k)
             /\ Status(k)' \in Pending => Status(k) \in Pending
  BY <1>0, <1>1 DEF WorkerStep, ClaimNext, OldestQueued, QueuedFor, RenewLease, FinishSuccess,
     FinishFailure, FinishTimedOut, FinishCancelled, FinishAs, Finish, Record, JobRow
<1>2. ASSUME NEW j \in Jobs, NEW s \in Sessions, RequestCancel(j, s)
      PROVE  /\ Exists(k)' => Exists(k)
             /\ Status(k)' \in Pending => Status(k) \in Pending
  BY <1>0, <1>2 DEF RequestCancel, Finish, Record, JobRow
<1>3. ASSUME NEW j \in Jobs, NEW r \in BOOLEAN, RecoverExpired(j, r)
      PROVE  /\ Exists(k)' => Exists(k)
             /\ Status(k)' \in Pending => Status(k) \in Pending
  BY <1>0, <1>3 DEF RecoverExpired, Expired, Finish, Record, JobRow
<1>4. CASE CleanupTerminal
  BY <1>0, <1>4 DEF CleanupTerminal, NoRow
<1>5. CASE Tick \/ UNCHANGED vars
  BY <1>5, TickMovesTime DEF vars
<1>6. ASSUME NEW j \in Jobs, ConsumeOnce(j) \/ MarkOutboxPublished(j)
      PROVE  jobs' = jobs
  BY <1>6 DEF ConsumeOnce, MarkOutboxPublished
<1>. QED BY <1>1, <1>2, <1>3, <1>4, <1>5, <1>6 DEF Next

(* create_job makes one job pending and leaves the others as they were.    *)
LEMMA CreateAddsOne ==
  ASSUME IInv, NEW j \in Jobs, CreateJob(j), NEW k \in Jobs
  PROVE  Status(k)' = IF k = j THEN "queued" ELSE Status(k)
BY DEF CreateJob, Insert, NoRow, Status, IInv, TypeOK

-----------------------------------------------------------------------------
LEMMA PendingFinite ==
  ASSUME NEW s \in Sessions
  PROVE  /\ IsFiniteSet(PendingOf(s)) /\ IsFiniteSet(PendingOf(s)')
         /\ Cardinality(PendingOf(s)) \in Nat /\ Cardinality(PendingOf(s)') \in Nat
<1>1. PendingOf(s) \subseteq Jobs /\ PendingOf(s)' \subseteq Jobs
  BY DEF PendingOf
<1>. QED BY <1>1, DispatchAssumption, FS_Subset, FS_CardinalityType

LEMMA QuotaStep == IInv /\ PendingWithinLimit /\ [Next]_vars => PendingWithinLimit'
<1>. SUFFICES ASSUME IInv, PendingWithinLimit, [Next]_vars, NEW s \in Sessions
              PROVE  Cardinality(PendingOf(s)') <= MaxPending
  BY DEF PendingWithinLimit
<1>0. MaxPending \in Nat /\ Cardinality(PendingOf(s)) <= MaxPending
  BY DispatchAssumption DEF PendingWithinLimit
<1>1. CASE \E j \in Jobs : CreateJob(j)
  <2>1. PICK j \in Jobs : CreateJob(j)
    BY <1>1
  <2>2. CASE s = SessionOf(j)
    <3>1. PendingOf(s)' = PendingOf(s) \cup {j}
      BY <2>1, <2>2, CreateAddsOne DEF PendingOf, SessionOf, Pending
    <3>a. Cardinality(PendingOf(s) \cup {j})
            = IF j \in PendingOf(s) THEN Cardinality(PendingOf(s)) ELSE Cardinality(PendingOf(s)) + 1
      BY PendingFinite, FS_AddElement
    <3>2. Cardinality(PendingOf(s)') <= Cardinality(PendingOf(s)) + 1
      BY <3>1, <3>a, PendingFinite
    <3>3. Cardinality(PendingOf(s)) < MaxPending
      BY <2>1, <2>2 DEF CreateJob
    <3>. QED BY <1>0, <3>2, <3>3, PendingFinite
  <2>3. CASE s # SessionOf(j)
    <3>1. PendingOf(s)' = PendingOf(s)
      BY <2>1, <2>3, CreateAddsOne DEF PendingOf, SessionOf
    <3>. QED BY <1>0, <3>1
  <2>. QED BY <2>2, <2>3
<1>2. CASE \A j \in Jobs : ~CreateJob(j)
  <2>1. PendingOf(s)' \subseteq PendingOf(s)
    BY <1>2, NothingElseCreates DEF PendingOf, SessionOf
  <2>2. Cardinality(PendingOf(s)') <= Cardinality(PendingOf(s))
    BY <2>1, PendingFinite, FS_Subset
  <2>. QED BY <1>0, <2>2, PendingFinite
<1>. QED BY <1>1, <1>2

(* No interleaving of submissions, claims, cancels and recoveries lifts a  *)
(* session above its quota of pending jobs.                                *)
THEOREM SessionQuota == Spec => []PendingWithinLimit
<1>1. Init => PendingWithinLimit
  <2>. SUFFICES ASSUME Init, NEW s \in Sessions PROVE Cardinality(PendingOf(s)) <= MaxPending
    BY DEF PendingWithinLimit
  <2>1. PendingOf(s) = {}
    BY DEF Init, PendingOf, Status, NoRow, Pending, Leased
  <2>. QED BY <2>1, FS_EmptySet, DispatchAssumption
<1>. QED BY <1>1, QuotaStep, InductiveInvariant, PTL DEF Spec

-----------------------------------------------------------------------------
(* Steps of the store as steps of the life cycle.                          *)
LEMMA PhaseUpdate ==
  ASSUME IInv, NEW j \in Jobs, NEW r, jobs' = [jobs EXCEPT ![j] = r]
  PROVE  PhaseOf' = [PhaseOf EXCEPT ![j] = r.status]
BY DEF IInv, TypeOK, PhaseOf, Status

LEMMA MoveMaps ==
  ASSUME IInv, NEW j \in Jobs, NEW r, jobs' = [jobs EXCEPT ![j] = r], outbox' = outbox,
         NEW from, NEW to, Status(j) = from, r.status = to
  PROVE  Lifecycle!Move(j, from, to)
<1>1. PhaseOf[j] = from
  BY DEF PhaseOf
<1>2. PhaseOf' = [PhaseOf EXCEPT ![j] = to]
  BY PhaseUpdate
<1>3. AnnouncedOf' = AnnouncedOf
  BY DEF AnnouncedOf
<1>. QED BY <1>1, <1>2, <1>3 DEF Lifecycle!Move

LEMMA FinishMaps ==
  ASSUME IInv, NEW j \in Jobs, NEW expected \in Pending, NEW outcome \in Terminal,
         Finish(j, expected, outcome), outcome \in Lifecycle!MayEndAs(expected)
  PROVE  Lifecycle!Next
<1>. DEFINE r == [jobs[j] EXCEPT !.status = outcome, !.owner = NoWorker,
                                 !.left = NoTime, !.created = NoTime, !.age = 0]
<1>0. jobs[j] \in JobRow
  BY DEF IInv, TypeOK
<1>1. jobs' = [jobs EXCEPT ![j] = r]
  BY DEF Finish, Record
<1>2. r.status = outcome
  BY <1>0 DEF JobRow
<1>. HIDE DEF r
<1>3. PhaseOf' = [PhaseOf EXCEPT ![j] = outcome]
  BY <1>1, <1>2, PhaseUpdate
<1>4. outbox \in [Jobs -> OutboxRow] /\ outbox[j].outcome = "none"
  BY DEF Finish, IInv, TypeOK, OutboxTellsTheOutcome, Pending, Leased, Terminal
<1>5. AnnouncedOf[j] = "none" /\ AnnouncedOf' = [AnnouncedOf EXCEPT ![j] = outcome]
  BY <1>4 DEF Finish, Record, AnnouncedOf
<1>6. PhaseOf[j] = expected
  BY DEF Finish, PhaseOf
<1>7. Lifecycle!Conclude(j, outcome)
  BY <1>3, <1>5, <1>6 DEF Lifecycle!Conclude
<1>. QED BY <1>7 DEF Lifecycle!Next, Lifecycle!Outcomes, Terminal

(* Retention forgets a set of finished, announced jobs at once.            *)
LEMMA CleanupMaps ==
  ASSUME IInv, CleanupTerminal
  PROVE  Lifecycle!Next
<1>. DEFINE gone == {j \in Jobs : Old(j) /\ outbox[j].published}
<1>1. \A j \in Jobs : Old(j) => Status(j) \in Terminal /\ outbox[j].outcome = Status(j)
  BY OldHasOutcome
<1>2. /\ outbox' = [j \in Jobs |-> IF j \in gone THEN NoEvent ELSE outbox[j]]
      /\ jobs' = [j \in Jobs |-> IF j \in gone THEN NoRow("purged") ELSE jobs[j]]
  BY <1>1 DEF CleanupTerminal, Terminal
<1>3. gone \in SUBSET Jobs /\ \A j \in gone : Old(j)
  OBVIOUS
<1>. HIDE DEF gone
<1>4. \A j \in gone : PhaseOf[j] \in Lifecycle!Outcomes /\ AnnouncedOf[j] = PhaseOf[j]
  BY <1>1, <1>3 DEF PhaseOf, AnnouncedOf, Lifecycle!Outcomes, Terminal
<1>5. PhaseOf' = [j \in Jobs |-> IF j \in gone THEN "purged" ELSE PhaseOf[j]]
  BY <1>2 DEF PhaseOf, Status, NoRow
<1>6. AnnouncedOf' = [j \in Jobs |-> IF j \in gone THEN "none" ELSE AnnouncedOf[j]]
  BY <1>2 DEF AnnouncedOf, NoEvent
<1>7. Lifecycle!Forget(gone)
  BY <1>4, <1>5, <1>6 DEF Lifecycle!Forget
<1>. QED BY <1>3, <1>7 DEF Lifecycle!Next

LEMMA StepMaps == IInv /\ [Next]_vars => [Lifecycle!Next]_<<PhaseOf, AnnouncedOf>>
<1>. SUFFICES ASSUME IInv, Next PROVE [Lifecycle!Next]_<<PhaseOf, AnnouncedOf>>
  BY DEF vars, PhaseOf, AnnouncedOf, Status
<1>0. jobs \in [Jobs -> JobRow]
  BY DEF IInv, TypeOK
<1>1. ASSUME NEW j \in Jobs, CreateJob(j) PROVE Lifecycle!Next
  <2>0. PICK c \in 0 .. Cardinality(Jobs) : /\ jobs' = [jobs EXCEPT ![j] = [NoRow("queued") EXCEPT !.created = c]]
                                           /\ UNCHANGED <<outbox, consumed>>
    BY <1>1 DEF CreateJob, Insert
  <2>. DEFINE r == [NoRow("queued") EXCEPT !.created = c]
  <2>1. r.status = "queued"
    BY DEF NoRow
  <2>. HIDE DEF r
  <2>2. jobs' = [jobs EXCEPT ![j] = r] /\ outbox' = outbox /\ Status(j) = "absent"
    BY <1>1, <2>0 DEF CreateJob, r
  <2>3. Lifecycle!Accept(j)
    BY <2>1, <2>2, MoveMaps DEF Lifecycle!Accept
  <2>. QED BY <2>3 DEF Lifecycle!Next
<1>2. ASSUME NEW j \in Jobs, NEW w \in Workers, ClaimNext(j, w) PROVE Lifecycle!Next
  <2>. DEFINE r == [jobs[j] EXCEPT !.status = "running", !.owner = w,
                                   !.left = LeaseTime]
  <2>1. r.status = "running"
    BY <1>0 DEF JobRow
  <2>. HIDE DEF r
  <2>2. jobs' = [jobs EXCEPT ![j] = r] /\ outbox' = outbox /\ Status(j) = "queued"
    BY <1>2 DEF ClaimNext, OldestQueued, QueuedFor, r
  <2>3. Lifecycle!Start(j)
    BY <2>1, <2>2, MoveMaps DEF Lifecycle!Start
  <2>. QED BY <2>3 DEF Lifecycle!Next
<1>3. ASSUME NEW j \in Jobs, NEW w \in Workers, RenewLease(j, w)
      PROVE  UNCHANGED <<PhaseOf, AnnouncedOf>>
  BY <1>0, <1>3 DEF RenewLease, PhaseOf, AnnouncedOf, Status, JobRow
<1>4. ASSUME NEW j \in Jobs, NEW w \in Workers,
             \/ FinishSuccess(j, w) \/ FinishFailure(j, w)
             \/ FinishTimedOut(j, w) \/ FinishCancelled(j, w)
      PROVE  Lifecycle!Next
  BY <1>4, FinishMaps DEF FinishSuccess, FinishFailure, FinishTimedOut, FinishCancelled,
     FinishAs, Lifecycle!MayEndAs, Pending, Leased, Terminal
<1>5. ASSUME NEW j \in Jobs, NEW s \in Sessions, RequestCancel(j, s) PROVE Lifecycle!Next
  <2>1. CASE Finish(j, "queued", "cancelled")
    BY <2>1, FinishMaps DEF Lifecycle!MayEndAs, Pending, Terminal
  <2>2. CASE /\ Status(j) = "running"
             /\ jobs' = [jobs EXCEPT ![j] = [@ EXCEPT !.status = "cancel_requested"]]
             /\ UNCHANGED <<outbox, consumed>>
    <3>. DEFINE r == [jobs[j] EXCEPT !.status = "cancel_requested"]
    <3>1. r.status = "cancel_requested"
      BY <1>0 DEF JobRow
    <3>. HIDE DEF r
    <3>2. jobs' = [jobs EXCEPT ![j] = r] /\ outbox' = outbox
      BY <2>2 DEF r
    <3>3. Lifecycle!AskToStop(j)
      BY <2>2, <3>1, <3>2, MoveMaps DEF Lifecycle!AskToStop
    <3>. QED BY <3>3 DEF Lifecycle!Next
  <2>. QED BY <1>5, <2>1, <2>2 DEF RequestCancel
<1>6. ASSUME NEW j \in Jobs, NEW b \in BOOLEAN, RecoverExpired(j, b) PROVE Lifecycle!Next
  <2>1. CASE Finish(j, "cancel_requested", "cancelled") \/ Finish(j, "running", "failed")
    BY <2>1, FinishMaps DEF Lifecycle!MayEndAs, Pending, Leased, Terminal
  <2>2. CASE /\ Status(j) = "running"
             /\ jobs' = [jobs EXCEPT ![j] = [@ EXCEPT !.status = "queued",
                                                      !.owner  = NoWorker,
                                                      !.left = NoTime]]
             /\ UNCHANGED <<outbox, consumed>>
    <3>. DEFINE r == [jobs[j] EXCEPT !.status = "queued", !.owner = NoWorker,
                                     !.left = NoTime]
    <3>1. r.status = "queued"
      BY <1>0 DEF JobRow
    <3>. HIDE DEF r
    <3>2. jobs' = [jobs EXCEPT ![j] = r] /\ outbox' = outbox
      BY <2>2 DEF r
    <3>3. Lifecycle!Requeue(j)
      BY <2>2, <3>1, <3>2, MoveMaps DEF Lifecycle!Requeue
    <3>. QED BY <3>3 DEF Lifecycle!Next
  <2>. QED BY <1>6, <2>1, <2>2 DEF RecoverExpired
<1>7. ASSUME NEW j \in Jobs, ConsumeOnce(j) \/ MarkOutboxPublished(j)
      PROVE  UNCHANGED <<PhaseOf, AnnouncedOf>>
  BY <1>7 DEF ConsumeOnce, MarkOutboxPublished, PhaseOf, AnnouncedOf, Status, IInv, TypeOK,
     OutboxRow
<1>8. CASE Tick
  BY <1>8, TickMovesTime DEF Tick, PhaseOf, AnnouncedOf
<1>. QED BY <1>1, <1>2, <1>3, <1>4, <1>5, <1>6, <1>7, <1>8, CleanupMaps DEF Next, WorkerStep

(* The store implements the life cycle: outcomes are final, a cancel       *)
(* request that came first can only end in "cancelled", and the outcome is *)
(* announced once, in the step that decides it (design 7.2 and 7.3).       *)
THEOREM Refinement == Spec => ImplementsLifecycle
<1>1. Init => Lifecycle!Init
  BY DEF Init, Lifecycle!Init, PhaseOf, AnnouncedOf, Status, NoRow, NoEvent
<1>. QED BY <1>1, StepMaps, InductiveInvariant, PTL
        DEF Spec, ImplementsLifecycle, Lifecycle!Spec

-----------------------------------------------------------------------------
(* Two promises about single steps.                                        *)

LEMMA LeaseStep ==
  ASSUME IInv, Next, NEW k \in Jobs, Status(k) \in Leased, jobs[k].left > 0
  PROVE  jobs'[k].owner = jobs[k].owner \/ Status(k)' \in Terminal
<1>0. jobs \in [Jobs -> JobRow] /\ NullsFit(jobs[k])
  BY DEF IInv, TypeOK
<1>1. ASSUME NEW j \in Jobs, CreateJob(j) PROVE jobs'[k] = jobs[k]
  BY <1>0, <1>1 DEF CreateJob, Insert, Leased, Status
<1>2. ASSUME NEW j \in Jobs, NEW w \in Workers, ClaimNext(j, w) PROVE jobs'[k] = jobs[k]
  BY <1>0, <1>2 DEF ClaimNext, OldestQueued, QueuedFor, Leased, Status
<1>3. ASSUME NEW j \in Jobs, NEW w \in Workers, RenewLease(j, w)
      PROVE  jobs'[k].owner = jobs[k].owner
  BY <1>0, <1>3 DEF RenewLease, JobRow
<1>4. ASSUME NEW j \in Jobs, NEW outcome \in Terminal, Record(j, outcome)
      PROVE  jobs'[k] = jobs[k] \/ Status(k)' \in Terminal
  BY <1>0, <1>4 DEF Record, JobRow, Status
<1>5. ASSUME NEW j \in Jobs, NEW s \in Sessions, RequestCancel(j, s)
      PROVE  jobs'[k].owner = jobs[k].owner \/ Status(k)' \in Terminal
  <2>1. CASE Finish(j, "queued", "cancelled")
    BY <1>4, <2>1 DEF Finish, Terminal
  <2>2. CASE jobs' = [jobs EXCEPT ![j] = [@ EXCEPT !.status = "cancel_requested"]]
    BY <1>0, <2>2 DEF JobRow
  <2>. QED BY <1>5, <2>1, <2>2 DEF RequestCancel
<1>6. ASSUME NEW j \in Jobs, NEW b \in BOOLEAN, RecoverExpired(j, b)
      PROVE  jobs'[k] = jobs[k]
  <2>1. j # k
    BY <1>0, <1>6 DEF RecoverExpired, Expired, NullsFit, JobRow, NoTime, Status
  <2>. QED BY <1>0, <1>6, <2>1 DEF RecoverExpired, Finish, Record
<1>7. CASE CleanupTerminal
  <2>1. ~Old(k)
    BY OldHasOutcome DEF Leased, Terminal
  <2>. QED BY <1>7, <2>1 DEF CleanupTerminal
<1>8. CASE \E j \in Jobs : ConsumeOnce(j) \/ MarkOutboxPublished(j)
  BY <1>8 DEF ConsumeOnce, MarkOutboxPublished
<1>9. CASE Tick
  BY <1>9, TickMovesTime
<1>. QED BY <1>1, <1>2, <1>3, <1>4, <1>5, <1>6, <1>7, <1>8, <1>9 DEF Next, WorkerStep,
            FinishSuccess, FinishFailure, FinishTimedOut, FinishCancelled, FinishAs, Finish,
            Terminal

(* While a lease is valid, no other worker and no recovery gets the job.   *)
THEOREM LeaseExcludesOthers == Spec => ValidLeaseIsExclusive
<1>. DEFINE Stays == \A j \in Jobs : Status(j) \in Leased /\ jobs[j].left > 0
                       => jobs'[j].owner = jobs[j].owner \/ Status(j)' \in Terminal
<1>1. IInv /\ [Next]_vars => [Stays]_vars
  BY LeaseStep DEF vars
<1>. QED BY <1>1, InductiveInvariant, PTL DEF Spec, ValidLeaseIsExclusive

(* A row leaves the file only in cleanup_terminal, which asks for its      *)
(* outcome, its age and the mark in the outbox.                            *)
LEMMA PurgeStep ==
  ASSUME IInv, Next, NEW k \in Jobs, Exists(k), ~Exists(k)'
  PROVE  Status(k) \in Terminal /\ outbox[k].published /\ Old(k) /\ k \notin consumed'
<1>0. jobs \in [Jobs -> JobRow] /\ jobs[k].status = Status(k)
  BY DEF IInv, TypeOK, Status
<1>1. \A j \in Jobs, o \in Terminal : ~Record(j, o)
  BY <1>0 DEF Record, JobRow, Status, Exists, Terminal
<1>2. \A j \in Jobs, w \in Workers : ~ClaimNext(j, w) /\ ~RenewLease(j, w)
  <2>1. \A j \in Jobs, w \in Workers : ~ClaimNext(j, w)
    BY <1>0 DEF ClaimNext, JobRow, Status, Exists
  <2>2. ASSUME NEW j \in Jobs, NEW w \in Workers, RenewLease(j, w)
        PROVE  jobs'[k].status = jobs[k].status
    <3>1. jobs' = [jobs EXCEPT ![j] = [jobs[j] EXCEPT !.left = LeaseTime]]
      BY <2>2 DEF RenewLease
    <3>2. [jobs[j] EXCEPT !.left = LeaseTime].status = jobs[j].status
      BY <1>0 DEF JobRow
    <3>. QED BY <1>0, <3>1, <3>2
  <2>. QED BY <2>1, <2>2 DEF Status, Exists
<1>3. \A j \in Jobs, s \in Sessions : ~RequestCancel(j, s)
  BY <1>0, <1>1 DEF RequestCancel, Finish, JobRow, Status, Exists, Terminal
<1>4. \A j \in Jobs, b \in BOOLEAN : ~RecoverExpired(j, b)
  BY <1>0, <1>1 DEF RecoverExpired, Finish, JobRow, Status, Exists, Terminal
<1>5. \A j \in Jobs : ~CreateJob(j) /\ ~ConsumeOnce(j) /\ ~MarkOutboxPublished(j)
  BY <1>0 DEF CreateJob, Insert, NoRow, ConsumeOnce, MarkOutboxPublished, Status, Exists
<1>6. ~Tick
  BY TickMovesTime DEF Exists
<1>7. CleanupTerminal
  BY <1>1, <1>2, <1>3, <1>4, <1>5, <1>6 DEF Next, WorkerStep, FinishSuccess, FinishFailure,
     FinishTimedOut, FinishCancelled, FinishAs, Finish, Terminal
<1>8. Old(k) /\ Status(k) \in Terminal /\ outbox[k].outcome # "none"
  <2>1. Old(k)
    BY <1>7 DEF CleanupTerminal, Status, Exists
  <2>. QED BY <2>1, OldHasOutcome DEF Terminal
<1>9. outbox[k].published /\ k \notin consumed'
  BY <1>7, <1>8 DEF CleanupTerminal, Status, Exists
<1>. QED BY <1>8, <1>9

(* Only create_job brings a row to the file, and not beside another row of *)
(* its call.                                                               *)
LEMMA ReplayStep ==
  ASSUME IInv, Next, NEW j \in Jobs, Exists(j), NEW k \in Jobs, SameKey(j, k), ~Exists(k)
  PROVE  ~Exists(k)'
<1>1. ASSUME NEW i \in Jobs, CreateJob(i) PROVE ~Exists(k)'
  <2>1. SameKey(i, j) => FALSE
    BY <1>1 DEF CreateJob
  <2>2. i # k
    BY <2>1 DEF SameKey, SessionOf
  <2>. QED BY <1>1, <2>2, CreateAddsOne DEF Exists
<1>. QED BY <1>1, NothingElseCreates

(* For any jobs, sessions, workers and retention: a call has one job as    *)
(* long as that is on file, and only a finished, published and old job     *)
(* leaves it, with its consumption record.                                 *)
THEOREM ReplaysFindTheirJob == Spec => CallsKeepTheirJob
<1>. DEFINE Keeps == \A j \in Jobs : Exists(j) =>
                       /\ \A k \in Jobs : SameKey(j, k) /\ ~Exists(k) => ~Exists(k)'
                       /\ \/ Exists(j)'
                          \/ /\ Status(j) \in Terminal /\ outbox[j].published /\ Old(j)
                             /\ j \notin consumed'
<1>1. IInv /\ [Next]_vars => [Keeps]_vars
  BY PurgeStep, ReplayStep
<1>. QED BY <1>1, InductiveInvariant, PTL DEF Spec, CallsKeepTheirJob
=============================================================================
