----------------------------- MODULE Completion -----------------------------
(***************************************************************************)
(* The way of a job's outcome to the parent: CompletionOutboxWorker reads  *)
(* the outbox, the EventBus carries the event to CompletionRouter, which   *)
(* does nothing (poll), notifies the parent's user, or resumes the parent, *)
(* and the reply goes back over the bus to DeliveryWorker.                 *)
(*                                                                         *)
(* One asyncio process.  The bus handles one event at a time and waits for *)
(* its handlers; the outbox worker goes on meanwhile.  The database, the   *)
(* pending files of the bus and the transcripts survive a crash; its queue *)
(* does not.  Where the code runs on without an await but writes to disk   *)
(* twice, there is a stage between the writes that only a crash can use.   *)
(* A stop of the server counts as a crash: the bus is stopped first and    *)
(* its queue is dropped.  Other events on the bus only delay these.        *)
(* Retention (DispatchJobs) leaves alone what is not routed, and is not    *)
(* repeated here.                                                          *)
(***************************************************************************)
EXTENDS Integers, FiniteSets, Sequences

CONSTANTS
  N,             \* how many jobs end; job j is the j-th to end
  Mode,          \* Mode[j]: the completion_mode of job j
  Window,        \* the LIMIT of pending_outbox
  MaxAttempts,   \* outbox_max_attempts
  MaxRetries,    \* MAX_RETRIES of the delivery worker
  Orphans,       \* jobs whose parent agent or session cannot be loaded
  Homeless,      \* jobs whose parent session has no platform to reply to
  Endings,       \* which of AllEndings a parent turn may have
  MaxCrashes,    \* bound: crashes and stops
  MaxFailures    \* bound: failing turns and failing deliveries

Jobs == 1 .. N

(* The final message is saved in the parent's transcript; in another one,  *)
(* for the context was compacted and the session rolled; or nowhere, for   *)
(* the turn was cut at max_tool_rounds_per_turn.                           *)
AllEndings == {"recorded", "rolled", "limit"}

ASSUME CompletionAssumption ==
  /\ N \in Nat
  /\ Mode \in [Jobs -> {"poll", "notify", "resume_parent"}]
  /\ Window \in Nat \ {0}
  /\ MaxAttempts \in Nat \ {0}       \* Field(ge=1)
  /\ MaxRetries \in Nat \ {0}
  /\ Orphans \subseteq Jobs
  /\ Homeless \subseteq Jobs
  /\ Endings \subseteq AllEndings
  /\ MaxCrashes \in Nat
  /\ MaxFailures \in Nat

VARIABLES
  ended,         \* the outbox has rows for jobs 1 .. ended
  attempts,      \* attempts[j]: attempt_count of the row
  waiting,       \* the rows whose next_attempt_at is in the future
  published,     \* the rows with a published_at
  consumed,      \* the events in dispatch_consumers
  transcript,    \* transcript[j]: what the parent's history says of the event
  files,         \* the outbound events in the bus's pending_dir
  up,            \* the process lives
  queue,         \* the queue of the bus
  bus,           \* what the bus is handling
  todo,          \* the files _recover has still to hand out
  turns,         \* turns[j]: parent turns completed for the event
  replies,       \* replies[j]: how often the whole reply was sent
  partial,         \* partial[j]: tries that ended early, some of it seen
  dropped,       \* the replies given up after MAX_RETRIES
  crashes,       \* how many crashes happened
  failures       \* how many turns and deliveries failed

outboxVars == <<ended, attempts, waiting>>
routed     == <<published, consumed>>
told       == <<transcript, turns>>
delivery   == <<files, replies, partial, dropped>>
vars == <<ended, attempts, waiting, published, consumed, transcript, files, up, queue,
          bus, todo, turns, replies, partial, dropped, crashes, failures>>

(* calls, results: the synthetic assistant and tool messages; answered: a  *)
(* message with resume_completed.                                          *)
Transcript == [calls : Nat, results : Nat, answered : BOOLEAN]
Event      == [kind : {"completed", "outbound"}, job : Jobs]

(* resuming: for the agent's gate and the session's lock; calling: between *)
(* the two synthetic messages; turn: the model turn; answered: before      *)
(* consume_once; marking: before mark_outbox_published; acking: before the *)
(* file is deleted.                                                        *)
Stages == {"idle", "resuming", "calling", "turn", "answered", "marking", "delivering", "acking"}
Idle   == [stage |-> "idle", job |-> 0, tries |-> 0]
At(stage, j) == [stage |-> stage, job |-> j, tries |-> 0]

(* No await from here on: only a crash comes in between. *)
Uninterrupted == {"calling", "answered", "marking", "acking"}
Awake == up /\ bus.stage \notin Uninterrupted

Completed(j) == [kind |-> "completed", job |-> j]
Outbound(j)  == [kind |-> "outbound", job |-> j]

Init ==
  /\ ended = 0
  /\ attempts = [j \in Jobs |-> 0]
  /\ waiting = {} /\ published = {} /\ consumed = {} /\ files = {} /\ dropped = {}
  /\ transcript = [j \in Jobs |-> [calls |-> 0, results |-> 0, answered |-> FALSE]]
  /\ up = TRUE
  /\ queue = <<>> /\ bus = Idle /\ todo = {}
  /\ turns = [j \in Jobs |-> 0]
  /\ replies = [j \in Jobs |-> 0]
  /\ partial = [j \in Jobs |-> 0]
  /\ crashes = 0 /\ failures = 0

-----------------------------------------------------------------------------
(* The outbox.                                                             *)

(* A job reaches its outcome: its row is written, due at once. *)
JobEnds ==
  /\ Awake /\ ended < N
  /\ ended' = ended + 1
  /\ UNCHANGED <<attempts, waiting, routed, told, delivery, up, queue, bus, todo, crashes, failures>>

Due == (1 .. ended) \ (published \cup waiting)

(* The rows pending_outbox returns: the oldest due ones.  A row without    *)
(* attempts left is still among them.                                      *)
PendingOutbox == {j \in Due : Cardinality({k \in Due : k < j}) < Window}

(* Broken on purpose: a published event counts as delivered. *)
PublishAsDelivered(j) ==
  /\ Awake
  /\ j \in PendingOutbox /\ attempts[j] < MaxAttempts
  /\ queue' = Append(queue, Completed(j))
  /\ attempts' = [attempts EXCEPT ![j] = @ + 1]
  /\ published' = published \cup {j}
  /\ UNCHANGED <<ended, waiting, consumed, told, delivery, up, bus, todo, crashes, failures>>

(* One row of _publish_pending: publish, then mark_outbox_failed, which    *)
(* counts the attempt and sets the backoff whatever comes of the event.    *)
Publish(j) ==
  /\ Awake
  /\ j \in PendingOutbox /\ attempts[j] < MaxAttempts
  /\ queue' = Append(queue, Completed(j))
  /\ attempts' = [attempts EXCEPT ![j] = @ + 1]
  /\ waiting' = waiting \cup {j}
  /\ UNCHANGED <<ended, routed, told, delivery, up, bus, todo, crashes, failures>>

(* next_attempt_at passes. *)
BackoffOver(j) ==
  /\ j \in waiting
  /\ waiting' = waiting \ {j}
  /\ UNCHANGED <<ended, attempts, routed, told, delivery, up, queue, bus, todo, crashes, failures>>

-----------------------------------------------------------------------------
(* The router, inside the bus.                                             *)

Quiet == UNCHANGED <<outboxVars, up, crashes>>

Take(event) ==
  /\ up /\ bus = Idle /\ todo = {}
  /\ queue # <<>> /\ Head(queue) = event

(* handle_event of an event whose consumption is on file. *)
SeenBefore(j) ==
  /\ Take(Completed(j))
  /\ j \in consumed
  /\ published' = published \cup {j}
  /\ queue' = Tail(queue)
  /\ UNCHANGED <<consumed, told, delivery, bus, todo, failures>> /\ Quiet

(* poll and notify: the reply, if any, is queued in memory, then the       *)
(* consumption is recorded.                                                *)
RouteDirectly(j) ==
  /\ Take(Completed(j))
  /\ j \notin consumed /\ Mode[j] # "resume_parent"
  /\ queue' = IF Mode[j] = "notify" THEN Append(Tail(queue), Outbound(j)) ELSE Tail(queue)
  /\ consumed' = consumed \cup {j}
  /\ bus' = At("marking", j)
  /\ UNCHANGED <<published, told, delivery, todo, failures>> /\ Quiet

Resume(j) ==
  /\ Take(Completed(j))
  /\ j \notin consumed /\ Mode[j] = "resume_parent"
  /\ queue' = Tail(queue)
  /\ bus' = At("resuming", j)
  /\ UNCHANGED <<routed, told, delivery, todo, failures>> /\ Quiet

(* The agent's definition or the session is gone: the handler raises, and  *)
(* the bus logs it and goes on.                                            *)
ResumeOrphan(j) ==
  /\ up /\ bus = At("resuming", j) /\ j \in Orphans
  /\ bus' = Idle
  /\ UNCHANGED <<routed, told, delivery, queue, todo, failures>> /\ Quiet

(* Broken on purpose: the history is not searched for the two messages. *)
LookUpNothing(j) ==
  /\ up /\ bus = At("resuming", j) /\ j \notin Orphans
  /\ IF transcript[j].answered
     THEN bus' = At("answered", j) /\ UNCHANGED transcript
     ELSE /\ bus' = At("calling", j)
          /\ transcript' = [transcript EXCEPT ![j].calls = @ + 1]
  /\ UNCHANGED <<routed, turns, delivery, queue, todo, failures>> /\ Quiet

(* Broken on purpose: the answer on file is not used again. *)
LookUpMessages(j) ==
  /\ up /\ bus = At("resuming", j) /\ j \notin Orphans
  /\ \/ /\ transcript[j].calls > 0
        /\ bus' = At("turn", j)
        /\ UNCHANGED transcript
     \/ /\ transcript[j].calls = 0
        /\ bus' = At("calling", j)
        /\ transcript' = [transcript EXCEPT ![j].calls = @ + 1]
  /\ UNCHANGED <<routed, turns, delivery, queue, todo, failures>> /\ Quiet

(* resume_with_dispatch_result up to its first await.  An answer on file   *)
(* is used again; a synthetic message on file is not written again.        *)
LookUp(j) ==
  /\ up /\ bus = At("resuming", j) /\ j \notin Orphans
  /\ \/ /\ transcript[j].answered
        /\ bus' = At("answered", j)
        /\ UNCHANGED transcript
     \/ /\ ~transcript[j].answered /\ transcript[j].calls > 0
        /\ bus' = At("turn", j)
        /\ UNCHANGED transcript
     \/ /\ ~transcript[j].answered /\ transcript[j].calls = 0
        /\ bus' = At("calling", j)
        /\ transcript' = [transcript EXCEPT ![j].calls = @ + 1]
  /\ UNCHANGED <<routed, turns, delivery, queue, todo, failures>> /\ Quiet

(* The second synthetic message, with the child's result. *)
AddResult(j) ==
  /\ up /\ bus = At("calling", j)
  /\ bus' = At("turn", j)
  /\ transcript' = [transcript EXCEPT ![j].results = @ + 1]
  /\ UNCHANGED <<routed, turns, delivery, queue, todo, failures>> /\ Quiet

(* _run_turn returns: the last message is saved, here or elsewhere. *)
TurnEnds(j, ending) ==
  /\ up /\ bus = At("turn", j)
  /\ turns' = [turns EXCEPT ![j] = @ + 1]
  /\ transcript' = IF ending = "recorded"
                   THEN [transcript EXCEPT ![j].answered = TRUE] ELSE transcript
  /\ bus' = At("answered", j)
  /\ UNCHANGED <<routed, delivery, queue, todo, failures>> /\ Quiet

(* The model or a save raises: nothing is consumed, a retry comes from the *)
(* outbox.                                                                 *)
TurnFails(j) ==
  /\ up /\ bus = At("turn", j) /\ failures < MaxFailures
  /\ failures' = failures + 1
  /\ bus' = Idle
  /\ UNCHANGED <<routed, told, delivery, queue, todo>> /\ Quiet

(* Broken on purpose: the consumption is not recorded. *)
RouteAnswerUnrecorded(j) ==
  /\ up /\ bus = At("answered", j)
  /\ queue' = Append(queue, Outbound(j))
  /\ bus' = At("marking", j)
  /\ UNCHANGED <<routed, told, delivery, todo, failures>> /\ Quiet

(* The parent's answer is queued, then the consumption is recorded. *)
RouteAnswer(j) ==
  /\ up /\ bus = At("answered", j)
  /\ queue' = Append(queue, Outbound(j))
  /\ consumed' = consumed \cup {j}
  /\ bus' = At("marking", j)
  /\ UNCHANGED <<published, told, delivery, todo, failures>> /\ Quiet

(* mark_outbox_published. *)
MarkPublished(j) ==
  /\ up /\ bus = At("marking", j)
  /\ published' = published \cup {j}
  /\ bus' = Idle
  /\ UNCHANGED <<consumed, told, delivery, queue, todo, failures>> /\ Quiet

-----------------------------------------------------------------------------
(* Delivery, inside the bus.                                               *)

(* _persist_outbound, then the delivery worker is called. *)
TakeOutbound(j) ==
  /\ Take(Outbound(j))
  /\ queue' = Tail(queue)
  /\ files' = files \cup {j}
  /\ bus' = At("delivering", j)
  /\ UNCHANGED <<routed, told, replies, partial, dropped, todo, failures>> /\ Quiet

(* _recover hands out the files of the last process, in any order. *)
Recover(j) ==
  /\ up /\ bus = Idle /\ j \in todo
  /\ todo' = todo \ {j}
  /\ bus' = At("delivering", j)
  /\ UNCHANGED <<routed, told, delivery, queue, failures>> /\ Quiet

Delivering(j) == up /\ bus.stage = "delivering" /\ bus.job = j

(* No source, or none with a platform: left for the next start. *)
SkipDelivery(j) ==
  /\ Delivering(j) /\ j \in Homeless
  /\ bus' = Idle
  /\ UNCHANGED <<routed, told, delivery, queue, todo, failures>> /\ Quiet

(* All chunks are out. *)
Deliver(j) ==
  /\ Delivering(j) /\ j \notin Homeless
  /\ replies' = [replies EXCEPT ![j] = @ + 1]
  /\ bus' = At("acking", j)
  /\ UNCHANGED <<routed, told, files, partial, dropped, queue, todo, failures>> /\ Quiet

(* An attempt of _deliver_with_retry fails, at its first chunk or after    *)
(* some of the reply was seen: the next attempt sends all of it again.     *)
(* The last attempt drops the reply.                                       *)
DeliveryFails(j) ==
  /\ Delivering(j) /\ j \notin Homeless /\ failures < MaxFailures
  /\ failures' = failures + 1
  /\ partial' = partial \/ partial' = [partial EXCEPT ![j] = @ + 1]
  /\ IF bus.tries + 1 < MaxRetries
     THEN bus' = [bus EXCEPT !.tries = @ + 1] /\ UNCHANGED dropped
     ELSE bus' = At("acking", j) /\ dropped' = dropped \cup {j}
  /\ UNCHANGED <<routed, told, files, replies, queue, todo>> /\ Quiet

Ack(j) ==
  /\ up /\ bus = At("acking", j)
  /\ files' = files \ {j}
  /\ bus' = Idle
  /\ UNCHANGED <<routed, told, replies, partial, dropped, queue, todo, failures>> /\ Quiet

-----------------------------------------------------------------------------
(* Some of a reply that was being sent may have been seen. *)
Crash ==
  /\ up /\ crashes < MaxCrashes
  /\ \/ partial' = partial
     \/ /\ bus.stage = "delivering" /\ bus.job \notin Homeless
        /\ partial' = [partial EXCEPT ![bus.job] = @ + 1]
  /\ crashes' = crashes + 1
  /\ up' = FALSE
  /\ queue' = <<>> /\ bus' = Idle /\ todo' = {}
  /\ UNCHANGED <<outboxVars, routed, told, files, replies, dropped, failures>>

Start ==
  /\ ~up
  /\ up' = TRUE
  /\ todo' = files
  /\ UNCHANGED <<outboxVars, routed, told, delivery, queue, bus, crashes, failures>>

BusStep(j) ==
  \/ SeenBefore(j) \/ RouteDirectly(j)
  \/ Resume(j) \/ ResumeOrphan(j) \/ LookUp(j) \/ AddResult(j)
  \/ \E ending \in Endings : TurnEnds(j, ending)
  \/ TurnFails(j) \/ RouteAnswer(j) \/ MarkPublished(j)
  \/ TakeOutbound(j) \/ Recover(j) \/ SkipDelivery(j)
  \/ Deliver(j) \/ DeliveryFails(j) \/ Ack(j)

Next ==
  \/ JobEnds \/ Crash \/ Start
  \/ \E j \in Jobs : Publish(j) \/ BackoffOver(j) \/ BusStep(j)

Spec == Init /\ [][Next]_vars

(* A stopped service is started again; the outbox worker scans every       *)
(* scan_interval_seconds; the bus works off its queue, and a handler comes *)
(* back: a turn has at most max_tool_rounds_per_turn rounds, a delivery    *)
(* MAX_RETRIES tries, and calls to model and channel are taken to return.  *)
Fairness ==
  /\ WF_vars(Start)
  /\ \A j \in Jobs : WF_vars(Publish(j)) /\ WF_vars(BackoffOver(j))
  /\ WF_vars(\E j \in Jobs : BusStep(j))

FairSpec == Spec /\ Fairness

-----------------------------------------------------------------------------
TypeOK ==
  /\ ended \in 0 .. N
  /\ attempts \in [Jobs -> 0 .. MaxAttempts]
  /\ waiting \subseteq 1 .. ended
  /\ published \subseteq consumed /\ consumed \subseteq 1 .. ended
  /\ transcript \in [Jobs -> Transcript]
  /\ up \in BOOLEAN
  /\ queue \in Seq(Event)
  /\ bus \in [stage : Stages, job : Jobs \cup {0}, tries : 0 .. MaxRetries - 1]
  /\ files \subseteq consumed /\ todo \subseteq files
  /\ turns \in [Jobs -> Nat] /\ replies \in [Jobs -> Nat] /\ partial \in [Jobs -> Nat]
  /\ dropped \subseteq Jobs
  /\ crashes \in 0 .. MaxCrashes /\ failures \in 0 .. MaxFailures

(* The consumption of an event is recorded only when its handling is on    *)
(* disk: for a resumed parent, after a whole turn.  Whatever fails before  *)
(* that, the outbox will bring the event again (design 14.3).              *)
ConsumedAfterTurn ==
  \A j \in consumed : Mode[j] = "resume_parent" => turns[j] >= 1

(* However often the event comes back, after failed turns and crashes, the *)
(* parent's history shows the child's result at most once (design 13).     *)
ParentToldOnce == \A j \in Jobs : transcript[j].calls <= 1 /\ transcript[j].results <= 1

(* An event resumes its parent once (design 13).  It does not, when the    *)
(* last message was saved elsewhere and the process dies before the        *)
(* consumption is recorded (CompletionTwice.cfg).                          *)
ParentResumedOnce == \A j \in Jobs : turns[j] <= 1

(* What is true of it: the parent runs again only if none of its turns for *)
(* the event has left its answer in the parent's history, and each of them *)
(* was followed by a crash before the consumption was on file.  A retry of *)
(* the outbox, an event that comes again, a failed turn are no reasons.    *)
ParentRunsAgainForACause ==
  [][\A j \in Jobs :
       turns[j] > 0 /\ turns'[j] > turns[j]
         => ~transcript[j].answered /\ turns[j] <= crashes]_vars

(* A reply is sent again as a whole only because of a crash between the    *)
(* delivery and the deletion of its file, never because its event came     *)
(* again; and, with the tries that were cut short, each process lets the   *)
(* reader see it begin no more than MAX_RETRIES times.                     *)
RepliesRepeatForACause ==
  \A j \in Jobs : /\ replies[j] <= 1 + crashes
                 /\ replies[j] + partial[j] <= MaxRetries * (1 + crashes)

(* A reply that reached the disk is not lost: its file stays, whatever     *)
(* crashes, until the reply was delivered or given up.                     *)
FileOutlivesCrash ==
  [][\A j \in files \ files' : replies[j] > 0 \/ j \in dropped]_vars

(* A routed outcome is on its way or has arrived (design 5: completion is  *)
(* never lost once the job has ended).                                     *)
OnItsWay(j) ==
  \/ \E i \in 1 .. Len(queue) : queue[i] = Outbound(j)
  \/ j \in files
  \/ replies[j] > 0
  \/ j \in dropped

NotificationIsNotLost ==
  \A j \in consumed : Mode[j] # "poll" => OnItsWay(j)

(* The parent's turn sees a complete pair of synthetic messages (design    *)
(* 13): the call is never there without its result.                        *)
TurnSeesTheResult ==
  bus.stage = "turn" => transcript[bus.job].results = transcript[bus.job].calls

Settled(j) ==
  /\ j \in published
  /\ Mode[j] = "poll" \/ replies[j] > 0 \/ j \in dropped \/ j \in Homeless

(* The rows out of attempts fill the scan of the outbox. *)
ScanIsFull ==
  Cardinality({j \in (1 .. ended) \ published : attempts[j] = MaxAttempts}) >= Window

(* Every outcome but the orphans' is routed, and its reply delivered, given *)
(* up, or without an addressee.  A crash may take the reply from the bus,  *)
(* or an attempt; what is never excused is an outcome that has attempts    *)
(* and a place in the scan and stays where it is.                          *)
EveryOutcomeSettles ==
  \A j \in Jobs \ Orphans :
    j <= ended ~> \/ Settled(j)
                  \/ crashes > 0 /\ (j \in published \/ attempts[j] = MaxAttempts \/ ScanIsFull)

(* The outbox worker publishes what is unpublished (design 9.4): the jobs  *)
(* whose parents are there are routed, whatever becomes of the others.     *)
HealthyOutcomesAreRouted ==
  \A j \in Jobs \ Orphans : j <= ended ~> j \in published
=============================================================================
