# A verification of bbAgent

bbAgent (`src/`) is a chat-agent runtime: one asyncio process that receives
messages from platforms, runs agents on them, lets agents dispatch jobs to other
agents, and sends replies back. Its own logic that is hard to get right is the
asynchronous dispatch of jobs: a durable job store with leases, a worker that
survives crashes, and the path of an outcome back to the parent; and, around it,
which session a message goes to, how the turns of sessions share agents, and how a
reply reaches its reader. Beside it there is a research assistant
(`src/src/research_assistant/`) that keeps evidence in two stores. This
directory models that in TLA+, checks it with TLC and proves part of it with TLAPS. Source
paths below are relative to `src/src/mybot/` (those of the research assistant to
`src/src/research_assistant/`) unless they say otherwise; "design"
is `src/docs/ASYNC_SUBAGENT_DISPATCH_DESIGN.zh-CN.md`.

## 1. Inventory

| component | state it keeps | operations | what is hard | what makes it correct |
| --- | --- | --- | --- | --- |
| job store `core/dispatch_jobs.py` (repository) | SQLite: jobs, outbox, consumers | create, claim, renew, cancel, finish, recover, consume, publish, cleanup | races between cancel, completion, recovery, retention | one outcome with one record; leases exclude; quotas; a call keeps its job |
| job service, same file | snapshots, submitted turns, last polls (memory) | submit, status, cancel, list | stale snapshots, tables that are cut | a poll sees its owner's job and one state per turn |
| job worker `server/dispatch_worker.py` | `_tasks`, slots, worker id | scan, claim, execute, heartbeat, cancel, recover | crash, stop, stalled loop, lost events | live task = leased job; unsafe jobs run once; everything ends |
| completion path, same file, `core/agent.py` | outbox attempts, transcripts | publish, route, notify, resume | crash between two writes, repeated events | told once, run again for a cause only, nothing lost |
| event bus `core/eventbus.py` | queue (memory), pending files | publish, dispatch, persist, recover, ack | queue dies with the process; strictly sequential | a persisted reply is delivered or given up |
| delivery `server/delivery_worker.py` | cached sources | deliver, retry, chunk, drop | retry repeats chunks, cached absence | each chunk in order, none lost silently |
| sessions `core/agent.py`, `core/context.py`, `core/context_guard.py`, `server/agent_worker.py` | semaphores, session locks, messages | chat, resume, tool rounds, compaction | nested re-entrant locks, roll to a new session | turns of a session are serialised; no deadlock |
| history `core/history.py` | a file per session, an index | create, append, list | two writes per message | transcript and index agree |
| routing and config `core/routing.py`, `utils/config.py` | bindings, YAML files | resolve, bind, set, reload | memory and file differ | one session per source |
| server `server/server.py`, `server/worker.py` | worker tasks | start, monitor, stop | order of stopping | crashed workers come back |
| websocket `server/websocket_worker.py` | connections by source, source by connection | connect, message, send, disconnect | rebinding and failed sends between awaits | the two tables agree |
| CLI chat `cli/chat.py` | response queue | ask, show, time out | late answers, replies of another process | an answer is shown to its question |
| ACP `acp/server.py` | sessions, prompt tasks | load, prompt, cancel, close, end of input | overlapping prompts, cancels at any await | every prompt is answered, with what was stored |
| cron `server/cron_worker.py`, `core/cron_loader.py` | — | check a schedule, tick | drift, a job that fails before others | no minute is run twice |
| research service `service.py`, `claims.py`, ... | runs in flight | run, evaluate, repair, delete | errors, cancellation, threads that go on | rows are closed and final; reports are supported |
| research stores `repositories/sqlite.py`, `vectorstores/qdrant.py`, `rag.py` | runs, versions, index states; points | save, index, retrieve, delete | two stores written in turn, expiry | evidence is of its version and is found |
| channels, commands, skills, prompts, providers, telemetry | adapters | — | network and text | not modelled |

Components interact in three ways. Coroutines of the one process share the store
and the in-memory tables and interleave at their awaits; the event bus carries
events between workers, one at a time, waiting for the handlers; and what must
survive the process is in SQLite, the pending files of the bus and the history
files. PROJECT.json lists every component with its status and every hazard at its
line.

## 2. Modules

| module | models | extends / instantiates |
| --- | --- | --- |
| `JobLifecycle` | what the store promises of one job: the state diagram of design 7.2, one outcome, announced in the step that decides it | — |
| `DispatchJobs` | `DispatchJobRepository` | implements `JobLifecycle` (`ImplementsLifecycle`) |
| `DispatchWorker` | `DispatchJobWorker`, its callers, faults | `Store == INSTANCE DispatchJobs`: its steps on the database are those of the store by definition |
| `Completion` | `CompletionOutboxWorker`, `CompletionRouter`, resumption, `EventBus`, `DeliveryWorker` | — |
| `SessionGates` | turns under `agent_semaphore` and `session_lock`: `AgentWorker`, `AgentSession`, `ContextGuard`, the turns of `CompletionRouter` and `DispatchJobWorker` | — |
| `Routing` | `RoutingTable`, the sources of `Config`, `ClearCommand`, the callback of `ChannelWorker` | — |
| `DispatchService` | `DispatchJobService` and the subagent tools, turn by turn | `Life == INSTANCE JobLifecycle`: what the store promises is all it uses of it |
| `Replies` | `EventBus`, `DeliveryWorker`, the chat loop, start and end of the processes that share the pending directory | extends `WebSockets` |
| `WebSockets` | the tables of `WebSocketWorker` | — |
| `Acp` | `AcpJsonRpcServer`, `AcpRuntime` | — |
| `ResearchMemory` | `ResearchService.run` and `delete_memory` over `SqliteMemoryRepository` and the evidence index | — |
| `ResearchAnswer` | claims, verdicts, scores, the gate, repair and fallback (`claims.py`, `llm.py`, `service.py`) | operators only |
| `Retrieval` | related runs, queries, ranking, quotas, merging (`service.py`, `rag.py`, `query_rewriter.py`, `memory.py`) | operators only |
| `Chunking`, `CronSchedule`, `Bindings` | `chunk_text` and `chunk_message`; schedules and ticks; order of bindings | operators only |
| `AlgorithmChecks` | named assumptions about these operators over bounded inputs | the five above |
| `DispatchJobsProofs`, `DispatchWorkerProofs`, `SessionGatesProofs`, `ParentProofs` (of `DispatchService` and `Completion`), `RepliesProofs`, `AcpProofs`, `ResearchMemoryProofs`, `RoutingProofs` | theorems | the modules they name, TLAPS |
| `MC...` | values of the constants for TLC | |

### DispatchJobs

One action per repository operation: each holds the lock, has no await and
commits once. `jobs[j]` is the row of job `j` ("absent" before its insertion,
"purged" after its deletion), `outbox[j]` its completion record, `consumed` the
table `dispatch_consumers`. Operations that only refuse or return what is there
(a replayed call, a full queue, a cancel of a finished job) leave the store as it
was and are stuttering steps. Times are distances from `utc_now()`, which `Tick`
shifts: `left` of a lease, `age` of an outcome. `created_at` is a rank among the
pending rows, the only ones a claim compares, and may tie, so `ClaimNext` picks any of
the oldest. Callers are left free, so the results
hold for any caller in one process. `MarkOutboxPublished` asks nothing of the
consumption, as the code does not; that the router marks only what was consumed is in
`DispatchWorker` (`Route`) and `Completion`, and it is there that retention
is safe (`OnlyRoutedJobsArePurged`).

### DispatchWorker

`task[j][n]` is the asyncio task of the n-th attempt at job `j`: created, running,
or past its last write ("ending": it waits for its heartbeat). What runs between
two awaits is one action. `registry[j]` is the attempt behind `_tasks[j]`, and the
done callback pops it by job id, whoever is behind it, as the code does. A crash
drops tasks, heartbeats and the bus; a stop cancels what `_tasks` names and
waits. `doomed` is the job claimed for an agent whose definition does not load,
between its two transactions. `Tick` may pass only while heartbeats are on time
(they renew every third of a lease); `Stall` is the event loop being blocked past
the end of a lease, and `HeartbeatDies` a `renew_lease` that raises. Whether a
definition loads is free at every step.

### Completion

Job `j` is the `j`-th to end. The bus is in one stage: idle, in a parent's
resumption, or in a delivery. Where the code runs without an await but writes to
disk twice (consume_once and mark_outbox_published; the two synthetic messages;
the last message and consume_once; the delivery and the deletion of its file)
there is a stage that only `Crash` can use. `Publish` is one row of the outbox
scan: the attempt is counted when the event is queued. A parent turn ends
"recorded" in the parent's transcript, "rolled" into another session by
compaction, or cut at the "limit" of tool rounds. A delivery that fails, or is cut by
a crash, may have shown some of the reply (`partial`), and the next attempt sends all
of it again; `replies` counts those sent whole. In what order the chunks arrive is
in `Replies`. A stop of the server counts as
a crash, for the bus is stopped first and its queue goes with the process.

### SessionGates

A gate is one record: free places, the depth at which each asyncio task is inside,
and the tasks that wait. It stands for `ReentrantAsyncSemaphore` with
`asyncio.Semaphore` inside, and with one place for `ReentrantAsyncLock`
(`asyncio.Lock` hands over the same way: first come, first served, and a cancelled
waiter is passed by). `Frames(t)` lists the `async with` blocks of a turn from the
outside in: a message takes semaphore and lock in `exec_session` and both again in
`chat`; a resumption in `_resume_parent` and again in
`resume_with_dispatch_result`; a job takes the semaphore through
`asyncio.wait_for`, then both in `chat`. `entered[t]` says how many it has entered
or waits for. `WaitForTask` is the Python version: before 3.12 `wait_for` wraps its
coroutine in a task, so a job has three tasks. `DispatchWorker` and `Completion`
describe Python 3.12 and later, which CI uses.

`view[t]` is `state.messages`, `hist[s]` the transcript of a session; a message is
its turn and its kind. `Roll` and `Rolled` are `compact_and_roll` before and after
the call of the model: `state.session_id` changes, the lock does not. Whether the
context is too long is left free; so a turn may compact twice in a row, which the
code does only after new messages. A round of several tools is one step. The last
response of a turn in `Truncated` may carry tool calls ("unrun"): with a finish reason
other than "tool_calls" the code stores them and runs none. `Interrupt`
is an exception, a timeout or a cancellation at any await; the stack then unwinds
(`LeaveNext`), a waiter withdraws from its queue. `mixed` records the sessions in
which two turns were at work at once, `rolled` those a compaction made.

### Routing

`sources` and `default` are `Config` in memory, `runtime`, `runtimeDefault` and
`file` are config.runtime.yaml. `writes` holds the calls of `set_runtime` that the
running operation still makes; nothing else runs on the event loop until it is
empty. `Truncate` and `Dump` are the two halves of a write: the watchdog thread may
load the configuration in between (`Reload`), or the process may die (`Crash`).
`conversation`, `split`, `cleared` and `revived` record what the user was told.
`IsSafe` is what PyYAML does: `safe_dump` is not used, a pydantic object inside a
dict becomes a tag that `safe_load` rejects.

### DispatchService

The tables of the service are sets: `snapshots`, `submitted`, and `polled`, the
entries of `_last_poll_at` that are still too young. A turn is a conversation and a
number, a session a conversation and the number of its compactions. `JobGoesOn` is
whatever `JobLifecycle` allows a job. `answers` is all that status calls returned;
`Overflow` is a table that drops an entry, and `cut` remembers which. A crash is
`Restart` here, and the initial states and steps are `ServiceInit` and `ServiceNext`,
for the proofs extend this module together with `Completion`.

### WebSockets and Replies

One process at a time, "server" or "chat"; both have the same pending directory and
`Start` hands out what is there. `bus` is the event being dispatched: taken and
written to disk, then handled by `DeliveryWorker` and `WebSocketWorker` side by side
(or by the chat), until `gather` returns. `tries` and `sent` are the loop of
`_deliver_with_retry`, one step per chunk. `responses` is `response_queue`; in `shown`
is what the user saw after each question. `sourceOf` and `clientsOf` of `WebSockets` are
the two dictionaries, which an `await` of `send_json` separates from the receive
loop. `fate[r]` is history, all that befell a reply beside its delivery: a WebSocket
reply is acknowledged by the delivery worker, which has no channel for it, while
`WebSocketWorker` sends it ("reached", "refused", "cut" by the end of the process) or finds
nobody to send it to ("nobody"); a reply in the chat's response queue is "unread" when
the chat ends. `End` is a crash, a stop or the user's "quit".

### Acp

`task[s]` is the entry of `_prompt_tasks`, `object[s]` the registered `AgentSession`, which
has a `SessionState` (`state`): its `store` is the session it writes to, its `messages` what
it has in memory; `transcript[s]` is what is stored. A compaction gives the
`AgentSession` another `SessionState` with a session of its own (`Compact`, `Roll`); the
entry in `runtime.sessions`, `_prompt_tasks` and the lock that the turn holds keep the
old name. A prompt is scheduled (its task has not run), waits for the agent's gate, then
for the lock of the session it will write to (`Pass` reads that name once), asks the
model or is compacting; a cancel is delivered at its next await. A turn ends with a
stored answer (`Answered`) or at the round limit without one (`OutOfRounds`), which the
client is told as `end_turn` too and the model calls "limit". Version 1 answers from the
request's own task (`Respond`), version 2 from the turn. `overlapped`, `reloaded`,
`resumed` and `rolled` are the excuses: a client that sends a prompt before the other's
answer, a session loaded while another `AgentSession` writes to it, a job's result
that the router adds, and a conversation that a compaction moved.

### ResearchMemory

Search results and readers name URLs, rows and points pages: `Canonical` is
`canonicalize_url`, and a run may come to one page by two URLs or a redirect, for it
compares URLs as they are (`_dedupe`). The time to live is that of the URL as it was
read (`Ttl[u]`), so a later read may bring the expiry of a row nearer.
`run[r]` is the coroutine of a run with its stage and the documents in its hands,
`thread[r]` the `asyncio.to_thread` call that a cancelled coroutine leaves behind and
that still takes effect. A version is a page and what it says; `expires`, `active`
and `indexed` are its row, `vectors` the expiry its points carry. Every call of a
store is one step (SQLite commits once, Qdrant takes one request): `Retrieve` is one of
the searches, which other runs come between, `LookUp` one read of the row of a version that
was found, after them. `resaved` and
`raced` are history: a version whose row was written again, a page of which two
versions were in use at once, in the hands of runs, of one run, or in those of one and
among the findings of another that searches.

### The algorithms

`ResearchAnswer`, `Retrieval`, `Chunking`, `CronSchedule` and `Bindings` are operators.
A sentence is a record of its words, numbers and citations; a chunk has a source, a
text and a score. What `AlgorithmChecks` says of them is in named assumptions that TLC
evaluates at the start of `ResearchFaults`, which has the bars of the gate
(`MinCoverage`, `MinSupport`) from the code: windows cover a text and chunks say the
message (`WindowsCoverTheText`, `ChunksSayTheMessage`, `ParagraphsStayWhole`); selection
is greedy under quotas and two stages select as one (`SelectionIsGreedy`,
`TwoStagesSelectAsOne`); queries of the topic come first (`TopicIsAskedFirst`); an
answer that passes is supported, a better verdict never fails it, and what goes out
has passed or is the fallback (`PassingAnswersAreSupported`, `ScoreIsMonotonic`,
`AnswerPassesOrIsTheFallback`, `FallbackPassesIfPlain`, `EvidenceOnlyAdds`); ticks see
no minute twice, evenly spaced schedules keep five minutes, one agent that does not
load stops the jobs behind it (`TicksSeeAMinuteOnce`, `EvenSchedulesKeepTheirDistance`,
`OneBadAgentStopsTheRest`); the most specific binding wins (`SpecificBindingsWin`).

Operators marked "Broken on purpose" are variants of an action with a plausible
bug. Nothing refers to them; they show that the property next to them in
PROJECT.json notices the bug.

## 3. Runs

| run | bounds | shows |
| --- | --- | --- |
| `StoreRaces` | 2 submissions of one call, one more of the session, one of another session; 1 agent, 2 worker ids, quota 1, queue limit 1 | `PendingWithinLimit`, `CallsKeepTheirJob`, `OutboxTellsTheOutcome`, `ValidLeaseIsExclusive`, `ImplementsLifecycle` |
| `WorkerFaults` | 2 jobs (one retry-safe), 3 successive processes, 2 faults of any kind | `LiveTaskHoldsLease`, `CancelReachesTask`, `NonRetrySafeRunsOnce`, `EveryRetryHasAFault`, `OnlyRoutedJobsArePurged` |
| `WorkerLiveness` | 2 jobs for one slot, 1 fault of any kind | `EveryJobEnds`, `EveryCancelEnds` |
| `CompletionFaults` | an orphan, a resumed parent, a notification without addressee; all three endings of a turn; window 2; 1 crash, 1 failure, 2 attempts | `ParentToldOnce`, `ParentRunsAgainForACause`, `RepliesRepeatForACause`, `EveryOutcomeSettles` |
| `CompletionLost` | two jobs, one crash | violation, below |
| `GatesShared` | 2 messages and a resumption, agent with 2 places, one session and its successor, 1 round, 1 turn that may be truncated, 1 interruption | `TurnsMixOnRollOnly`, `ViewIsTheTranscript`, `BrokenExchangesHaveACause` |
| `GatesChain` | a message of A, its job at B, the job of that at A, another message to B; 1 place each; 2 interruptions | `PlacesAreConserved`, `EndedTurnsHoldNothing`, `BudgetHolds`, `EveryTurnEnds` |
| `RoutingAffinity` | 2 sources, 4 sessions, 3 loads and crashes | `AffinityIsOwned`, `AffinityNeverGoesBack` |
| `ReplyFaults` | 2 questions, a reply in 2 chunks, a notice, a reply to a client with 2 sources; 2 processes, 2 failures, 2 tries | `AcknowledgedHasArrived`, `ChunksArriveInRow`, `AnswersLagByTimeouts`, `BindingsAgree` |
| `AcpPrompts` | 2 prompts, the second to the first one's session or to the one a compaction makes, 3 `SessionState`s, 1 cancel, 1 resumption; both versions | `LivePromptIsReachable`, `OutcomeMatchesTranscript`, `TurnSeesTheConversation`, `EveryPromptIsAnswered` |
| `ServicePolls` | 1 job, 2 conversations of 2 turns, 1 compaction each, 1 crash, 1 overflow | `OneAnswerPerTurn`, `AnswersFitTheCreator` |
| `ResearchFaults` | 2 runs of two scopes on one page with 2 contents and 2 URLs of 2 hours and 1, the one leading to the other, the first run with 2 sources; 2 hours, 1 fault, any deletions | `EndedRunsAreClosed`, `OutcomeIsFinal`, `DeletedStaysDeleted`, `LostEvidenceHasACause`, `StaleEvidenceHasACause`, and `AlgorithmChecks` |

The modules' type invariants (`TypeOK`) hold under the same configurations; those of
the store, of the research memory and of routing are part of what is proved, and so
are those of `Completion` (`CompletionTypes`) and the types of `DispatchService`
(`Types` in its proofs).

Twelve more configurations are kept beside these for runs by hand.
`CompletionCrash` passes: the completion path under two crashes and two failures,
with its type invariant, `ConsumedAfterTurn`, `FileOutlivesCrash` and the properties of
`CompletionFaults` but for the liveness. The others each
have one property the code does not have (below): `StoreQueueLimit`,
`CompletionTwice`, `CompletionHalf`, `CompletionStarved`, `RoutingSplit`,
`RoutingUnsafe`, `RoutingRevived`, `RoutingDefault`, `GatesRolled`, `GatesOldPython`,
`ResearchStale`. `tlc -config <name>.cfg MC<module>.tla` prints the counterexample.
`AcknowledgedIsDelivered` and `AnswerFitsQuestion` of `Replies`, `SubmittedJobsCanBeRead`
of `DispatchService` and `FreshIsSearchable` of `ResearchMemory` are false too, and can
be put in the place of the properties of their runs.

Why the bounds are enough. A hazard of the store needs two rows that meet (same
key, same session, same agent) and one that does not; a lease needs one tick, two
owners, and a time at which it is over. A fault matters before, at and after a
recovery: two faults give a fault during the recovery of another. `MaxAttempts`
is above `1 + MaxFaults`, and `EveryRetryHasAFault` shows it never binds. The
outbox window of 50 is scaled to 1 or 2, `MAX_RETRIES` from 5 to 2,
`outbox_max_attempts` from 20 to 2: what counts is whether they are exceeded.
`RoutedJobs` lets one job of `WorkerFaults` be routed and purged, and none of
`WorkerLiveness`, which does not ask about retention. Symmetry is used only in runs without liveness. The
`Completion...` runs set CHECK_DEADLOCK FALSE, for the model stops when all N
outcomes have settled. For gates it takes a holder, a waiter and one who comes
while the place is handed over; a cycle of waits takes two agents and a turn that
comes back to the first. For routing it takes a session before and after a clear or
a compaction, one of another source, and a load in the middle of a write; the
`Routing...` runs set CHECK_DEADLOCK FALSE, for a process that died with an
unreadable file does not start again. A reply needs a process of the other kind
before or after its own, a failure in a chunk and one in the retry; a prompt needs
another that overlaps it and a cancel of each; a turn needs a second of its own and a
second conversation; evidence needs a second run that holds another version of the
page, a run that reaches the page by two URLs, and time for points to outlive their row
and for the row to outlive them. `ResearchFaults` has one fault, since a cancellation
leaves a thread and that is where a second writer comes from; deletions are no faults
there. It has two million states. `ReplyFaults`,
`AcpPrompts`, `ServicePolls` and `ResearchFaults` set CHECK_DEADLOCK FALSE: their
requests, turns and processes are bounded, and then the model stops.

`LiveTaskHoldsLease` and `CancelReachesTask` are about behaviours in which the
event loop does not stall and no heartbeat died so far (`faults.late`): crashes,
stops and restarts do not break them. With a stalled loop they fail, and so would
the code: an expired lease is requeued and claimed again by the same worker id, the
new task replaces the old one in `_tasks`, the old one's callback removes the new
one's entry (`dispatch_worker.py:122-125`), and the store, which compares worker
ids, accepts the older task's result. The other properties of `WorkerFaults` hold
under every fault. Several properties of the newer modules name their excuses in the
same way (`overlapped`, `reloaded`, `rolled`, `fate`, `cut`, `resaved`, `raced`): each is
a thing the code does otherwise, listed below, and the property says there is no
other.

### What the code does otherwise

The first is the finding of PROJECT.json; the others are shown by the
configurations for runs by hand, or by an excuse of a property of a passing run.

* `CompletionLost`: the reply is put in the bus's memory queue, then the outbox is
  marked published; the bus writes the reply to disk later. A crash or stop in
  between loses it (design 5 wants the outbox to prevent exactly that).
* `RoutingSplit`: a new source's session is written to the file, not to memory;
  every message until the next load gets a new session (`core/routing.py:75`).
* `RoutingUnsafe`: a clear while another source is known dumps Python objects into
  config.runtime.yaml; after that every `set_runtime` and every start fails
  (`utils/config.py:347`).
* `GatesOldPython`: under Python 3.11, which `pyproject.toml` and the project guide
  (6.1) allow, the place a job takes is never given back: the job fails, and after
  `max_concurrency` jobs the agent is stuck.
* `StoreQueueLimit`: `recover_expired` puts a job back in the queue without
  looking at `max_queued_jobs_per_agent` (design 16, item 5).
* `CompletionTwice`: when a parent's turn compacts its context, its last message
  goes to another session, and when it is cut at the round limit there is no
  marked message; after a crash before `consume_once` the look-up finds nothing
  and the parent runs again (`ParentResumedOnce`; design 13: once).
* `CompletionHalf`: a crash between the two synthetic messages leaves a call
  without its result, and the next attempt writes neither (design 13: a complete
  group).
* `CompletionStarved`: rows out of attempts stay at the head of the outbox scan;
  when they fill its LIMIT nothing newer is published (design 9.4).
* `RoutingRevived`: a clear looks at memory; a session that is on disk only comes
  back with the next load (`core/commands/handlers.py:97`).
* `RoutingDefault`: the same for the default source: each platform message
  overwrites it (`server/channel_worker.py:50`).
* `ResearchStale`: the index takes the page's newest version and deletes the points
  of others, while a run still cites the version it read: a claim rests on a text
  that its source entry does not name (design of the research memory, 604-606). A
  version saved again keeps the old expiry in its points
  (`repositories/sqlite.py:417`, `service.py:486`), so it is marked as indexed and
  not found; or the new expiry is the nearer one, for it comes from the URL as read
  (`service.py:417`), and the points outlive their row.
* `AcknowledgedIsDelivered`: the server and the chat share the pending directory; each
  takes and acknowledges the other's replies at its start. The acknowledgement of the
  chat is given before the reply is shown (`core/eventbus.py:140`).
* `AnswerFitsQuestion`: an answer that comes after the 120 seconds is shown after the
  next question, and so are all that follow (`cli/chat.py:111`).
* A reply without an addressee is not acknowledged "to let event be retried"
  (`server/delivery_worker.py:166`), but only the next start retries it.
* An authenticated connection whose send failed once is taken out of the tables and
  never bound again, though its receive loop goes on (`server/websocket_worker.py:91`).
* In ACP a second prompt replaces the entry of the first in `_prompt_tasks`, and the
  end of either removes it: cancel then reaches neither (`overlapped`). A version 2
  prompt cancelled before its first step is never answered ("lost"). A session that is
  loaded, or resumed by the router, during a turn leaves the registered object with
  a stale view (`reloaded`).
* After a compaction an ACP conversation is stored under a session id that the client
  is never told (`rolled`): `session/load` of the id it knows gives the old transcript,
  without what was said since. A turn cut at the round limit stores no answer, and its
  stop reason is `end_turn` all the same (`OutOfRounds`).
* A final response with the finish reason "length", "stop" or "content_filter" that carries
  tool calls is stored with them, and no results follow (`core/agent.py:310-321`): the next
  turn sends the model a call without results ("unrun").
* A reply for a WebSocket client that is not connected, or whose send fails, is
  acknowledged and gone (`server/delivery_worker.py:175-181`; "nobody" and "refused").
* `SubmittedJobsCanBeRead`: after a compaction the conversation has another session,
  and `_owned_job` refuses it its own jobs. `_submitted_turns.pop()` may drop the entry
  that was just added.
* The extractive fallback puts one citation behind an excerpt; when the excerpt has
  more than one sentence (each "。" ends one), or a warning ends in a question, the
  report fails the gate it was made for (`llm.py:63-74`, `FallbackPassesIfPlain`).
* `max_queries` is 3 by default and the topic alone makes four queries: those of
  earlier runs are never asked (`query_rewriter.py:12`, `TopicIsAskedFirst`).
* A cron schedule is compared with one gap only, so some that run every minute pass
  "minimum 5-minute granularity" (`core/cron_loader.py:36`); an agent that does not
  load ends the tick for the jobs behind it; the tick drifts, and a minute may be
  passed over (`server/cron_worker.py:60`).
* `GatesRolled`: after a compaction the turn appends to the new session under the
  lock of the old one, so a message to the new session runs beside it (design 3.1,
  item 8).

## 4. Fairness

`DispatchWorker`: a stopped service is started again (`Start`, `Exit`); the loop
scans every `scan_interval_seconds`, each scan recovers all it finds and claims
what fits (`Recover(j)`, `Claim`); a task comes to its end, at the latest at its
deadline (`TaskStep`); heartbeats and the clock go on. The wake-up event is not
needed and not modelled. `Claim` is fair for the worker, not for each job: that
a job gets its turn follows from the order of `created_at`. Nothing is assumed of
callers, of the bus, or of definitions to load.

`Completion`: the service is restarted, the outbox worker publishes and backoffs
pass, and the bus makes steps. Its handlers come back because a turn has at most
`max_tool_rounds_per_turn` rounds and a delivery `MAX_RETRIES` tries; that calls
to model and channel return is an assumption.

`SessionGates`: a turn goes on when it can (`Step`), for the event loop runs every
task that can run; a queued job is started when a slot is free (`StartJob`). That
the calls to model and tools return is an assumption; the wait for a job ends by
`sync_wait_seconds` (`SyncTimeout`), and with the job being left alone: nothing
else breaks a cycle of agents that wait for each other's places.

`Acp`: the loop runs every task that is ready, and the model answers
(`Runs(p)`, weakly fair for each prompt). Nothing is assumed of the client: that it
sends, cancels or closes. The other new modules state safety only: `Replies` gives up
a reply after its tries and waits for a start to try again, so nothing must
eventually arrive; a research run has no timeout of its own.

## 5. Theorems

`DispatchJobsProofs` proves for every value of the constants that satisfies
`DispatchAssumption` (finite set of ids, limits at least 1, the NULL owner is no
worker):

* `InductiveInvariant`: `TypeOK /\ OutboxTellsTheOutcome` is inductive. `OutboxTellsTheOutcome` is not inductive without the NULL
  discipline of `TypeOK`: retention deletes rows by `age`, and only `NullsFit` says
  that a row with an age has an outcome; and `Finish` records only where no record
  is, so a stale record would survive. Each operation has a lemma; all that write
  one row go through `RowUpdate` or `PendingUpdate`.
* `TypeCorrect`, `OutcomeIsRecorded`: its parts.
* `SessionQuota`: only `CreateJob` makes a session busier, and its guard looks at what
  the invariant counts, with the cardinality of finite sets.
* `LeaseExcludesOthers` and `ReplaysFindTheirJob` (`CallsKeepTheirJob`): action properties,
  from the same invariant. The second holds for every caller, also one that replays a
  call while its job is requeued, finished or just purged: what retention takes is
  finished, old, published, and gone with its consumption.
* `Refinement`: every step maps to a step of `JobLifecycle` or to a stutter.

`DispatchWorkerProofs` proves for any number of faults of any kind:

* `NoUnseenOutcomeIsDeleted` (`OnlyRoutedJobsArePurged`): no outcome is purged whose consumption
  is not on file. The store does not see to this, for it marks an outbox row for anyone;
  the invariant is that a published row of this router was consumed, kept through the
  crash between the two commits. Of the store's steps it uses that the worker acts under a
  worker id (`IdInv`).
* `UnsafeJobsRunOnce`: a job whose agent is not retry-safe is claimed at most once.
  The strengthening `OnceInv` says that such a job is queued only while it has no
  attempt; the store step that could requeue it is excluded by `RecoverExpired`.
* `LiveTasksHoldLeases`, `CancelsReachTasks`, `RetriesHaveFaults`
  (`LiveTaskHoldsLease`, `CancelReachesTask`, `EveryRetryHasAFault`), from one
  invariant `WorkerInv`, job by job. `LiveFits` makes a live task the one in `_tasks`,
  the only one of its job, beating under a lease that is not over: without the
  heartbeat the lease could end under it, without "the only one" an older task's
  callback could take the newer one's entry. `RetryAt` counts: once a job has more
  attempts than there were faults, it is `Kept`, so that no recovery can take it back
  before the next fault. The first two hold until a stall or a dead heartbeat
  (`faults.late`), the third for all faults.

`SessionGatesProofs` proves for any turns, agents, sessions and capacities, for
either way of `wait_for` and any number of interruptions:

* `GatesInvariant`: the inductive invariant `GInv`. A gate is `Good` (free places and
  tasks inside add up, nobody waits while a place is free, the queue has no
  repetition and nobody inside); a turn's tasks wait where the turn is about to
  enter and nowhere else (`QueuedBy`), without which an acquire could queue a task
  twice; a turn on its way in or at work is inside of all it entered (`HeldBy`);
  and `entered` fits the place of the turn (`PlacedOK`). `AcquireKeepsGood`,
  `ReleaseKeepsGood` and `WithdrawKeepsGood` are facts about one gate; `OthersKeep`
  carries them to the other turns. TLC checked the invariant before the proof.
* `PlacesConserved`: its first part.
* `AgentBudget`: the turns at work inject into the tasks inside their agent's gate.
* `LocksSerialise`: if two turns were at work in a session that no compaction made,
  both would be inside a gate of size one. `SessionsOK` says that a turn is in the
  session it came for or in one made by a compaction.
* `EndedTurnsAreOut` (`EndedTurnsHoldNothing`), under `~WaitForTask`: `wait_for` stays in
  the caller's task, as since Python 3.12. The project allows 3.11, where it fails
  (`GatesOldPython`), so the hypothesis says which Python the result is about.
  `Counted`: a turn is one task, and its depth at a gate is the number of frames it has
  entered there; releasing the frames one by one must then end at zero. `GInv` only
  knows that the depth is not zero, which is not enough where a turn enters one gate
  twice.
* `TurnsReadTheTranscript` (`ViewIsTheTranscript`): `ReadInv` adds that two turns at work
  in a session have mixed it (`SharedAreMixed`), that a session is empty until its
  compaction is done, and that nobody writes into a job's session between its load and
  its start. The last needs that a job's session is its own, which is why
  `GatesAssumption` says so: the code makes a new uuid for each job
  (`core/dispatch_jobs.py:684`).
* `ExchangesBreakForACause` (`BrokenExchangesHaveACause`): `ExchangeInv` carries it
  from the view of one turn to all transcripts, with the one exception that is in the
  making: the last message of a session may be a call whose turn is still at its tools
  (`Asked`). The calls of a final response that was cut short are among the causes. `RollsOn` shows that what a compaction keeps is in order behind its
  summary.

`LocksSerialise` is what the locks give; `GatesRolled` shows why it is not more.

`ParentProofs` has the two ways in which a parent learns of its jobs. Of
`DispatchService`, for any jobs and conversations, any number of turns, compactions and
crashes, and tables that lose any entries:

* `ServiceInvariant`: answers are of turns that have begun (`AnswersAreOld`); those of
  the turn under way are among the snapshots, or were cut from them
  (`AnswersAreKept`); a job belongs to the conversation of the turn that made it,
  which has a note of it while it lasts (`CreatorsAreNoted`). Without the
  first, a new turn could begin with old answers under its number.
* `TurnsGetOneAnswer` (`OneAnswerPerTurn`) and `CreatorsAreTold`
  (`AnswersFitTheCreator`): its consequences. Of the life of a job below the service
  the proof uses only that jobs are neither made nor unmade there (`JobsMove`).

and of `Completion`, for any number of outcomes, modes, windows, crashes and failures:

* `ParentsAreToldOnce` (`ParentToldOnce`): between the two synthetic messages the first
  is there and the second is not (`PairsFit`).
* `ConsumptionFollowsTheTurn` (`ConsumedAfterTurn`) and `ParentsRunAgainAfterStopsOnly`: a
  parent runs for one event at most once more than the process went down, however its
  turns end. `TurnsFit`: an event that is not consumed, and whose answer the router
  does not hold, has had no more turns than there were crashes. Each step ends a turn
  or leaves all that alone (`TurnsEndOrNot`).
* `ParentsRunAgainForACause`: whatever the endings of its turns, a parent runs again only
  while its history has no answer, and after a crash of its own; the first from the
  look-up, the second from `TurnsFit`. That it runs once (`ParentResumedOnce`) is false
  (`CompletionTwice`).
* `RepliesAreRepeatedForACause` (`RepliesRepeatForACause`): a reply is in one place at a time,
  the queue, the files to recover or the hands of the delivery worker, and while it is
  ahead of the platform it has been delivered whole no more often than the process went
  down, and begun no more often than the tries of each process. That the bus queues no
  reply twice (`Once`) rests on the consumption being recorded with it.
* `NotificationsAreLostInStopsOnly`: without a stop nothing that was routed is lost, so the
  crash of `CompletionLost` is the only way. `FilesOutliveStops` (`FileOutlivesCrash`):
  nor is anything on disk.
* `CompletionTypes`: the type invariant, for which all that is on its way must be of jobs
  that have ended (`OfEnded`).

`RepliesProofs` proves for any clients and sources, with the bus, the deliveries and
the chat interleaving:

* `ConnectionsAgree` (`BindingsAgree`). It is inductive only with "an authenticated
  connection has proved a source": otherwise a message could bind it to another.
* `NothingAcknowledgedIsLost` (`AcknowledgedHasArrived`) and `ChunksStayTogether`
  (`ChunksArriveInRow`): `InStep` puts the delivery worker where the platform is, so a
  reply that is all sent has arrived; `Budget` gives a reply that may yet be begun one
  start or failure that it has not used. A WebSocket reply that is off the disk has
  its fate, or is still being sent.
* `AnswersKeepTheirPlace` (`AnswersLagByTimeouts`): answers end in the order of their
  questions, and nothing on the way (queue, bus, responses) overtakes (`InTurn`); an
  answer the user has not seen, behind a question that is over, was passed by a timeout
  or by a reply of an earlier process (`Lag`), and each of those is spent once
  (`ShownOnce`).

`RepliesAssumption` says for this that the names of channels are not sources, and that
`NoReply` is no reply.

`AcpProofs` proves for any prompts, sessions, objects and cancels, in both versions:

* `AcpInvariant`: an open prompt, which is one that lives or that version 1 has not
  answered, is named by its session's entry unless it was overlapped; an outcome
  belongs to a turn that ended; no two sessions share a `SessionState`, and a session's
  object writes elsewhere only after a compaction. The first has to include prompts
  that are done: the entry of version 1 goes with the answer, and must then still be the
  prompt's own.
* `CancelReachesThePrompt` (`LivePromptIsReachable`) and `StopReasonsAreTrue`
  (`OutcomeMatchesTranscript`): an answer is stored, somewhere, exactly for a turn that
  ended with one; not for one that was cut at the round limit, cancelled, or failed; and
  away from the prompt's session only after a compaction.
* `TurnsSeeTheConversation` (`TurnSeesTheConversation`): a stored session has one writer at
  a time, an object and the live prompts that hold it, whose state knows the
  transcript; a second one comes from a load under the first one's hands, a
  compaction takes a session that nobody had (`Fresh`).

`ResearchMemoryProofs` proves for any runs, pages and contents, either kind of index
and any number of errors, cancellations, crashes and deletions:

* `MemoryInvariant`: types; an idle run has no row (`IdleRunsHaveNoRow`); what
  references a run is gone with it (`GoneRunsLeaveNothing`); and a call that outlives
  its coroutine belongs to a cancelled one, which still has its report
  (`ThreadsFit`): otherwise a thread could finish a run without an outcome. Steps
  that ask for no row share `SilentSteps`; those that close a row, in the coroutine or
  in a thread, share `ClosingSteps`.
* `EndsAreRecorded` (`EndedRunsAreClosed`), and the action properties `OneOutcome`
  (`OutcomeIsFinal`) and `DeletionIsFinal` (`DeletedStaysDeleted`).
* `IndexInvariant`: what a run holds was saved, and is the active version of its page unless
  the page raced; a marked version, or one about to be marked, and active has points
  with the expiry of its row unless it was saved again or its page raced; two versions of
  a page have points, or one has points and another is held or found, only after a race,
  for which nobody else's points may appear between the two halves of an upsert. It is
  kept through searches that come one by one, with other runs in between, and through
  documents of one version with two expiries.
* `MarkedIsSearchable` (`LostEvidenceHasACause`): its consequence. The reverse, that points
  end with their row, is false: the next read may be by a URL with a shorter time to live.
* `ReportsNameTheirVersions` (`StaleEvidenceHasACause`), for the persistent index, as in
  the run. The dictionary that stands in for it keeps the points of a page's former
  versions (`rag.py:112`), and there the property is false.

`RoutingProofs` proves for any sources and any number of sessions, loads and crashes:

* `RoutingInvariant`: types, `AffinityIsOwned`, and `WritesFit`: a write under way names
  sessions of their sources, and a single one it names is the newest there is, for
  nothing else runs until it is written.
* `SessionsAreOwned` (`AffinityIsOwned`) and `FileGoesForward`
  (`AffinityNeverGoesBack`): a clear could take the file back, but the dict it writes
  is empty or makes the file unreadable (`RoutingUnsafe`).

Every safety property that a run checks is proved. Only model-checked are the liveness
properties (`EveryJobEnds`, `EveryCancelEnds`, `EveryOutcomeSettles`, `EveryTurnEnds`,
`EveryPromptIsAnswered`: fairness and ENABLED are outside the reach of the prover) and
the type invariants of `DispatchWorker`, `SessionGates`, `Acp` and `Replies` as they stand,
of which the proofs use the parts they need. The assumptions of `AlgorithmChecks` are
evaluated over bounded inputs; what the recursive definitions compute for every
input is outside the prover's reach.

## 6. Not modelled

Texts of results and errors; columns no decision reads (`version`, `started_at`);
two processes on one database file (design 4 and 5 have one; the SELECTs of
`create_job` and `recover_expired` open no transaction, so two would interleave
inside an operation); purging in `Completion` (the store's retention leaves
unrouted outcomes alone, and a duplicate event of a purged job finds no job and
does nothing); failures of the database in `consume_once` and of the disk in the
bus. In `DispatchWorker` the agent semaphore is not a resource (a task waits for it
until its deadline, `TimesOut`); it is one in `SessionGates`, where in turn jobs have
no leases. Slash commands, but for the clear in `Routing`, end a turn without a
transcript and are left out of `SessionGates`. In `Routing` a
source is one name: that `set_runtime` splits its key at dots does not show. Of the
history store the index file (counts, titles) is left out, which only lists for the
user read. `Replies` has one process at a time: a server and a chat at once would take
each other's files as successive ones do. Of the research assistant the network, the
prompts, the compression of memory contexts, embeddings and the scores of the vector
search are left out; scores and verdicts are inputs of the algorithms. A library
underneath is modelled from how the code uses it (croniter, PyYAML, asyncio,
Qdrant's filters). The monitor that restarts one crashed worker task while the
others go on, commands but for the clear, skills, adapters to chat platforms,
telemetry and the command line are in PROJECT.json with their reasons.

## 7. Plan

1. Done: the store and its life cycle, the worker, completion, gates, routing, the
   service, replies and connections, ACP, research memory, the algorithms, and the
   proofs of section 5.
2. Proofs: the type invariants of `DispatchWorker`, `SessionGates`, `Acp` and `Replies`; the
   remaining promises of the store under the worker.
3. An abstract specification of notification (pending, routed, settled) with
   `Completion` shown to implement it; an abstract lock with `SessionGates` as
   implementation; an abstract evidence store with `ResearchMemory`.
4. `Completion` on top of `Replies`, so that one bus serves both; a server whose
   monitor restarts single workers.
