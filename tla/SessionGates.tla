---------------------------- MODULE SessionGates ----------------------------
(***************************************************************************)
(* Turns of sessions under the two gates of SharedContext: a semaphore per *)
(* agent (its max_concurrency) and a lock per session, both re-entrant for *)
(* an asyncio task and first come, first served.  A turn is a message      *)
(* (AgentWorker.exec_session and AgentSession.chat), the resumption of a   *)
(* parent (CompletionRouter._resume_parent and                             *)
(* resume_with_dispatch_result) or a job (DispatchJobWorker._execute and   *)
(* chat).  In its loop it may compact its context and roll to a new        *)
(* session, call the model, and run tools, of which subagent_dispatch      *)
(* waits for a job.                                                        *)
(*                                                                         *)
(* asyncio.wait_for runs what it is given in the caller's task since       *)
(* Python 3.12, and in a task of its own before: WaitForTask.              *)
(* Each async with is entered and left in a step of its own, also where    *)
(* the code does not suspend in between.                                   *)
(***************************************************************************)
EXTENDS Integers, FiniteSets, Sequences

CONSTANTS
  Turns, Agents, Sessions,
  NoTurn, NoSession,
  Kind,          \* Kind[t]: "chat", "resume" or "job"
  Child,         \* Child[t]: the job t may dispatch and wait for, or NoTurn
  Capacity,      \* Capacity[a]: max_concurrency of agent a
  AgentOf,       \* AgentOf[s]: the agent of session s
  Targets,       \* Targets[t]: the sessions t may be for; of a job, its child session
  Spare,         \* sessions a compaction may create
  Truncated,     \* turns whose last response may carry calls that are not run
  MaxRounds,     \* max_tool_rounds_per_turn
  WaitForTask,   \* Python is older than 3.12
  MaxInterrupts  \* bound: turns that fail, time out or are cancelled

Jobs == {t \in Turns : Kind[t] = "job"}

ASSUME GatesAssumption ==
  /\ NoTurn \notin Turns /\ NoSession \notin Sessions
  /\ Agents \cap Sessions = {}
  /\ Kind \in [Turns -> {"chat", "resume", "job"}]
  /\ Child \in [Turns -> Jobs \cup {NoTurn}]
  /\ Capacity \in [Agents -> Nat \ {0}]
  /\ AgentOf \in [Sessions -> Agents]
  /\ Targets \in [Turns -> SUBSET Sessions]
  /\ \A t \in Jobs : Targets[t] # {}
  \* a job's session is a uuid of its own (dispatch_jobs.py:684, UNIQUE in :135)
  /\ \A c \in Jobs : /\ Targets[c] \cap Spare = {}
                     /\ \A t \in Turns \ {c} : Targets[c] \cap Targets[t] = {}
  /\ Spare \subseteq Sessions
  /\ Truncated \subseteq Turns
  /\ MaxRounds \in Nat \ {0}
  /\ WaitForTask \in BOOLEAN
  /\ MaxInterrupts \in Nat

(* The asyncio tasks of a turn. *)
Tasks == Turns \X {"main", "acquire", "chat"}
Task(t, part) == <<t, IF WaitForTask /\ t \in Jobs THEN part ELSE "main">>

Gates == Agents \cup Sessions
Size(g) == IF g \in Agents THEN Capacity[g] ELSE 1

VARIABLES
  gate,          \* gate[g]: free places, depth of each task inside, tasks waiting
  pc,            \* pc[t]: where the turn is
  entered,       \* entered[t]: how many of its frames it has entered or waits for
  home,          \* home[t]: the session it was started for
  session,       \* session[t]: its state.session_id
  view,          \* view[t]: its state.messages
  rounds,        \* rounds[t]: its tool_rounds
  created,       \* the sessions the history knows
  hist,          \* hist[s]: the messages of session s in the history
  rolled,        \* sessions made by a compaction
  mixed,         \* sessions in which two turns were at work at once
  interrupted    \* the turns that did not reach their end

transcripts == <<created, hist, rolled, mixed>>
vars == <<gate, pc, entered, home, session, view, rounds, transcripts, interrupted>>

(* queued: a job waits for its worker; entering, leaving: at its gates;    *)
(* turn: at the top of the loop, and in the model call; rolling: while the *)
(* model writes the summary; tools, waiting: in a round of tools, the      *)
(* latter for the job it dispatched.                                       *)
Places == {"none", "queued", "entering", "turn", "rolling", "tools", "waiting", "leaving", "done"}
Active == {"turn", "rolling", "tools", "waiting"}

(* calls: an assistant message with tool calls; results: their answers;    *)
(* unrun: one whose calls are not run, for its finish reason is another    *)
(* (the model was cut at max_tokens, or filtered).                         *)
Message == [by : Turns, kind : {"user", "calls", "results", "final", "unrun", "summary"}]
Says(t, kind) == [by |-> t, kind |-> kind]

Open(g) == [free |-> Size(g), depth |-> [o \in Tasks |-> 0], queue |-> <<>>]

Init ==
  /\ gate = [g \in Gates |-> Open(g)]
  /\ pc = [t \in Turns |-> "none"]
  /\ entered = [t \in Turns |-> 0]
  /\ home = [t \in Turns |-> NoSession]
  /\ session = home
  /\ view = [t \in Turns |-> <<>>]
  /\ rounds = [t \in Turns |-> 0]
  /\ created = UNION {Targets[t] : t \in Turns \ Jobs} \ Spare
  /\ hist = [s \in Sessions |-> <<>>]
  /\ rolled = {} /\ mixed = {} /\ interrupted = {}

-----------------------------------------------------------------------------
(* The gates.                                                              *)

(* acquire: again by a task inside, at once if there is room and no queue, *)
(* otherwise in the queue.                                                 *)
Acquire(r, o) ==
  IF r.depth[o] > 0 THEN [r EXCEPT !.depth[o] = @ + 1]
  ELSE IF r.free > 0 /\ r.queue = <<>>
    THEN [r EXCEPT !.free = @ - 1, !.depth[o] = 1]
    ELSE [r EXCEPT !.queue = Append(@, o)]

(* Broken on purpose: the place is free, and who waits for it is not told. *)
ReleaseWithoutWaking(r, o) ==
  IF r.depth[o] # 1 THEN [r EXCEPT !.depth[o] = IF @ > 1 THEN @ - 1 ELSE 0]
                    ELSE [r EXCEPT !.depth[o] = 0, !.free = @ + 1]

(* release: the last one hands the place on.  By a task that is not inside *)
(* it raises and changes nothing.                                          *)
Release(r, o) ==
  IF r.depth[o] = 0 THEN r
  ELSE IF r.depth[o] > 1 THEN [r EXCEPT !.depth[o] = @ - 1]
  ELSE IF r.queue = <<>> THEN [r EXCEPT !.depth[o] = 0, !.free = @ + 1]
  ELSE [free  |-> r.free,
        depth |-> [r.depth EXCEPT ![o] = 0, ![Head(r.queue)] = 1],
        queue |-> Tail(r.queue)]

(* Broken on purpose: who is cancelled stays in the queue. *)
WithdrawLate(r, o) == [r EXCEPT !.queue = SubSeq(@, 1, Len(@))]

(* An acquire that is cancelled while it waits, which it does once. *)
Withdraw(r, o) ==
  LET i == CHOOSE i \in 1 .. Len(r.queue) : r.queue[i] = o
  IN [r EXCEPT !.queue = SubSeq(@, 1, i - 1) \o SubSeq(@, i + 1, Len(@))]

Waits(g, o) == \E i \in 1 .. Len(gate[g].queue) : gate[g].queue[i] = o

(* The async with blocks of a turn, in the order it enters them, with the  *)
(* task that enters each and the one that leaves it.  A message and a      *)
(* resumption hold both gates when chat enters them again; a job holds the *)
(* agent's only, through wait_for.                                         *)
Frame(g, enters, leaves) == [gate |-> g, enters |-> enters, leaves |-> leaves]

(* Broken on purpose: jobs run within the slots of their worker only. *)
FramesWithoutBudget(t) ==
  LET main == Task(t, "main")
      lock == Frame(home[t], main, main)
  IN IF t \in Jobs THEN <<lock>> ELSE <<Frame(AgentOf[home[t]], main, main), lock>>

(* Broken on purpose: a resumption does not take the session's lock. *)
FramesWithoutLock(t) ==
  LET main == Task(t, "main")
      outer == Frame(AgentOf[home[t]], main, main)
  IN IF Kind[t] = "resume" THEN <<outer>> ELSE <<outer, Frame(home[t], main, main)>>

Frames(t) ==
  LET a    == AgentOf[home[t]]
      main == Task(t, "main")
      chat == Task(t, "chat")
      inner == <<Frame(a, chat, chat), Frame(home[t], chat, chat)>>
  IN IF t \in Jobs THEN <<Frame(a, Task(t, "acquire"), main)>> \o inner
                   ELSE <<Frame(a, main, main), Frame(home[t], main, main)>> \o inner

LastFrame(t) == Frames(t)[entered[t]]
IsWaiting(t) == entered[t] > 0 /\ Waits(LastFrame(t).gate, LastFrame(t).enters)

-----------------------------------------------------------------------------
(* Starting.                                                               *)

(* An event reaches exec_session or _resume_parent; the bus, which waits   *)
(* for the router, handles one resumption at a time.                       *)
Arrive(t, s) ==
  /\ t \notin Jobs /\ pc[t] = "none"
  /\ s \in Targets[t] \cap created
  /\ Kind[t] = "resume" =>
       \A u \in Turns \ {t} : Kind[u] = "resume" => pc[u] \in {"none", "done"}
  /\ home' = [home EXCEPT ![t] = s]
  /\ session' = [session EXCEPT ![t] = s]
  /\ pc' = [pc EXCEPT ![t] = "entering"]
  /\ UNCHANGED <<gate, entered, view, rounds, transcripts, interrupted>>

(* DispatchJobWorker starts a queued job within its slots.  The child's    *)
(* session is created or loaded before the gates are taken.                *)
ChildSession(c) == CHOOSE s \in Targets[c] : TRUE
Running(a) == {u \in Jobs : /\ AgentOf[ChildSession(u)] = a
                            /\ pc[u] \notin {"none", "queued", "done"}}

StartJob(c) ==
  /\ pc[c] = "queued"
  /\ LET s == ChildSession(c) IN
       /\ Cardinality(Running(AgentOf[s])) < Capacity[AgentOf[s]]
       /\ created' = created \cup {s}
       /\ home' = [home EXCEPT ![c] = s]
       /\ session' = [session EXCEPT ![c] = s]
       /\ view' = [view EXCEPT ![c] = hist[s]]
  /\ pc' = [pc EXCEPT ![c] = "entering"]
  /\ UNCHANGED <<gate, entered, rounds, hist, rolled, mixed, interrupted>>

EnterNext(t) ==
  /\ pc[t] = "entering" /\ ~IsWaiting(t)
  /\ entered[t] < Len(Frames(t))
  /\ LET frame == Frames(t)[entered[t] + 1] IN gate' = [gate EXCEPT ![frame.gate] = Acquire(@, frame.enters)]
  /\ entered' = [entered EXCEPT ![t] = @ + 1]
  /\ UNCHANGED <<pc, home, session, view, rounds, transcripts, interrupted>>

(* Is another turn at work in session s? *)
Shared(t, s) == \E u \in Turns \ {t} : pc[u] \in Active /\ session[u] = s
MixedBy(t, s) == IF Shared(t, s) THEN mixed \cup {s} ELSE mixed

(* The history is loaded under the lock (but for a job), and the message   *)
(* that starts the turn is saved: the user's, the task, or the synthetic   *)
(* call with the outcome of a job.                                         *)
Opening(t) == IF Kind[t] = "resume" THEN <<Says(t, "calls"), Says(t, "results")>>
                                    ELSE <<Says(t, "user")>>

Begin(t) ==
  /\ pc[t] = "entering" /\ ~IsWaiting(t)
  /\ entered[t] = Len(Frames(t))
  /\ LET loaded == IF t \in Jobs THEN view[t] ELSE hist[home[t]]
     IN view' = [view EXCEPT ![t] = loaded \o Opening(t)]
  /\ hist' = [hist EXCEPT ![home[t]] = @ \o Opening(t)]
  /\ mixed' = MixedBy(t, home[t])
  /\ pc' = [pc EXCEPT ![t] = "turn"]
  /\ UNCHANGED <<gate, entered, home, session, rounds, created, rolled, interrupted>>

-----------------------------------------------------------------------------
(* _run_turn.                                                              *)

(* Broken on purpose: messages go to the session the turn was started for. *)
SavesAtHome(t, messages) ==
  /\ view' = [view EXCEPT ![t] = @ \o messages]
  /\ hist' = [hist EXCEPT ![home[t]] = @ \o messages]

(* SessionState.add_message. *)
Saves(t, messages) ==
  /\ view' = [view EXCEPT ![t] = @ \o messages]
  /\ hist' = [hist EXCEPT ![session[t]] = @ \o messages]

Goes(t, place) ==
  /\ pc' = [pc EXCEPT ![t] = place]
  /\ UNCHANGED <<gate, entered, home, session, created, rolled, mixed, interrupted>>

(* compact_and_roll creates a session and asks the model for a summary.    *)
(* session[t] is the new one from here on: nothing is saved until the      *)
(* summary is there.                                                       *)
Roll(t, s) ==
  /\ pc[t] = "turn"
  /\ s \in Spare \ created /\ AgentOf[s] = AgentOf[home[t]]
  /\ created' = created \cup {s}
  /\ rolled' = rolled \cup {s}
  /\ session' = [session EXCEPT ![t] = s]
  /\ pc' = [pc EXCEPT ![t] = "rolling"]
  /\ UNCHANGED <<gate, entered, home, view, rounds, hist, mixed, interrupted>>

(* _compress_message_count, and what messages[count:] is in Python. *)
AtLeast(m, n) == IF m >= n THEN m ELSE n
AtMost(m, n)  == IF m <= n THEN m ELSE n
CompressCount(n) == AtMost(AtLeast(2, n \div 2), n - AtLeast(4, n \div 5))
Kept(v) ==
  LET n     == Len(v)
      count == CompressCount(n)
  IN SubSeq(v, 1 + (IF count >= 0 THEN count ELSE AtLeast(0, n + count)), n)

(* The summary, its acknowledgement and the messages kept. *)
Rolled(t) ==
  /\ pc[t] = "rolling"
  /\ LET compacted == <<Says(t, "summary"), Says(t, "summary")>> \o Kept(view[t]) IN
       /\ view' = [view EXCEPT ![t] = compacted]
       /\ hist' = [hist EXCEPT ![session[t]] = @ \o compacted]
  /\ mixed' = MixedBy(t, session[t])
  /\ pc' = [pc EXCEPT ![t] = "turn"]
  /\ UNCHANGED <<gate, entered, home, session, rounds, created, rolled, interrupted>>

(* Any finish reason but tool_calls ends the turn, with or without calls   *)
(* in the response.                                                        *)
Answer(t) ==
  /\ pc[t] = "turn"
  /\ \E kind \in {"final", "unrun"} :
       (kind = "unrun" => t \in Truncated) /\ Saves(t, <<Says(t, kind)>>)
  /\ Goes(t, "leaving") /\ UNCHANGED rounds

Calls(t) ==
  /\ pc[t] = "turn" /\ rounds[t] < MaxRounds
  /\ Saves(t, <<Says(t, "calls")>>)
  /\ rounds' = [rounds EXCEPT ![t] = @ + 1]

CallTools(t) == Calls(t) /\ Goes(t, "tools")

(* subagent_dispatch: submit, then look for the outcome again and again. *)
Dispatch(t) ==
  /\ Child[t] # NoTurn /\ pc[Child[t]] = "none"
  /\ Calls(t)
  /\ pc' = [pc EXCEPT ![t] = "waiting", ![Child[t]] = "queued"]
  /\ UNCHANGED <<gate, entered, home, session, created, rolled, mixed, interrupted>>

(* Broken on purpose: the calls of the round too many stay unanswered. *)
ToolLimitSilently(t) ==
  /\ pc[t] = "turn" /\ rounds[t] = MaxRounds
  /\ Saves(t, <<Says(t, "calls")>>)
  /\ Goes(t, "leaving") /\ UNCHANGED rounds

ToolLimit(t) ==
  /\ pc[t] = "turn" /\ rounds[t] = MaxRounds
  /\ Saves(t, <<Says(t, "calls"), Says(t, "results")>>)
  /\ Goes(t, "leaving") /\ UNCHANGED rounds

Results(t) == Saves(t, <<Says(t, "results")>>) /\ Goes(t, "turn") /\ UNCHANGED rounds

ToolsDone(t) == pc[t] = "tools" /\ Results(t)
ChildDone(t) == pc[t] = "waiting" /\ pc[Child[t]] = "done" /\ Results(t)

(* Broken on purpose: the clock starts when the job does. *)
SyncTimeoutOfRunning(t) ==
  pc[t] = "waiting" /\ pc[Child[t]] \in Active \ {"waiting"} /\ Results(t)

(* sync_wait_seconds have passed. *)
SyncTimeout(t) == pc[t] = "waiting" /\ Results(t)

-----------------------------------------------------------------------------
(* Ending.                                                                 *)

LeaveNext(t) ==
  /\ pc[t] = "leaving"
  /\ gate' = [gate EXCEPT ![LastFrame(t).gate] = Release(@, LastFrame(t).leaves)]
  /\ entered' = [entered EXCEPT ![t] = @ - 1]
  /\ pc' = [pc EXCEPT ![t] = IF entered[t] = 1 THEN "done" ELSE "leaving"]
  /\ UNCHANGED <<home, session, view, rounds, transcripts, interrupted>>

(* The model or a load raises, the deadline of a job passes, its task or   *)
(* the worker's tasks are cancelled.                                       *)
Interrupt(t) ==
  /\ pc[t] \in Active \cup {"entering"}
  /\ Cardinality(interrupted) < MaxInterrupts
  /\ interrupted' = interrupted \cup {t}
  /\ LET inside == IF IsWaiting(t) THEN entered[t] - 1 ELSE entered[t] IN
       /\ gate' = IF IsWaiting(t)
                     THEN [gate EXCEPT ![LastFrame(t).gate] = Withdraw(@, LastFrame(t).enters)]
                     ELSE gate
       /\ entered' = [entered EXCEPT ![t] = inside]
       /\ pc' = [pc EXCEPT ![t] = IF inside = 0 THEN "done" ELSE "leaving"]
  /\ UNCHANGED <<home, session, view, rounds, transcripts>>

(* Every turn is over or has not come. *)
Rest ==
  /\ \A t \in Turns : pc[t] \in {"none", "done"}
  /\ UNCHANGED vars

Step(t) ==
  \/ EnterNext(t) \/ Begin(t)
  \/ \E s \in Sessions : Roll(t, s)
  \/ Rolled(t)
  \/ Answer(t) \/ CallTools(t) \/ Dispatch(t) \/ ToolLimit(t)
  \/ ToolsDone(t) \/ ChildDone(t) \/ SyncTimeout(t)
  \/ LeaveNext(t)

Next ==
  \/ \E t \in Turns : \E s \in Sessions : Arrive(t, s)
  \/ \E c \in Jobs : StartJob(c)
  \/ \E t \in Turns : Step(t) \/ Interrupt(t)
  \/ Rest

Spec == Init /\ [][Next]_vars

(* The event loop runs every task that can run, the model and the tools    *)
(* return (their calls have timeouts), and the job worker scans.           *)
FairSpec == Spec /\ \A t \in Turns : WF_vars(Step(t)) /\ WF_vars(StartJob(t))

-----------------------------------------------------------------------------
(* Properties.                                                             *)

TypeOK ==
  /\ \A g \in Gates :
       /\ gate[g].free \in 0 .. Size(g)
       /\ gate[g].depth \in [Tasks -> 0 .. 2]
       /\ gate[g].queue \in Seq(Tasks)
  /\ pc \in [Turns -> Places]
  /\ \A t \in Turns : IF pc[t] \in {"none", "queued", "done"} THEN entered[t] = 0
                                                             ELSE entered[t] \in 0 .. Len(Frames(t))
  /\ home \in [Turns -> Sessions \cup {NoSession}]
  /\ session \in [Turns -> Sessions \cup {NoSession}]
  /\ view \in [Turns -> Seq(Message)] /\ hist \in [Sessions -> Seq(Message)]
  /\ rounds \in [Turns -> 0 .. MaxRounds]
  /\ created \subseteq Sessions /\ rolled \subseteq created \cap Spare /\ mixed \subseteq created
  /\ interrupted \subseteq Turns

(* No place of a gate is lost or made up, nobody waits while one is free,  *)
(* and nobody waits twice or for what it has: the hand-over of             *)
(* asyncio.Semaphore and the depths of context.py agree.                   *)
Inside(r) == {o \in Tasks : r.depth[o] > 0}

Conserved(r, n) ==
  /\ r.free + Cardinality(Inside(r)) = n
  /\ r.free > 0 => r.queue = <<>>
  /\ \A i \in 1 .. Len(r.queue) :
       /\ r.queue[i] \notin Inside(r)
       /\ \A j \in 1 .. Len(r.queue) : r.queue[i] = r.queue[j] => i = j

PlacesAreConserved == \A g \in Gates : Conserved(gate[g], Size(g))

(* A turn that is over, or has not begun, holds no gate and waits for      *)
(* none, whatever cut it short: no cancelled waiter gets a place.          *)
(* Violated before Python 3.12: the task wait_for makes takes a place of   *)
(* the agent that the job's task cannot give back.                         *)
EndedTurnsHoldNothing ==
  \A t \in Turns : pc[t] \in {"none", "queued", "done"} =>
    \A g \in Gates : \A part \in {"main", "acquire", "chat"} :
      gate[g].depth[<<t, part>>] = 0 /\ ~Waits(g, <<t, part>>)

(* max_concurrency of an agent bounds its turns, whichever worker runs     *)
(* them: messages, resumptions and jobs share one budget.                  *)
BudgetHolds ==
  \A a \in Agents :
    Cardinality({t \in Turns : pc[t] \in Active /\ AgentOf[home[t]] = a}) <= Capacity[a]

(* Two turns are at work in one session only if one of them rolled into    *)
(* it: the locks keep all others apart.                                    *)
TurnsMixOnRollOnly == mixed \subseteq rolled

(* "All turns of one parent session run strictly one after the other"      *)
(* (design 3.1, point 8).  Violated: a turn that compacts goes on in the   *)
(* new session under the lock of the old one.                              *)
TurnsAreSerialised == mixed = {}

(* What a turn has in memory is what the history says of its session: it   *)
(* read all that was written before it, and nobody writes besides it.      *)
ViewIsTheTranscript ==
  \A t \in Turns : pc[t] \in Active \ {"rolling"} /\ session[t] \notin mixed =>
                     view[t] = hist[session[t]]

(* The model is given tool calls with their results.  A call without       *)
(* results comes from a turn that was interrupted among its tools, or      *)
(* stands in a response that its finish reason made the last of its turn;  *)
(* results without a call were cut off theirs by a compaction.             *)
Unanswered(v, i) == /\ v[i].kind \in {"calls", "unrun"}
                    /\ i = Len(v) \/ v[i + 1].kind # "results"
Excused(m, cut) == m.kind = "unrun" \/ m.by \in cut
Orphaned(v, i)   == v[i].kind = "results" /\ (i = 1 \/ v[i - 1].kind # "calls")

BrokenExchangesHaveACause ==
  mixed = {} =>
    \A t \in Turns : pc[t] = "turn" =>
      \A i \in 1 .. Len(view[t]) :
        /\ Unanswered(view[t], i) => Excused(view[t][i], interrupted)
        /\ Orphaned(view[t], i) => i > 1 /\ view[t][i - 1].kind = "summary"

(* Every turn ends, also when agents wait for each other's jobs with their *)
(* places taken: the wait for a job is the one thing that times out.       *)
EveryTurnEnds ==
  \A t \in Turns : pc[t] \notin {"none", "done"} ~> pc[t] = "done"
=============================================================================
