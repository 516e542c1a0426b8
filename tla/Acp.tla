-------------------------------- MODULE Acp ---------------------------------
(***************************************************************************)
(* The ACP server: JSON-RPC requests from an editor, every one handled in  *)
(* a task of its own.  session/prompt runs a turn in another task, which   *)
(* session/cancel and session/close find in _prompt_tasks; session/load    *)
(* replaces the AgentSession of a session.  Sending never waits: nothing   *)
(* is awaited under _write_lock.  A turn waits for the session's lock, and *)
(* then for the model.  Turns are described in SessionGates; here a turn   *)
(* adds a question and, unless the rounds of its tool calls run out, an    *)
(* answer to the transcript and to the messages of its AgentSession.       *)
(*                                                                         *)
(* An AgentSession works on a SessionState, the stored session and its     *)
(* messages.  A compaction gives it another one, with a stored session of  *)
(* its own; the client and _prompt_tasks keep the old session's name.      *)
(***************************************************************************)
EXTENDS Integers, FiniteSets

CONSTANTS
  Prompts,       \* session/prompt requests
  Sessions,      \* session ids
  To,            \* To[p]: the sessions that p may be sent to
  MaxObjects,    \* bound: AgentSession and SessionState objects
  MaxCancels,    \* bound: cancel and close requests
  MaxResumed,    \* bound: sessions with parent turns of finished jobs
  None           \* no entry in _prompt_tasks, nobody in the lock, no session

ASSUME AcpAssumption ==
  /\ IsFiniteSet(Prompts) /\ IsFiniteSet(Sessions)
  /\ To \in [Prompts -> SUBSET Sessions]
  /\ None \notin Prompts /\ None \notin Sessions
  /\ MaxObjects \in Nat /\ MaxCancels \in Nat /\ MaxResumed \in Nat

VARIABLES
  protocol,      \* the version initialize agreed on
  server,        \* "serving", "draining" after EOF, "stopped"
  transcript,    \* transcript[s]: the stored messages of s
  object,        \* object[s]: the AgentSession in runtime.sessions, 0: none
  objects,       \* how many SessionStates were made; an AgentSession has the number of its first
  state,         \* state[o]: the SessionState of AgentSession o
  store,         \* store[n]: the session_id of SessionState n
  messages,      \* messages[n]: the messages of SessionState n
  task,          \* task[s]: the prompt in _prompt_tasks
  lock,          \* lock[s]: the prompt in the session's lock
  prompt,        \* prompt[p]: where p is
  outcome,       \* outcome[p]: the end of its turn, which the client is told
  shown,         \* shown[s]: the last state_update
  cancels,       \* how many cancel and close requests came
  resumed,       \* history: sessions to which the router added a dispatch result
  overlapped,    \* history: sessions with a prompt sent before another's answer
  reloaded,      \* history: sessions loaded while an AgentSession wrote to them
  rolled         \* history: sessions whose conversation a compaction moved

sessionVars == <<object, objects, state, store, reloaded, rolled>>
history     == <<transcript, messages>>
client      == <<outcome, shown>>
vars == <<protocol, server, transcript, object, objects, state, store, messages, task, lock, prompt,
          outcome, shown, cancels, resumed, overlapped, reloaded, rolled>>

Objects == 1 .. MaxObjects

(* scheduled: its task has not run yet; waiting: for a place of the agent; *)
(* queued: for the lock of the session key; compacting: from SessionState  *)
(* from; done: v1, the turn is over and the request's task has not         *)
(* noticed; lost: v2, cancelled before its first step.                     *)
Waits  == {"waiting", "queued", "turn", "compacting"}
Stages == Waits \cup {"idle", "scheduled", "done", "ended", "lost"}
Prompt == [stage : Stages, session : Sessions, object : 0 .. MaxObjects, cancelled : BOOLEAN,
           key : Sessions, from : 0 .. MaxObjects]
Live(p) == prompt[p].stage \in Waits \cup {"scheduled"}
Unanswered(s) == {p \in Prompts : prompt[p].session = s /\ (Live(p) \/ prompt[p].stage = "done")}

Question(p) == [by |-> p, kind |-> "question"]
Answer(p)   == [by |-> p, kind |-> "answer"]
Result(s)   == [by |-> s, kind |-> "result"]
Summary(s)  == [by |-> s, kind |-> "summary"]

(* An AgentSession other than the registered one of s writes to s: of a    *)
(* live prompt, or registered for a session that a compaction moved here.  *)
Written(s) ==
  \/ \E p \in Prompts : Live(p) /\ store[state[prompt[p].object]] = s
  \/ \E x \in Sessions \ {s} : object[x] # 0 /\ store[state[object[x]]] = s

(* initialize: 1 or 2, SUPPORTED_PROTOCOL_VERSIONS. *)
Init ==
  /\ protocol \in {1, 2}
  /\ server = "serving"
  /\ transcript = [s \in Sessions |-> {}]
  /\ object = [s \in Sessions |-> 0] /\ objects = 0
  /\ state = [o \in Objects |-> 0] /\ store = [o \in Objects |-> None]
  /\ messages = [o \in Objects |-> {}]
  /\ task = [s \in Sessions |-> None] /\ lock = [s \in Sessions |-> None]
  /\ prompt \in [Prompts -> {[stage |-> "idle", session |-> s, object |-> 0, cancelled |-> FALSE,
                              key |-> s, from |-> 0] : s \in Sessions}]
  /\ \A p \in Prompts : prompt[p].session \in To[p]
  /\ outcome = [p \in Prompts |-> "none"]
  /\ shown = [s \in Sessions |-> "idle"]
  /\ cancels = 0 /\ resumed = {}
  /\ overlapped = {} /\ reloaded = {} /\ rolled = {}

-----------------------------------------------------------------------------
(* Requests.                                                               *)

(* Broken on purpose: a loaded session starts without its messages. *)
NewStateEmpty(s, known) ==
  /\ objects < MaxObjects /\ objects' = objects + 1
  /\ store' = [store EXCEPT ![objects + 1] = s]
  /\ UNCHANGED messages

(* SessionState, with messages that are already stored. *)
NewState(s, known) ==
  /\ objects < MaxObjects /\ objects' = objects + 1
  /\ store' = [store EXCEPT ![objects + 1] = s]
  /\ messages' = [messages EXCEPT ![objects + 1] = known]

(* _register_session: an AgentSession with the stored messages, of which   *)
(* there are none in session/new.                                          *)
Register(s) ==
  /\ NewState(s, transcript[s])
  /\ object' = [object EXCEPT ![s] = objects + 1]
  /\ state' = [state EXCEPT ![objects + 1] = objects + 1]
  /\ reloaded' = IF Written(s) THEN reloaded \cup {s} ELSE reloaded
  /\ UNCHANGED rolled

(* session/new, session/load, session/resume. *)
LoadSession(s) ==
  /\ server = "serving"
  /\ Register(s)
  /\ UNCHANGED <<protocol, server, transcript, task, lock, prompt, client, cancels, resumed, overlapped>>

(* session/prompt: _run_v1_prompt until it awaits, or _start_v2_prompt. *)
SendPrompt(p) ==
  LET s == prompt[p].session IN
  /\ server = "serving" /\ prompt[p].stage = "idle"
  /\ IF object[s] = 0
     THEN /\ outcome' = [outcome EXCEPT ![p] = "error"]      \* Session not found
          /\ prompt' = [prompt EXCEPT ![p].stage = "ended"]
          /\ UNCHANGED <<task, overlapped>>
     ELSE /\ prompt' = [prompt EXCEPT ![p].stage = "scheduled", ![p].object = object[s]]
          /\ task' = [task EXCEPT ![s] = p]
          /\ overlapped' = IF Unanswered(s) = {} THEN overlapped ELSE overlapped \cup {s}
          /\ UNCHANGED outcome
  /\ UNCHANGED <<protocol, server, history, sessionVars, lock, shown, cancels, resumed>>

(* task.cancel() of the registered task, if it is still there to cancel. *)
CancelTask(s) ==
  prompt' = IF task[s] # None /\ Live(task[s])
            THEN [prompt EXCEPT ![task[s]].cancelled = TRUE] ELSE prompt

(* Broken on purpose: a cancel takes the entry out at once. *)
CancelAndForget(s) ==
  /\ server = "serving" /\ cancels < MaxCancels
  /\ cancels' = cancels + 1
  /\ CancelTask(s)
  /\ task' = [task EXCEPT ![s] = None]
  /\ UNCHANGED <<protocol, server, history, sessionVars, lock, client, resumed, overlapped>>

(* session/cancel. *)
CancelSession(s) ==
  /\ server = "serving" /\ cancels < MaxCancels
  /\ cancels' = cancels + 1
  /\ CancelTask(s)
  /\ UNCHANGED <<protocol, server, history, sessionVars, task, lock, client, resumed, overlapped>>

(* session/close: the session can be loaded again. *)
CloseSession(s) ==
  /\ server = "serving" /\ cancels < MaxCancels
  /\ object[s] # 0
  /\ cancels' = cancels + 1
  /\ CancelTask(s)
  /\ object' = [object EXCEPT ![s] = 0]
  /\ UNCHANGED <<protocol, server, history, objects, state, store, reloaded, rolled, task, lock, client, resumed, overlapped>>

-----------------------------------------------------------------------------
(* The task of a prompt.                                                   *)

(* The first step: v2 tells that the session is running. *)
Start(p) ==
  LET s == prompt[p].session IN
  /\ prompt[p].stage = "scheduled" /\ ~prompt[p].cancelled
  /\ prompt' = [prompt EXCEPT ![p].stage = "waiting"]
  /\ shown' = IF protocol = 2 THEN [shown EXCEPT ![s] = "running"] ELSE shown
  /\ UNCHANGED <<protocol, server, history, sessionVars, task, lock, outcome, cancels, resumed, overlapped>>

(* The end of a turn.  v2 tells its outcome and takes the session's entry  *)
(* out, whoever's it is; v1 does so in the task of the request.            *)
EndsAs(p, how) ==
  LET s == prompt[p].session IN
  IF protocol = 2
  THEN /\ prompt' = [prompt EXCEPT ![p].stage = "ended"]
       /\ outcome' = [outcome EXCEPT ![p] = how]
       /\ shown' = [shown EXCEPT ![s] = "idle"]
       /\ task' = [task EXCEPT ![s] = None]
  ELSE /\ prompt' = [prompt EXCEPT ![p].stage = "done"]
       /\ outcome' = [outcome EXCEPT ![p] = how]
       /\ UNCHANGED <<shown, task>>

(* Cancelled before its first step: the body of run_turn never runs, and   *)
(* neither does its finally clause. *)
NeverStarts(p) ==
  /\ prompt[p].stage = "scheduled" /\ prompt[p].cancelled
  /\ IF protocol = 2
     THEN prompt' = [prompt EXCEPT ![p].stage = "lost"] /\ UNCHANGED <<client, task>>
     ELSE EndsAs(p, "cancelled")
  /\ UNCHANGED <<protocol, server, history, sessionVars, lock, cancels, resumed, overlapped>>

(* AgentSession.chat: with a place, it waits for the lock of the session   *)
(* it then writes to.                                                      *)
Pass(p) ==
  /\ prompt[p].stage = "waiting" /\ ~prompt[p].cancelled
  /\ prompt' = [prompt EXCEPT ![p].stage = "queued", ![p].key = store[state[prompt[p].object]]]
  /\ UNCHANGED <<protocol, server, history, sessionVars, task, lock, client, cancels, resumed, overlapped>>

(* add_message: to the session and to the messages of the SessionState     *)
(* that AgentSession o has now.                                            *)
AddMessage(o, m) ==
  /\ transcript' = [transcript EXCEPT ![store[state[o]]] = @ \cup {m}]
  /\ messages' = [messages EXCEPT ![state[o]] = @ \cup {m}]

(* The question is added under the lock. *)
Enter(p) ==
  /\ prompt[p].stage = "queued" /\ ~prompt[p].cancelled
  /\ lock[prompt[p].key] = None
  /\ lock' = [lock EXCEPT ![prompt[p].key] = p]
  /\ AddMessage(prompt[p].object, Question(p))
  /\ prompt' = [prompt EXCEPT ![p].stage = "turn"]
  /\ UNCHANGED <<protocol, server, sessionVars, task, client, cancels, resumed, overlapped>>

(* Session ids that nobody has. *)
Fresh == {t \in Sessions : transcript[t] = {} /\ object[t] = 0 /\ \A o \in Objects : store[o] # t}

(* The conversation has become too long: the model is asked for a summary  *)
(* of the first messages of the SessionState.  Bounded by MaxObjects.      *)
Compact(p) ==
  /\ prompt[p].stage = "turn" /\ ~prompt[p].cancelled
  /\ Fresh # {} /\ objects < MaxObjects
  /\ prompt' = [prompt EXCEPT ![p].stage = "compacting", ![p].from = state[prompt[p].object]]
  /\ UNCHANGED <<protocol, server, history, sessionVars, task, lock, client, cancels, resumed, overlapped>>

(* A new session t with the summary and the other messages.  It is         *)
(* created before the summary is; one whose turn is cancelled then stays   *)
(* empty and is left out.                                                  *)
Roll(p) ==
  LET n == prompt[p].from IN
  /\ prompt[p].stage = "compacting" /\ ~prompt[p].cancelled
  /\ \E t \in Fresh, kept \in SUBSET messages[n] :
       /\ NewState(t, kept \cup {Summary(t)})
       /\ transcript' = [transcript EXCEPT ![t] = kept \cup {Summary(t)}]
  /\ state' = [state EXCEPT ![prompt[p].object] = objects + 1]
  /\ rolled' = rolled \cup {prompt[p].session}
  /\ prompt' = [prompt EXCEPT ![p].stage = "turn", ![p].from = 0]
  /\ UNCHANGED <<protocol, server, object, reloaded, task, lock, client, cancels, resumed, overlapped>>

(* Broken on purpose: only the end of a turn releases the lock. *)
UnlockAtEnd(p) ==
  lock' = [s \in Sessions |-> IF lock[s] = p /\ ~prompt[p].cancelled THEN None ELSE lock[s]]

Unlock(p) == lock' = [s \in Sessions |-> IF lock[s] = p THEN None ELSE lock[s]]

(* The model answers: the answer is stored and chat returns. *)
Answered(p) ==
  /\ prompt[p].stage = "turn" /\ ~prompt[p].cancelled
  /\ AddMessage(prompt[p].object, Answer(p))
  /\ Unlock(p) /\ EndsAs(p, "end_turn")
  /\ UNCHANGED <<protocol, server, sessionVars, cancels, resumed, overlapped>>

(* max_tool_rounds_per_turn: chat returns a text that is not stored, and   *)
(* the stop reason is end_turn as well.                                    *)
OutOfRounds(p) ==
  /\ prompt[p].stage = "turn" /\ ~prompt[p].cancelled
  /\ Unlock(p) /\ EndsAs(p, "limit")
  /\ UNCHANGED <<protocol, server, history, sessionVars, cancels, resumed, overlapped>>

(* Broken on purpose: the answer of a cancelled turn is stored all the     *)
(* same.                                                                   *)
StoredAnyway(p) ==
  LET s == prompt[p].session IN
  /\ prompt[p].stage \in Waits /\ prompt[p].cancelled
  /\ transcript' = [transcript EXCEPT ![s] = @ \cup {Answer(p)}]
  /\ Unlock(p) /\ EndsAs(p, "cancelled")
  /\ UNCHANGED <<protocol, server, messages, sessionVars, cancels, resumed, overlapped>>

(* CancelledError is raised where the turn waits. *)
Cancelled(p) ==
  /\ prompt[p].stage \in Waits /\ prompt[p].cancelled
  /\ Unlock(p) /\ EndsAs(p, "cancelled")
  /\ UNCHANGED <<protocol, server, history, sessionVars, cancels, resumed, overlapped>>

(* The model fails. *)
Failed(p) ==
  /\ prompt[p].stage \in {"turn", "compacting"} /\ ~prompt[p].cancelled
  /\ Unlock(p) /\ EndsAs(p, "error")
  /\ UNCHANGED <<protocol, server, history, sessionVars, cancels, resumed, overlapped>>

(* v1: the request's task takes the entry out and responds. *)
Respond(p) ==
  /\ prompt[p].stage = "done"
  /\ task' = [task EXCEPT ![prompt[p].session] = None]
  /\ prompt' = [prompt EXCEPT ![p].stage = "ended"]
  /\ UNCHANGED <<protocol, server, history, sessionVars, lock, client, cancels, resumed, overlapped>>

-----------------------------------------------------------------------------
(* The runtime.                                                            *)

(* CompletionRouter resumes a parent with an AgentSession of its own: the  *)
(* result reaches the transcript and not the registered AgentSession.      *)
Resumption(s) ==
  /\ server # "stopped" /\ transcript[s] # {}
  /\ lock[s] = None
  /\ resumed' = resumed \cup {s} /\ Cardinality(resumed') <= MaxResumed
  /\ transcript' = [transcript EXCEPT ![s] = @ \cup {Result(s)}]
  /\ UNCHANGED <<protocol, server, messages, sessionVars, task, lock, prompt, client, cancels, overlapped>>

(* EOF on stdin; serve waits for the tasks of the requests, which in v2    *)
(* are not the turns; then the runtime stops and asyncio.run cancels what  *)
(* is left. *)
Eof ==
  /\ server = "serving" /\ server' = "draining"
  /\ UNCHANGED <<protocol, history, sessionVars, task, lock, prompt, client, cancels, resumed, overlapped>>

Stop ==
  /\ server = "draining"
  /\ protocol = 1 => \A p \in Prompts : prompt[p].stage \in {"idle", "ended"}
  /\ server' = "stopped"
  /\ prompt' = [p \in Prompts |-> IF Live(p) THEN [prompt[p] EXCEPT !.cancelled = TRUE] ELSE prompt[p]]
  /\ UNCHANGED <<protocol, history, sessionVars, task, lock, client, cancels, resumed, overlapped>>

-----------------------------------------------------------------------------
Turn(p) == Compact(p) \/ Roll(p) \/ Answered(p) \/ OutOfRounds(p) \/ Failed(p) \/ Cancelled(p)
Runs(p) == Start(p) \/ NeverStarts(p) \/ Pass(p) \/ Enter(p) \/ Turn(p) \/ Respond(p)

Next ==
  \/ \E s \in Sessions : LoadSession(s) \/ CancelSession(s) \/ CloseSession(s) \/ Resumption(s)
  \/ \E p \in Prompts : SendPrompt(p) \/ Runs(p)
  \/ Eof \/ Stop

Spec == Init /\ [][Next]_vars

(* The loop runs every task that is ready, and the model answers. *)
FairSpec == Spec /\ \A p \in Prompts : WF_vars(Runs(p))

-----------------------------------------------------------------------------
TypeOK ==
  /\ protocol \in {1, 2} /\ server \in {"serving", "draining", "stopped"}
  /\ object \in [Sessions -> 0 .. MaxObjects] /\ objects \in 0 .. MaxObjects
  /\ task \in [Sessions -> Prompts \cup {None}] /\ lock \in [Sessions -> Prompts \cup {None}]
  /\ prompt \in [Prompts -> Prompt]
  /\ outcome \in [Prompts -> {"none", "end_turn", "limit", "cancelled", "error"}]
  /\ state \in [Objects -> 0 .. objects] /\ store \in [Objects -> Sessions \cup {None}]
  /\ shown \in [Sessions -> {"idle", "running"}]
  /\ cancels \in Nat /\ resumed \subseteq Sessions
  /\ overlapped \subseteq Sessions /\ reloaded \subseteq Sessions /\ rolled \subseteq Sessions

(* session/cancel and session/close reach the running turn, unless the     *)
(* client sent a second prompt meanwhile: then the entry of _prompt_tasks  *)
(* is the other's, or gone with the other's end.                           *)
LivePromptIsReachable ==
  \A p \in Prompts : Live(p) => task[prompt[p].session] = p \/ prompt[p].session \in overlapped

(* The end of a turn that the client is told is what is stored: an answer  *)
(* of a turn that ended with one, and none of a turn that was cancelled,   *)
(* failed or ran out of rounds, in whatever order cancel, lock, compaction *)
(* and model come.  The answer is in the session of the prompt unless a    *)
(* compaction moved the conversation.                                      *)
OutcomeMatchesTranscript ==
  \A p \in Prompts :
    LET s == prompt[p].session IN
    /\ (\E t \in Sessions : Answer(p) \in transcript[t]) <=> outcome[p] = "end_turn"
    /\ outcome[p] = "end_turn" => Answer(p) \in transcript[s] \/ s \in rolled

(* A turn has the whole of the conversation in the session that it writes  *)
(* to, unless that was loaded while another AgentSession wrote to it, or a *)
(* job's result was added meanwhile.  It writes to the session it was sent *)
(* to, unless a compaction moved its conversation; loaded again, that      *)
(* session has the old one.                                                *)
TurnSeesTheConversation ==
  \A p \in Prompts :
    LET n == state[prompt[p].object]
        t == store[n]
    IN prompt[p].stage = "turn" =>
         /\ messages[n] = transcript[t] \/ t \in reloaded \/ t \in resumed
         /\ t = prompt[p].session \/ prompt[p].session \in rolled

(* Every prompt that is sent is answered in the end, but for one that v2   *)
(* cancelled before its first step: the client never learns that it ended. *)
EveryPromptIsAnswered ==
  <>[](\A p \in Prompts : prompt[p].stage \in {"idle", "lost"} \/ outcome[p] # "none")
=============================================================================
