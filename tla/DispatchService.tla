-------------------------- MODULE DispatchService --------------------------
(***************************************************************************)
(* DispatchJobService and the subagent tools as one parent agent uses them *)
(* turn by turn: what a status call answers while the job goes its way.    *)
(* Jobs live in the store, of which this module takes what it promises     *)
(* (JobLifecycle); the tables of the service live in memory.  The turns of *)
(* a conversation come one after the other; a compaction inside a turn     *)
(* gives the conversation another session.                                 *)
(*                                                                         *)
(* Two tables hold 4096 entries of all conversations; an entry that goes   *)
(* because another came is an action of its own (Overflow).                *)
(* ParentProofs extends this module beside Completion, hence the longer    *)
(* names of the specification's parts.                                     *)
(***************************************************************************)
EXTENDS Integers

CONSTANTS
  JobIds,        \* every job id there may be
  Conversations, \* the parents
  Ends,          \* the outcomes the worker reports
  MaxTurns,      \* bound: turns of a conversation
  MaxRolls,      \* bound: compactions of a conversation
  MaxRestarts,   \* bound: restarts of the process
  MaxOverflows   \* bound: entries the full tables lose

ASSUME ServiceAssumption ==
  /\ Ends \subseteq {"succeeded", "failed", "cancelled", "timed_out"}
  /\ MaxTurns \in Nat /\ MaxRolls \in Nat /\ MaxRestarts \in Nat /\ MaxOverflows \in Nat

VARIABLES
  phase, announced, \* the jobs: JobLifecycle
  owner,       \* owner[j]: parent_session_id
  creator,     \* creator[j]: the turn that submitted j first
  session,     \* session[c]: the session of the conversation, as the number of its compactions
  turn,        \* turn[c]: how many turns began
  inTurn,      \* the conversations with a turn under way
  snapshots,   \* _turn_snapshots
  submitted,   \* _submitted_turns
  polled,      \* the entries of _last_poll_at younger than poll_min_interval_seconds
  answers,     \* what status calls returned
  cut,         \* the entries the tables lost
  overflows,   \* how many
  restarts

jobVars     == <<phase, announced>>
callerVars  == <<session, turn, inTurn>>
memory      == <<snapshots, submitted, polled>>
serviceVars == <<jobVars, owner, creator, callerVars, memory, answers, cut, overflows, restarts>>

Life == INSTANCE JobLifecycle WITH Jobs <- JobIds

None == <<>>
TurnId(c)    == <<c, turn[c]>>
SessionId(c) == <<c, session[c]>>

ServiceInit ==
  /\ Life!Init
  /\ owner = [j \in JobIds |-> None] /\ creator = [j \in JobIds |-> None]
  /\ session = [c \in Conversations |-> 0] /\ turn = [c \in Conversations |-> 0] /\ inTurn = {}
  /\ snapshots = {} /\ submitted = {} /\ polled = {}
  /\ answers = {} /\ cut = {} /\ overflows = 0 /\ restarts = 0

-----------------------------------------------------------------------------
(* The tools.                                                              *)

(* Broken on purpose: only the replay of a call is noted. *)
NoteReplayOnly(c, j) ==
  submitted' = IF phase[j] = "absent" THEN submitted ELSE submitted \cup {<<TurnId(c), j>>}

(* The end of submit. *)
Note(c, j) == submitted' = submitted \cup {<<TurnId(c), j>>}

(* subagent_submit, or the first half of subagent_dispatch: a new job, or  *)
(* the job of an earlier execution of the same call.                       *)
Submit(c, j) ==
  /\ c \in inTurn
  /\ Life!Accept(j)
  /\ owner' = [owner EXCEPT ![j] = SessionId(c)]
  /\ creator' = [creator EXCEPT ![j] = TurnId(c)]
  /\ Note(c, j)
  /\ UNCHANGED <<callerVars, snapshots, polled, answers, cut, overflows, restarts>>

Replay(c, j) ==
  /\ c \in inTurn
  /\ owner[j] = SessionId(c) /\ phase[j] # "purged"
  /\ Note(c, j)
  /\ UNCHANGED <<jobVars, owner, creator, callerVars, snapshots, polled,
                 answers, cut, overflows, restarts>>

Snapshot(c, j) == {s \in snapshots : s.turn = TurnId(c) /\ s.job = j}
Owned(c, j)    == phase[j] \notin {"absent", "purged"} /\ owner[j] = SessionId(c)
TooSoon(c, j)  == phase[j] \in Life!Pending /\ <<SessionId(c), j>> \in polled

(* Asked again in the turn: the snapshot, before anything else is looked   *)
(* at.                                                                     *)
StatusAgain(c, j) ==
  /\ c \in inTurn /\ Snapshot(c, j) # {}
  /\ answers' = answers \cup Snapshot(c, j)
  /\ UNCHANGED <<jobVars, owner, creator, callerVars, memory, cut, overflows, restarts>>

Answer(c, j) == [turn |-> TurnId(c), job |-> j, phase |-> phase[j],
                 deferred |-> <<TurnId(c), j>> \in submitted]

(* Broken on purpose: a deferred answer is not kept. *)
StatusKeepingNews(c, j) ==
  /\ c \in inTurn /\ Snapshot(c, j) = {}
  /\ Owned(c, j) /\ ~TooSoon(c, j)
  /\ polled' = polled \cup {<<SessionId(c), j>>}
  /\ answers' = answers \cup {Answer(c, j)}
  /\ snapshots' = IF Answer(c, j).deferred THEN snapshots ELSE snapshots \cup {Answer(c, j)}
  /\ UNCHANGED <<jobVars, owner, creator, callerVars, submitted, cut, overflows, restarts>>

(* subagent_status: the first answer of the turn is kept.  A call for      *)
(* another session's job, or a call too soon, only gets an error.          *)
Status(c, j) ==
  /\ c \in inTurn /\ Snapshot(c, j) = {}
  /\ Owned(c, j) /\ ~TooSoon(c, j)
  /\ polled' = polled \cup {<<SessionId(c), j>>}
  /\ answers' = answers \cup {Answer(c, j)}
  /\ snapshots' = snapshots \cup {Answer(c, j)}
  /\ UNCHANGED <<jobVars, owner, creator, callerVars, submitted, cut, overflows, restarts>>

(* subagent_cancel, or the end of the wait of subagent_dispatch. *)
Cancel(c, j) ==
  /\ c \in inTurn /\ Owned(c, j)
  /\ \/ phase[j] = "queued" /\ Life!Conclude(j, "cancelled")
     \/ Life!AskToStop(j)
  /\ UNCHANGED <<owner, creator, callerVars, memory, answers, cut, overflows, restarts>>

-----------------------------------------------------------------------------
(* The callers, the clock, the worker, retention, and the end of the       *)
(* process, which loses the tables.                                        *)

BeginTurn(c) ==
  /\ c \notin inTurn /\ turn[c] < MaxTurns
  /\ inTurn' = inTurn \cup {c} /\ turn' = [turn EXCEPT ![c] = @ + 1]
  /\ UNCHANGED <<jobVars, owner, creator, session, memory, answers, cut, overflows, restarts>>

EndTurn(c) ==
  /\ c \in inTurn /\ inTurn' = inTurn \ {c}
  /\ UNCHANGED <<jobVars, owner, creator, session, turn, memory, answers, cut, overflows, restarts>>

Roll(c) ==
  /\ c \in inTurn /\ session[c] < MaxRolls
  /\ session' = [session EXCEPT ![c] = @ + 1]
  /\ UNCHANGED <<jobVars, owner, creator, turn, inTurn, memory, answers, cut, overflows, restarts>>

IntervalOver(p) ==
  /\ p \in polled /\ polled' = polled \ {p}
  /\ UNCHANGED <<jobVars, owner, creator, callerVars, snapshots, submitted,
                 answers, cut, overflows, restarts>>

(* More than 4096 entries: the oldest snapshot goes, and of the notes any  *)
(* one, for set.pop takes what it likes, the note just made included.      *)
Overflow ==
  /\ overflows < MaxOverflows /\ overflows' = overflows + 1
  /\ \/ \E s \in snapshots :
          snapshots' = snapshots \ {s} /\ cut' = cut \cup {<<s.turn, s.job>>} /\ UNCHANGED submitted
     \/ \E e \in submitted :
          submitted' = submitted \ {e} /\ cut' = cut \cup {e} /\ UNCHANGED snapshots
  /\ UNCHANGED <<jobVars, owner, creator, callerVars, polled, answers, restarts>>

JobGoesOn(j) ==
  /\ \/ Life!Start(j) \/ Life!Requeue(j) \/ Life!Forget({j})
     \/ phase[j] # "queued" /\ \E o \in Ends : Life!Conclude(j, o)
  /\ UNCHANGED <<owner, creator, callerVars, memory, answers, cut, overflows, restarts>>

Restart ==
  /\ restarts < MaxRestarts /\ restarts' = restarts + 1
  /\ inTurn' = {} /\ snapshots' = {} /\ submitted' = {} /\ polled' = {}
  /\ UNCHANGED <<jobVars, owner, creator, session, turn, answers, cut, overflows>>

ServiceNext ==
  \/ \E c \in Conversations, j \in JobIds :
       Submit(c, j) \/ Replay(c, j) \/ StatusAgain(c, j) \/ Status(c, j) \/ Cancel(c, j)
  \/ \E c \in Conversations : BeginTurn(c) \/ EndTurn(c) \/ Roll(c)
  \/ \E p \in polled : IntervalOver(p)
  \/ \E j \in JobIds : JobGoesOn(j)
  \/ Overflow \/ Restart

ServiceSpec == ServiceInit /\ [][ServiceNext]_serviceVars

-----------------------------------------------------------------------------
(* A job goes through its life below the service, and the service sees to  *)
(* it that every status call of a turn gets the same answer for a job      *)
(* (design 11), whatever the job does meanwhile; only a full table may     *)
(* break that.                                                             *)
OneAnswerPerTurn ==
  \A a, b \in answers :
    a.turn = b.turn /\ a.job = b.job => a = b \/ <<a.turn, a.job>> \in cut

(* Only the conversation that submitted a job is told of it (design 16),   *)
(* though snapshots are looked up before the owner is; and the turn that   *)
(* submitted it is told that the answer is deferred (design 11), unless a  *)
(* full table dropped the note.                                            *)
AnswersFitTheCreator ==
  \A a \in answers :
    /\ a.turn[1] = creator[a.job][1]
    /\ a.turn = creator[a.job] => a.deferred \/ <<a.turn, a.job>> \in cut

(* What the description of subagent_status says: a previously submitted    *)
(* job can be read.  After a compaction it cannot.                         *)
SubmittedJobsCanBeRead ==
  \A c \in Conversations, j \in JobIds :
    creator[j] # None /\ creator[j][1] = c /\ phase[j] # "purged" => Owned(c, j)
=============================================================================
