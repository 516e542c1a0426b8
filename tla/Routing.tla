------------------------------ MODULE Routing ------------------------------
(***************************************************************************)
(* Which session a source's messages go to: RoutingTable and the part of   *)
(* Config it uses.  Config.sources is in memory, config.runtime.yaml on    *)
(* disk; set_runtime writes the file only, and memory learns of it when    *)
(* the whole configuration is loaded again: at start, or when the watchdog *)
(* thread sees config.user.yaml change.                                    *)
(*                                                                         *)
(* The event loop runs these operations without an await, but the watchdog *)
(* thread may load and the process may die between the truncation of the   *)
(* file and its new text, which is smaller than the write buffer and gets  *)
(* there at once.  The text is made by yaml.dump and read by               *)
(* yaml.safe_load: a SourceSessionConfig that is dumped inside a dict      *)
(* comes out as a tagged Python object, which safe_load rejects.           *)
(***************************************************************************)
EXTENDS Integers, FiniteSets, Sequences

CONSTANTS
  Sources,       \* platform sources, none of them the CLI
  NoSource,
  MaxSessions,   \* bound: sessions created
  MaxFaults      \* bound: loads and crashes

ASSUME RoutingAssumption ==
  /\ NoSource \notin Sources
  /\ MaxSessions \in Nat
  /\ MaxFaults \in Nat

(* Sessions are numbered as they are created. *)
Sessions  == 1 .. MaxSessions
NoSession == 0
Affinity  == [Sources -> Sessions \cup {NoSession}]
Nowhere   == [s \in Sources |-> NoSession]

VARIABLES
  up,            \* the process runs
  owner,         \* owner[i]: the source of the i-th session, in the history
  sources,       \* Config.sources
  default,       \* Config.default_delivery_source
  runtime,       \* "sources" of config.runtime.yaml
  runtimeDefault,\* "default_delivery_source" of config.runtime.yaml
  file,          \* whole; torn: truncated, not written; unsafe: safe_load raises
  writes,        \* set_runtime calls the running operation has still to make
  conversation,  \* conversation[s]: the session the user of s is talking in
  cleared,       \* sessions that were told to be cleared
  split,         \* sources one of whose messages left the conversation
  revived,       \* sources one of whose messages went to a cleared session
  faults         \* how many loads and crashes there were

memory == <<sources, default>>
disk   == <<runtime, runtimeDefault, file>>
talk   == <<conversation, cleared, split, revived>>
vars   == <<up, owner, memory, disk, writes, talk, faults>>

SetSource(s, i)  == [key |-> "source",  source |-> s, session |-> i]
SetDefault(s)    == [key |-> "default", source |-> s]
SetSources(map)  == [key |-> "sources", map |-> map]

Updates == [key : {"source"}, source : Sources, session : Sessions]
           \cup [key : {"default"}, source : Sources]
           \cup [key : {"sources"}, map : Affinity]

Init ==
  /\ up = TRUE
  /\ owner = <<>>
  /\ sources = Nowhere /\ runtime = Nowhere
  /\ default = NoSource /\ runtimeDefault = NoSource
  /\ file = "whole"
  /\ writes = <<>>
  /\ conversation = Nowhere
  /\ cleared = {} /\ split = {} /\ revived = {}
  /\ faults = 0

Idle == up /\ writes = <<>>
NewSession == Len(owner) + 1

-----------------------------------------------------------------------------
(* set_runtime: read the file, truncate it, write it.                      *)

Truncate ==
  /\ up /\ writes # <<>> /\ file = "whole"
  /\ file' = "torn"
  /\ UNCHANGED <<up, owner, memory, runtime, runtimeDefault, writes, talk, faults>>

(* Broken on purpose: the dict is turned into plain data first. *)
IsSafeAsPlainData(update) == update.key \in {"source", "default", "sources"}

(* Sessions of the dict are SourceSessionConfig objects. *)
IsSafe(update) == update.key # "sources" \/ update.map = Nowhere

Dump ==
  /\ up /\ writes # <<>> /\ file = "torn"
  /\ LET update == Head(writes) IN
       /\ runtime' = IF update.key = "source"
                     THEN [runtime EXCEPT ![update.source] = update.session]
                     ELSE IF update.key = "sources" THEN update.map ELSE runtime
       /\ runtimeDefault' = IF update.key = "default" THEN update.source ELSE runtimeDefault
       /\ file' = IF IsSafe(update) THEN "whole" ELSE "unsafe"
  /\ writes' = Tail(writes)
  /\ UNCHANGED <<up, owner, memory, talk, faults>>

(* safe_load raises: the operation ends in its caller's error handler. *)
WriteFails ==
  /\ up /\ writes # <<>> /\ file = "unsafe"
  /\ writes' = <<>>
  /\ UNCHANGED <<up, owner, memory, disk, talk, faults>>

-----------------------------------------------------------------------------
(* Operations.                                                             *)

(* Where the message goes, and what is said of it. *)
Goes(s, i) ==
  /\ conversation' = [conversation EXCEPT ![s] = i]
  /\ split' = IF conversation[s] \notin {NoSession, i} THEN split \cup {s} ELSE split
  /\ revived' = IF i \in cleared THEN revived \cup {s} ELSE revived
  /\ UNCHANGED cleared

(* ChannelWorker's callback for a message of source s. *)
DefaultWrites(s) == IF default = NoSource THEN <<SetDefault(s)>> ELSE <<>>

KnownSource(s) ==
  /\ Idle /\ sources[s] # NoSession
  /\ file = "unsafe" => default # NoSource
  /\ Goes(s, sources[s])
  /\ writes' = DefaultWrites(s)
  /\ UNCHANGED <<up, owner, memory, disk, faults>>

(* Broken on purpose: the file names the session before it exists. *)
NewSourceFileFirst(s) ==
  /\ Idle /\ sources[s] = NoSession
  /\ file # "unsafe"
  /\ Len(owner) < MaxSessions
  /\ Goes(s, NewSession)
  /\ writes' = Append(DefaultWrites(s), SetSource(s, NewSession))
  /\ UNCHANGED <<up, owner, memory, disk, faults>>

(* get_or_create_session_id: the history knows the new session before the  *)
(* file does.                                                              *)
NewSource(s) ==
  /\ Idle /\ sources[s] = NoSession
  /\ file # "unsafe"
  /\ Len(owner) < MaxSessions
  /\ owner' = Append(owner, s)
  /\ Goes(s, NewSession)
  /\ writes' = Append(DefaultWrites(s), SetSource(s, NewSession))
  /\ UNCHANGED <<up, memory, disk, faults>>

(* The file cannot be read: the message is lost, a session may be left. *)
MessageLost(s) ==
  /\ Idle /\ file = "unsafe"
  /\ default = NoSource \/ sources[s] = NoSession
  /\ owner' = IF default # NoSource /\ Len(owner) < MaxSessions THEN Append(owner, s) ELSE owner
  /\ UNCHANGED <<up, memory, disk, writes, talk, faults>>

(* compact_and_roll, up to the call of the model, in a turn of session i. *)
Roll(i) ==
  /\ Idle /\ i \in 1 .. Len(owner)
  /\ Len(owner) < MaxSessions
  /\ LET s == owner[i] IN
       /\ owner' = Append(owner, s)
       /\ writes' = <<SetSource(s, NewSession)>>
       /\ conversation' = IF conversation[s] = i THEN [conversation EXCEPT ![s] = NewSession]
                                                 ELSE conversation
       /\ cleared' = IF i \in cleared THEN cleared \cup {NewSession} ELSE cleared
  /\ UNCHANGED <<up, memory, disk, split, revived, faults>>

(* ClearCommand, in the session the user is talking in. *)
Clear(s) ==
  /\ Idle /\ conversation[s] # NoSession
  /\ sources' = [sources EXCEPT ![s] = NoSession]
  /\ writes' = IF sources[s] # NoSession THEN <<SetSources(sources')>> ELSE <<>>
  /\ cleared' = cleared \cup {conversation[s]}
  /\ conversation' = [conversation EXCEPT ![s] = NoSession]
  /\ UNCHANGED <<up, owner, default, disk, split, revived, faults>>

-----------------------------------------------------------------------------
(* Loading.                                                                *)

(* What safe_load finds: a file between truncation and text is empty. *)
Loaded        == IF file = "torn" THEN Nowhere ELSE runtime
LoadedDefault == IF file = "torn" THEN NoSource ELSE runtimeDefault

(* Config.reload, in the watchdog thread: a load that fails changes nothing. *)
Reload ==
  /\ up /\ file # "unsafe" /\ faults < MaxFaults
  /\ sources' = Loaded
  /\ default' = LoadedDefault
  /\ faults' = faults + 1
  /\ UNCHANGED <<up, owner, disk, writes, talk>>

Crash ==
  /\ up /\ faults < MaxFaults
  /\ up' = FALSE
  /\ runtime' = Loaded
  /\ runtimeDefault' = LoadedDefault
  /\ file' = IF file = "torn" THEN "whole" ELSE file
  /\ writes' = <<>>
  /\ faults' = faults + 1
  /\ UNCHANGED <<owner, memory, talk>>

(* Config.load: an unsafe file keeps the process from starting. *)
Start ==
  /\ ~up /\ file # "unsafe"
  /\ up' = TRUE
  /\ sources' = runtime
  /\ default' = runtimeDefault
  /\ UNCHANGED <<owner, disk, writes, talk, faults>>

Next ==
  \/ Truncate \/ Dump \/ WriteFails
  \/ \E s \in Sources : KnownSource(s) \/ NewSource(s) \/ MessageLost(s) \/ Clear(s)
  \/ \E i \in Sessions : Roll(i)
  \/ Reload \/ Crash \/ Start

Spec == Init /\ [][Next]_vars

-----------------------------------------------------------------------------
(* Properties.                                                             *)

TypeOK ==
  /\ up \in BOOLEAN
  /\ owner \in Seq(Sources) /\ Len(owner) <= MaxSessions
  /\ sources \in Affinity /\ runtime \in Affinity /\ conversation \in Affinity
  /\ {default, runtimeDefault} \subseteq Sources \cup {NoSource}
  /\ file \in {"whole", "torn", "unsafe"}
  /\ writes \in Seq(Updates) /\ Len(writes) <= 2
  /\ file = "torn" => writes # <<>>
  /\ ~up => writes = <<>>
  /\ cleared \subseteq Sessions
  /\ split \subseteq Sources /\ revived \subseteq Sources
  /\ faults \in 0 .. MaxFaults

(* Memory and file name only sessions the history knows, and only of the   *)
(* source itself: no crash leaves a source with a session that was never   *)
(* made (new_session comes before set_runtime), and no one else's.         *)
OwnSession(s, i) == i # NoSession => i <= Len(owner) /\ owner[i] = s

AffinityIsOwned ==
  \A s \in Sources : OwnSession(s, sources[s]) /\ OwnSession(s, runtime[s])

(* A file that can be loaded never takes a source back to an older session *)
(* than it named before, though a clear overwrites it with the sessions    *)
(* memory knows, which may be older.                                       *)
AffinityNeverGoesBack ==
  [][file' = "whole" =>
       \A s \in Sources : runtime'[s] # NoSession => runtime'[s] >= runtime[s]]_vars

(* "Get existing or create new session_id for source" (core/routing.py:75). *)
(* Violated: a session made since the last load is on disk only, and each  *)
(* message of its source gets another.                                     *)
SourceKeepsItsSession == faults = 0 => split = {}

(* "Conversation cleared. Next message starts fresh."                      *)
(* (core/commands/handlers.py:97).  Violated: the clear removes what is in *)
(* memory, the session on disk comes back with the next load.              *)
ClearedStaysCleared == revived = {}

(* "Set default delivery source only on first non-CLI platform message"    *)
(* (server/channel_worker.py:50).  Violated: memory does not learn of it   *)
(* either, and the next source overwrites it.                              *)
DefaultIsTheFirst ==
  [][runtimeDefault # NoSource /\ up' => runtimeDefault' = runtimeDefault]_vars

(* "Update a runtime value in config.runtime.yaml" (utils/config.py:347):  *)
(* it stays a file set_runtime and load can read.  Violated: a clear while *)
(* another source is known dumps objects into it.                          *)
RuntimeStaysReadable == file # "unsafe"

=============================================================================
