----------------------------- MODULE AcpProofs -----------------------------
(***************************************************************************)
(* What a client of the ACP server can rely on, in both protocol versions, *)
(* for any prompts and sessions and any number of cancels, loads,          *)
(* compactions and resumptions.                                            *)
(***************************************************************************)
EXTENDS Acp, TLAPS

Session(p) == prompt[p].session

(* Not idle, and the client has not been answered. *)
Open(p) == Live(p) \/ prompt[p].stage = "done"

Types ==
  /\ prompt \in [Prompts -> Prompt]
  /\ task \in [Sessions -> Prompts \cup {None}]
  /\ object \in [Sessions -> 0 .. MaxObjects] /\ objects \in 0 .. MaxObjects
  /\ DOMAIN state = Objects /\ DOMAIN store = Objects /\ DOMAIN messages = Objects
  /\ DOMAIN transcript = Sessions /\ DOMAIN outcome = Prompts

(* A session has an AgentSession by the registry or by a live prompt.      *)
Has(s, o) ==
  \/ object[s] = o
  \/ \E p \in Prompts : Session(p) = s /\ Live(p) /\ prompt[p].object = o

Made == 1 .. objects
WritesTo(o) == store[state[o]]

(* An AgentSession belongs to one session, works on a SessionState of its  *)
(* own, and writes to its session until a compaction.                      *)
Held ==
  /\ \A n \in Made : store[n] \in Sessions
  /\ \A n \in Objects \ Made : store[n] = None
  /\ \A p \in Prompts : Live(p) => prompt[p].object \in Made
  /\ \A p \in Prompts : prompt[p].stage = "compacting" => prompt[p].from \in Made
  /\ \A s \in Sessions, o \in Objects : Has(s, o) =>
        o \in Made /\ state[o] \in Made /\ (WritesTo(o) = s \/ s \in rolled)
  /\ \A s, t \in Sessions, o \in Objects : Has(s, o) /\ Has(t, o) => s = t
  /\ \A s, t \in Sessions, o, u \in Objects : Has(s, o) /\ Has(t, u) /\ state[o] = state[u] => o = u

Base == Types /\ Held

LEMMA MadeAreObjects == Types => Made \subseteq Objects
BY AcpAssumption DEF Types, Made, Objects

(* Prompt p is now at g, with its session and AgentSession; the others     *)
(* stay where they are.                                                    *)
Moves(p, g) ==
  /\ prompt' \in [Prompts -> Prompt] /\ prompt'[p].stage = g
  /\ \A q \in Prompts : /\ prompt'[q].session = prompt[q].session
                        /\ prompt'[q].object = prompt[q].object
                        /\ q # p => prompt'[q] = prompt[q]

LEMMA RecordsMove ==
  ASSUME Types, NEW p \in Prompts, NEW g \in Stages, NEW r \in Prompt,
         r.stage = g, r.session = prompt[p].session, r.object = prompt[p].object,
         prompt' = [prompt EXCEPT ![p] = r]
  PROVE  Moves(p, g) /\ prompt'[p].from = r.from
BY DEF Types, Moves

LEMMA StageMoves ==
  ASSUME Types, NEW p \in Prompts, NEW g \in Stages, prompt' = [prompt EXCEPT ![p].stage = g]
  PROVE  Moves(p, g)
<1>. DEFINE r == [prompt[p] EXCEPT !.stage = g]
<1>1. prompt[p] \in Prompt
  BY DEF Types
<1>2. r \in Prompt /\ r.stage = g /\ r.session = prompt[p].session /\ r.object = prompt[p].object
  BY <1>1 DEF Prompt
<1>3. prompt' = [prompt EXCEPT ![p] = r]
  OBVIOUS
<1>. HIDE DEF r
<1>. QED BY <1>2, <1>3, RecordsMove

LEMMA KeyMoves ==
  ASSUME Types, NEW p \in Prompts, NEW g \in Stages, NEW k \in Sessions,
         prompt' = [prompt EXCEPT ![p].stage = g, ![p].key = k]
  PROVE  Moves(p, g)
<1>. DEFINE r == [prompt[p] EXCEPT !.stage = g, !.key = k]
<1>1. prompt[p] \in Prompt /\ prompt \in [Prompts -> Prompt]
  BY DEF Types
<1>2. r \in Prompt /\ r.stage = g /\ r.session = prompt[p].session /\ r.object = prompt[p].object
  BY <1>1 DEF Prompt
<1>3. prompt' = [prompt EXCEPT ![p] = r]
  BY <1>1
<1>. HIDE DEF r
<1>. QED BY <1>2, <1>3, RecordsMove

LEMMA FromMoves ==
  ASSUME Types, NEW p \in Prompts, NEW g \in Stages, NEW f \in 0 .. MaxObjects,
         prompt' = [prompt EXCEPT ![p].stage = g, ![p].from = f]
  PROVE  Moves(p, g) /\ prompt'[p].from = f
<1>. DEFINE r == [prompt[p] EXCEPT !.stage = g, !.from = f]
<1>1. prompt[p] \in Prompt /\ prompt \in [Prompts -> Prompt]
  BY DEF Types
<1>2. /\ r \in Prompt /\ r.stage = g /\ r.session = prompt[p].session
      /\ r.object = prompt[p].object /\ r.from = f
  BY <1>1 DEF Prompt
<1>3. prompt' = [prompt EXCEPT ![p] = r]
  BY <1>1
<1>. HIDE DEF r
<1>. QED BY <1>2, <1>3, RecordsMove

LEMMA EndsMove ==
  ASSUME Types, NEW p \in Prompts, NEW how, EndsAs(p, how)
  PROVE  \E g \in {"done", "ended"} :
           /\ Moves(p, g)
           /\ outcome' = [outcome EXCEPT ![p] = how]
           /\ g = "done" => task' = task
           /\ task' = task \/ task' = [task EXCEPT ![Session(p)] = None]
<1>. PICK g \in {"done", "ended"} :
        /\ prompt' = [prompt EXCEPT ![p].stage = g]
        /\ outcome' = [outcome EXCEPT ![p] = how]
        /\ g = "done" => task' = task
        /\ task' = task \/ task' = [task EXCEPT ![Session(p)] = None]
  BY DEF EndsAs, Session
<1>1. g \in Stages
  BY DEF Stages
<1>2. Moves(p, g)
  BY <1>1, StageMoves
<1>. QED BY <1>2

(* A turn that goes on stays live; one that ends does so once, and gives   *)
(* the entry of _prompt_tasks away at its very end.                        *)
Onward(p, g) ==
  /\ Moves(p, g) /\ Open(p) /\ (g # "ended" => Live(p))
  /\ g \in Waits \cup {"done", "ended", "lost"}
  /\ overlapped' = overlapped
  /\ task' = task \/ (g = "ended" /\ task' = [task EXCEPT ![Session(p)] = None])
  /\ \/ outcome' = outcome
     \/ Live(p) /\ g \in {"done", "ended"} /\ \E how : outcome' = [outcome EXCEPT ![p] = how]
  /\ g = "compacting" => prompt'[p].from \in Made

LEMMA PromptsMove ==
  ASSUME Base, NEW p \in Prompts, Runs(p)
  PROVE  \E g \in Stages : Onward(p, g)
<1>. USE DEF client
<1>0. Types /\ Session(p) \in Sessions /\ 0 \in 0 .. MaxObjects
  BY AcpAssumption DEF Base, Types, Prompt, Session
<1>a. ASSUME Live(p)
      PROVE  /\ prompt[p].object \in Objects /\ WritesTo(prompt[p].object) \in Sessions
             /\ state[prompt[p].object] \in Made /\ state[prompt[p].object] \in 0 .. MaxObjects
  <2>1. prompt[p].object \in Made /\ Has(Session(p), prompt[p].object)
    BY <1>a DEF Base, Held, Has
  <2>2. prompt[p].object \in Objects
    BY <1>0, <2>1, MadeAreObjects
  <2>3. state[prompt[p].object] \in Made
    BY <1>0, <2>1, <2>2 DEF Base, Held
  <2>. QED BY <1>0, <2>2, <2>3, MadeAreObjects DEF Base, Held, WritesTo, Objects
<1>1. ASSUME NEW g \in Stages, g \in Waits \cup {"done", "ended", "lost"}, g # "compacting",
             prompt' = [prompt EXCEPT ![p].stage = g], Open(p), g # "ended" => Live(p),
             UNCHANGED <<overlapped, outcome>>,
             task' = task \/ (g = "ended" /\ task' = [task EXCEPT ![Session(p)] = None])
      PROVE  Onward(p, g)
  BY <1>0, <1>1, StageMoves DEF Onward
<1>2. CASE Start(p)
  BY <1>1, <1>2 DEF Start, Open, Live, Waits, Stages
<1>3. ASSUME NEW how, EndsAs(p, how), Live(p), overlapped' = overlapped
      PROVE  \E g \in Stages : Onward(p, g)
  <2>1. PICK g \in {"done", "ended"} :
          /\ Moves(p, g) /\ outcome' = [outcome EXCEPT ![p] = how]
          /\ g = "done" => task' = task
          /\ task' = task \/ task' = [task EXCEPT ![Session(p)] = None]
    BY <1>0, <1>3, EndsMove
  <2>. QED BY <1>3, <2>1 DEF Onward, Open, Live, Waits, Stages
<1>4. CASE NeverStarts(p)
  <2>1. CASE protocol = 2
    BY <1>1, <1>4, <2>1 DEF NeverStarts, Open, Live, Waits, Stages
  <2>2. CASE protocol # 2
    BY <1>3, <1>4, <2>2 DEF NeverStarts, Live
  <2>. QED BY <2>1, <2>2
<1>5. CASE Pass(p)
  <2>1. prompt[p].stage = "waiting"
    BY <1>5 DEF Pass
  <2>2. WritesTo(prompt[p].object) \in Sessions
    BY <1>a, <2>1 DEF Live, Waits
  <2>3. prompt' = [prompt EXCEPT ![p].stage = "queued", ![p].key = WritesTo(prompt[p].object)]
    BY <1>5 DEF Pass, WritesTo
  <2>4. "queued" \in Stages
    BY DEF Stages, Waits
  <2>5. Moves(p, "queued")
    BY <1>0, <2>2, <2>3, <2>4, KeyMoves
  <2>. QED BY <1>5, <2>1, <2>4, <2>5 DEF Onward, Open, Live, Waits, Pass
<1>6. CASE Enter(p)
  BY <1>1, <1>6 DEF Enter, Open, Live, Waits, Stages
<1>7. CASE Compact(p)
  <2>1. prompt[p].stage = "turn" /\ "compacting" \in Stages
    BY <1>7 DEF Compact, Stages, Waits
  <2>2. state[prompt[p].object] \in Made /\ state[prompt[p].object] \in 0 .. MaxObjects
    BY <1>a, <2>1 DEF Live, Waits
  <2>3. prompt' = [prompt EXCEPT ![p].stage = "compacting", ![p].from = state[prompt[p].object]]
    BY <1>7 DEF Compact
  <2>4. Moves(p, "compacting") /\ prompt'[p].from = state[prompt[p].object]
    BY <1>0, <2>1, <2>2, <2>3, FromMoves
  <2>. QED BY <1>7, <2>1, <2>2, <2>4 DEF Onward, Open, Live, Waits, Compact
<1>8. CASE Roll(p)
  <2>1. "turn" \in Stages /\ Moves(p, "turn")
    <3>1. "turn" \in Stages
      BY DEF Stages, Waits
    <3>. QED BY <1>0, <1>8, <3>1, FromMoves DEF Roll
  <2>. QED BY <1>8, <2>1 DEF Roll, Onward, Open, Live, Waits
<1>9. CASE Answered(p) \/ OutOfRounds(p) \/ Failed(p) \/ Cancelled(p)
  BY <1>3, <1>9 DEF Answered, OutOfRounds, Failed, Cancelled, Live, Waits
<1>10. CASE Respond(p)
  BY <1>1, <1>10 DEF Respond, Open, Live, Waits, Stages, Session, client
<1>. QED BY <1>2, <1>4, <1>5, <1>6, <1>7, <1>8, <1>9, <1>10 DEF Runs, Turn

(* A prompt that is cancelled stays where it is until its task runs.       *)
Stays ==
  /\ prompt' \in [Prompts -> Prompt]
  /\ \A p \in Prompts : /\ prompt'[p].session = prompt[p].session
                        /\ prompt'[p].stage = prompt[p].stage
                        /\ prompt'[p].object = prompt[p].object
                        /\ prompt'[p].from = prompt[p].from

LEMMA MarkedStays ==
  ASSUME NEW r \in Prompt
  PROVE  LET c == [r EXCEPT !.cancelled = TRUE] IN
         /\ c \in Prompt /\ c.session = r.session /\ c.stage = r.stage
         /\ c.object = r.object /\ c.from = r.from
BY DEF Prompt

LEMMA CancelTaskIsQuiet ==
  ASSUME Types, NEW s \in Sessions, CancelTask(s)
  PROVE  Stays
<1>1. prompt \in [Prompts -> Prompt]
  BY DEF Types
<1>2. CASE prompt' = prompt
  BY <1>1, <1>2 DEF Stays
<1>3. CASE prompt' # prompt
  <2>1. task[s] \in Prompts /\ prompt' = [prompt EXCEPT ![task[s]].cancelled = TRUE]
    BY <1>3 DEF CancelTask, Types
  <2>. DEFINE c == [prompt[task[s]] EXCEPT !.cancelled = TRUE]
  <2>2. /\ c \in Prompt /\ c.session = prompt[task[s]].session /\ c.stage = prompt[task[s]].stage
        /\ c.object = prompt[task[s]].object /\ c.from = prompt[task[s]].from
    BY <1>1, <2>1, MarkedStays
  <2>3. prompt' = [prompt EXCEPT ![task[s]] = c]
    BY <2>1
  <2>. HIDE DEF c
  <2>. QED BY <1>1, <2>1, <2>2, <2>3 DEF Stays
<1>. QED BY <1>2, <1>3

LEMMA StopIsQuiet ==
  ASSUME Types, Stop
  PROVE  Stays
<1>1. prompt \in [Prompts -> Prompt]
  BY DEF Types
<1>2. ASSUME NEW p \in Prompts
      PROVE  /\ prompt'[p] \in Prompt
             /\ prompt'[p].session = prompt[p].session /\ prompt'[p].stage = prompt[p].stage
             /\ prompt'[p].object = prompt[p].object /\ prompt'[p].from = prompt[p].from
  <2>1. prompt'[p] = prompt[p] \/ prompt'[p] = [prompt[p] EXCEPT !.cancelled = TRUE]
    BY DEF Stop
  <2>2. prompt[p] \in Prompt
    BY <1>1
  <2>. QED BY <2>1, <2>2, MarkedStays
<1>3. prompt' \in [Prompts -> Prompt]
  BY <1>2 DEF Stop
<1>. QED BY <1>2, <1>3 DEF Stays

LEMMA NewStateMakes ==
  ASSUME Types, NEW s, NEW known, NewState(s, known)
  PROVE  /\ objects + 1 \in Objects /\ objects' = objects + 1 /\ objects' \in 0 .. MaxObjects
         /\ DOMAIN store' = Objects /\ DOMAIN messages' = Objects
         /\ store'[objects + 1] = s /\ messages'[objects + 1] = known
         /\ \A n \in Objects \ {objects + 1} : store'[n] = store[n] /\ messages'[n] = messages[n]
         /\ Made' = Made \cup {objects + 1} /\ objects + 1 \notin Made
BY AcpAssumption DEF Types, NewState, Objects, Made

(* Prompts go on or end, and at most an entry of the registry goes.        *)
PromptsGoOn ==
  /\ \A p \in Prompts : /\ Session(p)' = Session(p)
                        /\ Live(p)' => Live(p) /\ prompt'[p].object = prompt[p].object
  /\ \A s \in Sessions : object'[s] \in {object[s], 0}

LEMMA GoingOnAddsNone ==
  ASSUME PromptsGoOn
  PROVE  \A s \in Sessions, o \in Objects : Has(s, o)' => Has(s, o)
BY DEF PromptsGoOn, Has, Objects

LEMMA GoingOnKeepsHeld ==
  ASSUME Base, PromptsGoOn, UNCHANGED <<objects, store, state, rolled>>,
         \A p \in Prompts : prompt'[p].stage = "compacting" =>
            prompt'[p].from \in Made \/ (prompt[p].stage = "compacting" /\ prompt'[p].from = prompt[p].from)
  PROVE  Held'
<1>1. \A s \in Sessions, o \in Objects : Has(s, o)' => Has(s, o)
  BY GoingOnAddsNone
<1>2. Made' = Made /\ Objects' = Objects
  BY DEF Made, Objects
<1>3. \A p \in Prompts : Live(p)' => prompt'[p].object \in Made
  BY DEF PromptsGoOn, Base, Held
<1>4. \A p \in Prompts : prompt'[p].stage = "compacting" => prompt'[p].from \in Made
  BY DEF Base, Held
<1>. QED BY <1>1, <1>2, <1>3, <1>4 DEF Base, Held, WritesTo

LEMMA MovingGoesOn ==
  ASSUME Types, NEW p \in Prompts, NEW g, Onward(p, g), object' = object
  PROVE  PromptsGoOn
BY DEF Onward, Moves, PromptsGoOn, Session, Live, Waits

(* A new AgentSession for s, on a SessionState of its own.                 *)
LEMMA LoadKeepsBase ==
  ASSUME Base, NEW s \in Sessions, LoadSession(s)
  PROVE  Base'
<1>. DEFINE n == objects + 1
<1>0. Types /\ Made \subseteq Objects
  BY MadeAreObjects DEF Base
<1>1. /\ n \in Objects /\ objects' = n /\ objects' \in 0 .. MaxObjects
      /\ DOMAIN store' = Objects /\ DOMAIN messages' = Objects /\ store'[n] = s
      /\ \A i \in Objects \ {n} : store'[i] = store[i]
      /\ Made' = Made \cup {n} /\ n \notin Made
  BY <1>0, NewStateMakes DEF LoadSession, Register
<1>2. /\ UNCHANGED <<prompt, task, transcript, outcome, rolled>>
      /\ object' = [object EXCEPT ![s] = n] /\ state' = [state EXCEPT ![n] = n]
  BY DEF LoadSession, Register, client
<1>. HIDE DEF n
<1>3. Types'
  BY <1>0, <1>1, <1>2 DEF Types, Objects
<1>4. /\ object'[s] = n /\ \A t \in Sessions \ {s} : object'[t] = object[t]
      /\ state'[n] = n /\ \A o \in Objects \ {n} : state'[o] = state[o]
  BY <1>0, <1>1, <1>2 DEF Types
<1>5. \A p \in Prompts : Live(p)' = Live(p) /\ Session(p)' = Session(p)
  BY <1>2 DEF Live, Session
<1>6. \A t \in Sessions, o \in Objects : Has(t, o)' => (Has(t, o) /\ o # n) \/ (t = s /\ o = n)
  <2>1. \A t \in Sessions, o \in Objects : Has(t, o) => o # n
    BY <1>1 DEF Base, Held
  <2>2. \A p \in Prompts : Live(p) => prompt[p].object # n
    BY <1>1 DEF Base, Held
  <2>. QED BY <1>2, <1>4, <1>5, <2>1, <2>2 DEF Has
<1>7. \A t \in Sessions, o \in Objects : Has(t, o) =>
        /\ o \in Made /\ o \in Made' /\ state'[o] = state[o] /\ state[o] \in Made' /\ state[o] # n
        /\ store'[state[o]] = store[state[o]]
        /\ store[state[o]] = t \/ t \in rolled
  BY <1>0, <1>1, <1>4 DEF Base, Held, WritesTo
<1>8. Held'
  <2>1. \A t \in Sessions, o \in Objects : Has(t, o)' =>
          o \in Made' /\ state'[o] \in Made' /\ (WritesTo(o)' = t \/ t \in rolled')
    BY <1>1, <1>2, <1>4, <1>6, <1>7 DEF WritesTo
  <2>2. \A t, x \in Sessions, o \in Objects : Has(t, o)' /\ Has(x, o)' => t = x
    BY <1>6 DEF Base, Held
  <2>3. \A t, x \in Sessions, o, u \in Objects : Has(t, o)' /\ Has(x, u)' /\ state'[o] = state'[u] => o = u
    <3>. SUFFICES ASSUME NEW t \in Sessions, NEW x \in Sessions, NEW o \in Objects, NEW u \in Objects,
                         Has(t, o)', Has(x, u)', state'[o] = state'[u]
         PROVE  o = u
      OBVIOUS
    <3>1. CASE o = n \/ u = n
      BY <1>4, <1>6, <1>7, <3>1
    <3>2. CASE o # n /\ u # n
      BY <1>4, <1>6, <1>7, <3>2 DEF Base, Held
    <3>. QED BY <3>1, <3>2
  <2>4. \A i \in Made' : store'[i] \in Sessions
    BY <1>0, <1>1 DEF Base, Held
  <2>5. \A i \in Objects \ Made' : store'[i] = None
    BY <1>1 DEF Base, Held
  <2>6. \A p \in Prompts : /\ Live(p)' => prompt'[p].object \in Made'
                           /\ prompt'[p].stage = "compacting" => prompt'[p].from \in Made'
    BY <1>1, <1>2, <1>5 DEF Base, Held
  <2>7. Objects' = Objects
    BY DEF Objects
  <2>. QED BY <2>1, <2>2, <2>3, <2>4, <2>5, <2>6, <2>7 DEF Held
<1>. QED BY <1>3, <1>8 DEF Base

LEMMA SendKeepsBase ==
  ASSUME Base, NEW p \in Prompts, SendPrompt(p)
  PROVE  Base'
<1>. DEFINE s == Session(p)
<1>0. Types /\ s \in Sessions
  BY DEF Base, Types, Prompt, Session
<1>1. UNCHANGED <<transcript, messages, object, objects, state, store, rolled>>
  BY DEF SendPrompt, history, sessionVars
<1>2. Types'
  BY <1>0, <1>1 DEF SendPrompt, Types, Prompt, Stages, Waits, Session
<1>3. /\ \A q \in Prompts : Session(q)' = Session(q) /\ (q # p => prompt'[q] = prompt[q])
      /\ Live(p)' => object[s] # 0 /\ prompt'[p].object = object[s]
      /\ prompt'[p].stage # "compacting"
  BY <1>0 DEF SendPrompt, Session, Types, Prompt, Live, Waits
<1>4. \A t \in Sessions, o \in Objects : Has(t, o)' => Has(t, o)
  BY <1>0, <1>1, <1>3 DEF Has, Live
<1>5. object[s] # 0 => object[s] \in Made
  BY <1>0 DEF Base, Held, Has, Types, Objects
<1>6. /\ \A q \in Prompts : Live(q)' => prompt'[q].object \in Made
      /\ \A q \in Prompts : prompt'[q].stage = "compacting" => prompt'[q].from \in Made
  BY <1>3, <1>5 DEF Base, Held, Live
<1>7. Made' = Made /\ Objects' = Objects
  BY <1>1 DEF Made, Objects
<1>8. Held'
  BY <1>1, <1>4, <1>6, <1>7 DEF Base, Held, WritesTo
<1>. QED BY <1>2, <1>8 DEF Base

(* The AgentSession of p goes over to a SessionState with a session of its *)
(* own.                                                                    *)
LEMMA RollMoves ==
  ASSUME Base, NEW p \in Prompts, Roll(p)
  PROVE  /\ objects + 1 \in Objects /\ objects' = objects + 1 /\ objects' \in 0 .. MaxObjects
         /\ DOMAIN store' = Objects /\ DOMAIN messages' = Objects
         /\ Made' = Made \cup {objects + 1} /\ objects + 1 \notin Made
         /\ \A n \in Objects \ {objects + 1} : store'[n] = store[n] /\ messages'[n] = messages[n]
         /\ prompt[p].object \in Made
         /\ state'[prompt[p].object] = objects + 1 /\ DOMAIN state' = Objects
         /\ \A o \in Objects \ {prompt[p].object} : state'[o] = state[o]
         /\ \E t \in Fresh, kept \in SUBSET messages[prompt[p].from] :
              /\ store'[objects + 1] = t /\ messages'[objects + 1] = kept \cup {Summary(t)}
              /\ transcript' = [transcript EXCEPT ![t] = kept \cup {Summary(t)}]
<1>1. Types /\ Live(p) /\ prompt[p].object \in Made /\ prompt[p].object \in Objects
  BY MadeAreObjects DEF Base, Held, Roll, Live, Waits
<1>2. PICK t \in Fresh, kept \in SUBSET messages[prompt[p].from] :
        /\ NewState(t, kept \cup {Summary(t)})
        /\ transcript' = [transcript EXCEPT ![t] = kept \cup {Summary(t)}]
  BY DEF Roll
<1>3. /\ state' = [state EXCEPT ![prompt[p].object] = objects + 1] /\ DOMAIN state = Objects
  BY <1>1 DEF Roll, Types
<1>4. /\ objects + 1 \in Objects /\ objects' = objects + 1 /\ objects' \in 0 .. MaxObjects
      /\ DOMAIN store' = Objects /\ DOMAIN messages' = Objects
      /\ Made' = Made \cup {objects + 1} /\ objects + 1 \notin Made
      /\ \A n \in Objects \ {objects + 1} : store'[n] = store[n] /\ messages'[n] = messages[n]
      /\ store'[objects + 1] = t /\ messages'[objects + 1] = kept \cup {Summary(t)}
  BY <1>1, <1>2, NewStateMakes
<1>. QED BY <1>1, <1>2, <1>3, <1>4

LEMMA RollKeepsBase ==
  ASSUME Base, NEW p \in Prompts, Roll(p)
  PROVE  Base'
<1>. DEFINE n == objects + 1
            o == prompt[p].object
<1>0. Types /\ Made \subseteq Objects
  BY MadeAreObjects DEF Base
<1>1. /\ n \in Objects /\ objects' = n /\ objects' \in 0 .. MaxObjects
      /\ DOMAIN store' = Objects /\ DOMAIN messages' = Objects
      /\ Made' = Made \cup {n} /\ n \notin Made /\ o \in Made
      /\ \A i \in Objects \ {n} : store'[i] = store[i]
      /\ state'[o] = n /\ DOMAIN state' = Objects
      /\ \A u \in Objects \ {o} : state'[u] = state[u]
  BY RollMoves
<1>2. PICK t \in Fresh : store'[n] = t /\ DOMAIN transcript' = Sessions
  <2>1. DOMAIN transcript = Sessions
    BY <1>0 DEF Types
  <2>. QED BY <2>1, RollMoves
<1>3. /\ UNCHANGED <<object, task, outcome>> /\ rolled' = rolled \cup {Session(p)}
      /\ prompt[p].stage = "compacting" /\ Session(p) \in Sessions
  BY <1>0 DEF Roll, client, Session, Types, Prompt
<1>. HIDE DEF n, o
<1>4. Moves(p, "turn")
  <2>1. "turn" \in Stages /\ 0 \in 0 .. MaxObjects
    BY AcpAssumption DEF Stages, Waits
  <2>. QED BY <1>0, <1>3, <2>1, FromMoves DEF Roll
<1>5. Types'
  BY <1>0, <1>1, <1>2, <1>3, <1>4 DEF Types, Moves
<1>6. /\ \A q \in Prompts : /\ Live(q)' => Live(q) /\ prompt'[q].object = prompt[q].object
                            /\ Session(q)' = Session(q)
                            /\ prompt'[q].stage = "compacting" => prompt'[q] = prompt[q]
      /\ Has(Session(p), o)
  BY <1>3, <1>4 DEF Moves, Live, Waits, Session, Has, o
<1>7. \A s \in Sessions, u \in Objects : Has(s, u)' => Has(s, u)
  BY <1>3, <1>6 DEF Has
<1>8. \A s \in Sessions, u \in Objects : Has(s, u) =>
        /\ u \in Made /\ u \in Made'
        /\ u # o => /\ state'[u] = state[u] /\ state[u] \in Made' /\ state[u] # n
                    /\ store'[state[u]] = store[state[u]]
                    /\ store[state[u]] = s \/ s \in rolled
        /\ u = o => s = Session(p)
  BY <1>0, <1>1, <1>3, <1>6 DEF Base, Held, WritesTo
<1>9. Held'
  <2>1. \A s \in Sessions, u \in Objects : Has(s, u)' =>
          u \in Made' /\ state'[u] \in Made' /\ (WritesTo(u)' = s \/ s \in rolled')
    BY <1>1, <1>3, <1>7, <1>8 DEF WritesTo
  <2>2. \A s, x \in Sessions, u \in Objects : Has(s, u)' /\ Has(x, u)' => s = x
    BY <1>7 DEF Base, Held
  <2>3. \A s, x \in Sessions, u, v \in Objects : Has(s, u)' /\ Has(x, v)' /\ state'[u] = state'[v] => u = v
    <3>. SUFFICES ASSUME NEW s \in Sessions, NEW x \in Sessions, NEW u \in Objects, NEW v \in Objects,
                         Has(s, u)', Has(x, v)', state'[u] = state'[v], u # v
         PROVE  FALSE
      OBVIOUS
    <3>1. CASE u = o \/ v = o
      BY <1>1, <1>7, <1>8, <3>1
    <3>2. CASE u # o /\ v # o
      BY <1>1, <1>7, <1>8, <3>2 DEF Base, Held
    <3>. QED BY <3>1, <3>2
  <2>4. \A i \in Made' : store'[i] \in Sessions
    BY <1>0, <1>1, <1>2 DEF Base, Held, Fresh
  <2>5. \A i \in Objects \ Made' : store'[i] = None
    BY <1>1 DEF Base, Held
  <2>6. \A q \in Prompts : /\ Live(q)' => prompt'[q].object \in Made'
                           /\ prompt'[q].stage = "compacting" => prompt'[q].from \in Made'
    BY <1>1, <1>6 DEF Base, Held
  <2>7. Objects' = Objects
    BY DEF Objects
  <2>. QED BY <2>1, <2>2, <2>3, <2>4, <2>5, <2>6, <2>7 DEF Held
<1>. QED BY <1>5, <1>9 DEF Base

(* The other steps of a prompt make no object.                             *)
LEMMA RunKeepsBase ==
  ASSUME Base, NEW p \in Prompts, Runs(p)
  PROVE  Base'
<1>. USE DEF history, client, sessionVars
<1>0. Types /\ Session(p) \in Sessions
  BY DEF Base, Types, Prompt, Session
<1>1. PICK g \in Stages : Onward(p, g)
  BY PromptsMove
<1>2. SUFFICES ASSUME ~Roll(p) PROVE Base'
  BY RollKeepsBase
<1>3. UNCHANGED sessionVars
  BY <1>2 DEF Runs, Turn, Start, NeverStarts, Pass, Enter, Compact, Answered, OutOfRounds, Failed,
     Cancelled, Respond
<1>4. DOMAIN transcript' = Sessions /\ DOMAIN messages' = Objects
  <2>1. UNCHANGED history \/ \E m : AddMessage(prompt[p].object, m)
    BY <1>2 DEF Runs, Turn, Start, NeverStarts, Pass, Enter, Compact, Answered, OutOfRounds, Failed,
       Cancelled, Respond
  <2>. QED BY <1>0, <2>1 DEF Types, AddMessage
<1>5. task' \in [Sessions -> Prompts \cup {None}] /\ DOMAIN outcome' = Prompts
  <2>1. \/ UNCHANGED <<task, outcome>> \/ (\E how : EndsAs(p, how))
        \/ (task' = [task EXCEPT ![Session(p)] = None] /\ UNCHANGED outcome)
    BY <1>2 DEF Runs, Turn, Start, NeverStarts, Pass, Enter, Compact, Answered, OutOfRounds, Failed,
       Cancelled, Respond, Session
  <2>. QED BY <1>0, <2>1, EndsMove DEF Types
<1>6. Types'
  BY <1>0, <1>1, <1>3, <1>4, <1>5 DEF Types, Onward, Moves
<1>7. Held'
  <2>1. PromptsGoOn
    BY <1>0, <1>1, <1>3, MovingGoesOn
  <2>2. \A q \in Prompts : prompt'[q].stage = "compacting" =>
          prompt'[q].from \in Made \/ (prompt[q].stage = "compacting" /\ prompt'[q].from = prompt[q].from)
    BY <1>1 DEF Onward, Moves
  <2>. QED BY <1>3, <2>1, <2>2, GoingOnKeepsHeld
<1>. QED BY <1>6, <1>7 DEF Base

LEMMA BaseStep == Base /\ [Next]_vars => Base'
<1>. SUFFICES ASSUME Base, [Next]_vars PROVE Base'
  OBVIOUS
<1>. USE DEF history, client, sessionVars
<1>0. Types
  BY DEF Base
<1>1. ASSUME /\ UNCHANGED <<objects, store, state, rolled, task, outcome>>
             /\ DOMAIN messages' = Objects /\ DOMAIN transcript' = Sessions
             /\ object' \in [Sessions -> 0 .. MaxObjects] /\ \A s \in Sessions : object'[s] \in {object[s], 0}
             /\ Stays
      PROVE  Base'
  <2>1. Types'
    BY <1>0, <1>1 DEF Types, Stays
  <2>2. PromptsGoOn
    BY <1>1 DEF PromptsGoOn, Live, Session, Stays
  <2>. QED BY <1>1, <2>1, <2>2, GoingOnKeepsHeld DEF Base, Stays
<1>2. ASSUME NEW s \in Sessions, CancelSession(s) PROVE Base'
  BY <1>0, <1>1, <1>2, CancelTaskIsQuiet DEF CancelSession, Types
<1>3. ASSUME NEW s \in Sessions, CloseSession(s) PROVE Base'
  <2>1. object' \in [Sessions -> 0 .. MaxObjects] /\ \A t \in Sessions : object'[t] \in {object[t], 0}
    BY <1>0, <1>3, AcpAssumption DEF CloseSession, Types
  <2>. QED BY <1>0, <1>1, <1>3, <2>1, CancelTaskIsQuiet DEF CloseSession, Types
<1>4. ASSUME NEW s \in Sessions, Resumption(s) PROVE Base'
  BY <1>0, <1>1, <1>4 DEF Resumption, Types, Stays
<1>5. CASE Eof
  BY <1>0, <1>1, <1>5 DEF Eof, Types, Stays
<1>6. CASE Stop
  BY <1>0, <1>1, <1>6, StopIsQuiet DEF Stop, Types
<1>7. CASE UNCHANGED vars
  BY <1>0, <1>1, <1>7 DEF vars, Types, Stays
<1>. QED
  BY <1>2, <1>3, <1>4, <1>5, <1>6, <1>7, LoadKeepsBase, SendKeepsBase, RunKeepsBase DEF Next

LEMMA BaseStarts == Init => Base
<1>. SUFFICES ASSUME Init PROVE Base
  OBVIOUS
<1>. USE DEF Init
<1>1. \A p \in Prompts : prompt[p] \in Prompt /\ prompt[p].stage = "idle"
  <2>. SUFFICES ASSUME NEW p \in Prompts PROVE prompt[p] \in Prompt /\ prompt[p].stage = "idle"
    OBVIOUS
  <2>1. PICK s \in Sessions :
          prompt[p] = [stage |-> "idle", session |-> s, object |-> 0, cancelled |-> FALSE,
                       key |-> s, from |-> 0]
    OBVIOUS
  <2>. QED BY <2>1, AcpAssumption DEF Prompt, Stages
<1>2. Types
  BY <1>1, AcpAssumption DEF Types
<1>3. (\A p \in Prompts : ~Live(p)) /\ \A s \in Sessions, o \in Objects : ~Has(s, o)
  BY <1>1 DEF Live, Waits, Has, Objects
<1>4. Held
  BY <1>1, <1>3 DEF Held, Made
<1>. QED BY <1>2, <1>4 DEF Base

-----------------------------------------------------------------------------
(* Which prompt the entry of _prompt_tasks is, and when a turn has an end. *)

(* The entry stays that of an open prompt, also while v1 has not noticed   *)
(* its end.                                                                *)
OpenPromptsAreNamed ==
  \A p \in Prompts : Open(p) => task[Session(p)] = p \/ Session(p) \in overlapped

(* An outcome is there only when the turn has ended. *)
OutcomesAreEnds ==
  \A p \in Prompts : outcome[p] # "none" => prompt[p].stage \in {"done", "ended"}

Names == OpenPromptsAreNamed /\ OutcomesAreEnds

LEMMA RunKeepsNames ==
  ASSUME Base, Names, NEW p \in Prompts, Runs(p)
  PROVE  Names'
<1>1. PICK g \in Stages : Onward(p, g)
  BY PromptsMove
<1>2. \A q \in Prompts : Session(q)' = Session(q) /\ Session(q) \in Sessions
                        /\ (q # p => prompt'[q] = prompt[q])
  BY <1>1 DEF Onward, Moves, Session, Base, Types, Prompt
<1>3. prompt'[p].stage = g /\ overlapped' = overlapped
  BY <1>1 DEF Onward, Moves
<1>4. OpenPromptsAreNamed'
  <2>. SUFFICES ASSUME NEW q \in Prompts, Open(q)'
                PROVE  task'[Session(q)] = q \/ Session(q) \in overlapped
    BY <1>2, <1>3 DEF OpenPromptsAreNamed
  <2>1. Open(q)
    BY <1>1, <1>2 DEF Open, Live, Onward
  <2>2. /\ task[Session(q)] = q \/ Session(q) \in overlapped
        /\ task[Session(p)] = p \/ Session(p) \in overlapped
    BY <1>1, <2>1 DEF Names, OpenPromptsAreNamed, Onward
  <2>3. CASE task' = task
    BY <2>2, <2>3
  <2>4. CASE g = "ended" /\ task' = [task EXCEPT ![Session(p)] = None]
    <3>1. q # p
      BY <1>3, <2>4 DEF Open, Live, Waits
    <3>2. Session(q) # Session(p) => task'[Session(q)] = task[Session(q)]
      BY <1>2, <2>4 DEF Base, Types
    <3>. QED BY <1>2, <2>2, <3>1, <3>2
  <2>. QED BY <1>1, <2>3, <2>4 DEF Onward
<1>5. OutcomesAreEnds'
  <2>. SUFFICES ASSUME NEW q \in Prompts, outcome'[q] # "none"
                PROVE  prompt'[q].stage \in {"done", "ended"}
    BY DEF OutcomesAreEnds
  <2>1. CASE outcome'[q] = outcome[q]
    BY <1>1, <1>2, <1>3, <2>1 DEF Names, OutcomesAreEnds, Onward, Live, Waits
  <2>2. CASE outcome'[q] # outcome[q]
    <3>1. q = p /\ g \in {"done", "ended"}
      BY <1>1, <2>2 DEF Onward, Base, Types
    <3>. QED BY <1>3, <3>1
  <2>. QED BY <2>1, <2>2
<1>. QED BY <1>4, <1>5 DEF Names

LEMMA SendKeepsNames ==
  ASSUME Base, Names, NEW p \in Prompts, SendPrompt(p)
  PROVE  Names'
<1>. USE DEF SendPrompt, Session
<1>0. Types /\ DOMAIN task = Sessions /\ DOMAIN outcome = Prompts
      /\ \A q \in Prompts : Session(q) \in Sessions
  BY DEF Base, Types, Prompt
<1>1. \A q \in Prompts : Session(q)' = Session(q) /\ (q # p => prompt'[q] = prompt[q])
  BY <1>0 DEF Types, Prompt
<1>2. CASE object[Session(p)] = 0
  <2>1. prompt'[p].stage = "ended"
    BY <1>0, <1>2 DEF Types, Prompt
  <2>2. OpenPromptsAreNamed'
    BY <1>1, <1>2, <2>1 DEF Names, OpenPromptsAreNamed, Open, Live, Waits
  <2>3. OutcomesAreEnds'
    BY <1>0, <1>1, <1>2, <2>1 DEF Names, OutcomesAreEnds
  <2>. QED BY <2>2, <2>3 DEF Names
<1>3. CASE object[Session(p)] # 0
  <2>1. /\ task' = [task EXCEPT ![Session(p)] = p] /\ outcome' = outcome
        /\ overlapped' = IF Unanswered(Session(p)) = {} THEN overlapped ELSE overlapped \cup {Session(p)}
    BY <1>3
  <2>2. OpenPromptsAreNamed'
    <3>. SUFFICES ASSUME NEW q \in Prompts, Open(q)'
                  PROVE  task'[Session(q)] = q \/ Session(q) \in overlapped'
      BY <1>1 DEF OpenPromptsAreNamed
    <3>1. CASE q = p
      BY <1>0, <2>1, <3>1
    <3>2. CASE q # p
      <4>1. Open(q)
        BY <1>1, <3>2 DEF Open, Live
      <4>2. Session(q) = Session(p) => q \in Unanswered(Session(p))
        BY <4>1 DEF Unanswered, Open
      <4>3. task[Session(q)] = q \/ Session(q) \in overlapped
        BY <4>1 DEF Names, OpenPromptsAreNamed
      <4>4. Session(q) # Session(p) => task'[Session(q)] = task[Session(q)]
        BY <1>0, <2>1
      <4>5. Session(q) = Session(p) => Session(q) \in overlapped'
        BY <2>1, <4>2
      <4>. QED BY <2>1, <4>3, <4>4, <4>5
    <3>. QED BY <3>1, <3>2
  <2>3. OutcomesAreEnds'
    BY <1>1, <2>1 DEF Names, OutcomesAreEnds
  <2>. QED BY <2>2, <2>3 DEF Names
<1>. QED BY <1>2, <1>3

LEMMA QuietKeepsNames ==
  ASSUME Names, Stays, UNCHANGED <<task, overlapped, outcome>>
  PROVE  Names'
BY DEF Names, Stays, OpenPromptsAreNamed, OutcomesAreEnds, Open, Live, Session

LEMMA NamesStep == Base /\ Names /\ [Next]_vars => Names'
<1>. SUFFICES ASSUME Base, Names, [Next]_vars PROVE Names'
  OBVIOUS
<1>. USE DEF history, client, sessionVars
<1>0. Types /\ prompt \in [Prompts -> Prompt]
  BY DEF Base, Types
<1>1. ASSUME prompt' = prompt PROVE Stays
  BY <1>0, <1>1 DEF Stays
<1>2. ASSUME NEW s \in Sessions, LoadSession(s) PROVE Names'
  BY <1>1, <1>2, QuietKeepsNames DEF LoadSession
<1>3. ASSUME NEW s \in Sessions, CancelSession(s) \/ CloseSession(s) PROVE Names'
  BY <1>0, <1>3, CancelTaskIsQuiet, QuietKeepsNames DEF CancelSession, CloseSession
<1>4. ASSUME NEW s \in Sessions, Resumption(s) PROVE Names'
  BY <1>1, <1>4, QuietKeepsNames DEF Resumption
<1>5. CASE Eof
  BY <1>1, <1>5, QuietKeepsNames DEF Eof
<1>6. CASE Stop
  BY <1>0, <1>6, StopIsQuiet, QuietKeepsNames DEF Stop
<1>7. CASE UNCHANGED vars
  BY <1>1, <1>7, QuietKeepsNames DEF vars
<1>. QED
  BY <1>2, <1>3, <1>4, <1>5, <1>6, <1>7, SendKeepsNames, RunKeepsNames DEF Next

AcpInv == Base /\ Names

(* The entries of _prompt_tasks, the stages, the outcomes and the objects  *)
(* that sessions work on fit together: no two sessions share a             *)
(* SessionState, and a session's AgentSession writes to another one only   *)
(* after a compaction.                                                     *)
THEOREM AcpInvariant == Spec => []AcpInv
<1>1. Init => AcpInv
  <2>. SUFFICES ASSUME Init PROVE Names
    BY BaseStarts DEF AcpInv
  <2>1. \A p \in Prompts : prompt[p].stage = "idle" /\ outcome[p] = "none"
    BY DEF Init
  <2>. QED BY <2>1 DEF Names, OpenPromptsAreNamed, OutcomesAreEnds, Open, Live, Waits
<1>2. AcpInv /\ [Next]_vars => AcpInv'
  BY BaseStep, NamesStep DEF AcpInv
<1>. QED BY <1>1, <1>2, PTL DEF Spec

(* Unless the client overlapped its prompts, session/cancel reaches the    *)
(* turn: the entry of _prompt_tasks outlives the request in v1 and is not  *)
(* taken out by another turn's end.                                        *)
THEOREM CancelReachesThePrompt == Spec => []LivePromptIsReachable
<1>1. AcpInv => LivePromptIsReachable
  BY DEF AcpInv, Names, OpenPromptsAreNamed, Open, Session, LivePromptIsReachable
<1>. QED BY AcpInvariant, <1>1, PTL

-----------------------------------------------------------------------------
(* What a stop reason says.                                                *)

(* The answer of p was given. *)
Told(p) == \E t \in Sessions : Answer(p) \in transcript[t]
Kept(p) == Answer(p) \in transcript[Session(p)] \/ (Session(p) \in rolled /\ Told(p))

(* The answers in transcripts and messages are those of the turns that     *)
(* ended with one: a compaction copies messages to a transcript.           *)
WordInv ==
  \A p \in Prompts :
    /\ outcome[p] = "end_turn" => Kept(p)
    /\ \A t \in Sessions : Answer(p) \in transcript[t] => outcome[p] = "end_turn"
    /\ \A n \in Objects : Answer(p) \in messages[n] => outcome[p] = "end_turn"

(* Nothing is taken out of a transcript, turns end once, and the answers   *)
(* that are new are those of turns that end.                               *)
LEMMA WordsKeep ==
  ASSUME WordInv, rolled \subseteq rolled',
         \A p \in Prompts : Session(p)' = Session(p) /\ Session(p) \in Sessions,
         \A t \in Sessions : transcript[t] \subseteq transcript'[t],
         \A p \in Prompts : \/ outcome'[p] = outcome[p]
                           \/ (outcome[p] = "none" /\ (outcome'[p] = "end_turn" => Kept(p)')),
         \A p \in Prompts, t \in Sessions : Answer(p) \in transcript'[t] =>
            outcome[p] = "end_turn" \/ outcome'[p] = "end_turn",
         \A p \in Prompts, n \in Objects : Answer(p) \in messages'[n] =>
            outcome[p] = "end_turn" \/ outcome'[p] = "end_turn"
  PROVE  WordInv'
<1>1. \A p \in Prompts : Kept(p) => Kept(p)'
  <2>. SUFFICES ASSUME NEW p \in Prompts, Kept(p) PROVE Kept(p)'
    OBVIOUS
  <2>1. Answer(p)' = Answer(p) /\ Session(p)' = Session(p) /\ Session(p) \in Sessions
    BY DEF Answer
  <2>. QED BY <2>1 DEF Kept, Told, Answer
<1>2. \A p \in Prompts : outcome[p] = "end_turn" => outcome'[p] = "end_turn"
  OBVIOUS
<1>3. \A p \in Prompts : outcome'[p] = "end_turn" => Kept(p)'
  BY <1>1 DEF WordInv
<1>4. Objects' = Objects
  BY DEF Objects
<1>. QED BY <1>2, <1>3, <1>4 DEF WordInv, Answer

(* Where the AgentSession of a live prompt writes.                         *)
LEMMA LiveWrites ==
  ASSUME Base, NEW p \in Prompts, Live(p)
  PROVE  /\ Session(p) \in Sessions /\ prompt[p].object \in Made /\ prompt[p].object \in Objects
         /\ Has(Session(p), prompt[p].object)
         /\ state[prompt[p].object] \in Made /\ state[prompt[p].object] \in Objects
         /\ WritesTo(prompt[p].object) \in Sessions
         /\ WritesTo(prompt[p].object) = Session(p) \/ Session(p) \in rolled
<1>1. Types /\ Session(p) \in Sessions
  BY DEF Base, Types, Prompt, Session
<1>2. prompt[p].object \in Made /\ prompt[p].object \in Objects
  BY <1>1, MadeAreObjects DEF Base, Held
<1>3. Has(Session(p), prompt[p].object)
  BY DEF Has
<1>4. /\ state[prompt[p].object] \in Made
      /\ WritesTo(prompt[p].object) = Session(p) \/ Session(p) \in rolled
  BY <1>1, <1>2, <1>3 DEF Base, Held
<1>5. state[prompt[p].object] \in Objects
  BY <1>1, <1>4, MadeAreObjects
<1>6. WritesTo(prompt[p].object) \in Sessions
  BY <1>4 DEF Base, Held, WritesTo
<1>. QED BY <1>1, <1>2, <1>3, <1>4, <1>5, <1>6

LEMMA AddMessageAdds ==
  ASSUME Base, NEW p \in Prompts, Live(p), NEW m, AddMessage(prompt[p].object, m)
  PROVE  LET n == state[prompt[p].object]
             t == WritesTo(prompt[p].object)
         IN /\ transcript'[t] = transcript[t] \cup {m}
            /\ \A u \in Sessions \ {t} : transcript'[u] = transcript[u]
            /\ messages'[n] = messages[n] \cup {m}
            /\ \A i \in Objects \ {n} : messages'[i] = messages[i]
BY LiveWrites DEF AddMessage, WritesTo, Base, Types

LEMMA DifferentWords ==
  ASSUME NEW p, NEW q
  PROVE  /\ Answer(p) = Answer(q) => p = q
         /\ Answer(p) # Question(q) /\ Answer(p) # Result(q) /\ Answer(p) # Summary(q)
BY DEF Answer, Question, Result, Summary

LEMMA AnsweredKeepsWords ==
  ASSUME Base, Names, WordInv, NEW p \in Prompts, Answered(p)
  PROVE  WordInv'
<1>. DEFINE n == state[prompt[p].object]
            t == WritesTo(prompt[p].object)
<1>1. Live(p) /\ outcome[p] = "none"
  BY DEF Answered, Live, Waits, Names, OutcomesAreEnds
<1>2. /\ t \in Sessions /\ n \in Objects
      /\ t = Session(p) \/ Session(p) \in rolled
      /\ transcript'[t] = transcript[t] \cup {Answer(p)}
      /\ \A u \in Sessions \ {t} : transcript'[u] = transcript[u]
      /\ messages'[n] = messages[n] \cup {Answer(p)}
      /\ \A i \in Objects \ {n} : messages'[i] = messages[i]
  BY <1>1, LiveWrites, AddMessageAdds DEF Answered
<1>. HIDE DEF n, t
<1>3. outcome' = [outcome EXCEPT ![p] = "end_turn"] /\ rolled' = rolled
  BY DEF Answered, EndsAs, sessionVars
<1>4. outcome'[p] = "end_turn" /\ \A q \in Prompts \ {p} : outcome'[q] = outcome[q]
  BY <1>3 DEF Base, Types
<1>5. \A q \in Prompts : Session(q)' = Session(q) /\ Session(q) \in Sessions
  <2>1. Runs(p)
    BY DEF Runs, Turn
  <2>. QED BY <2>1, PromptsMove DEF Onward, Moves, Session, Base, Types, Prompt
<1>6. Kept(p)'
  BY <1>2, <1>3, <1>5 DEF Kept, Told, Answer
<1>7. \A q \in Prompts : Answer(q) = Answer(p) => q = p
  BY DifferentWords
<1>. QED BY <1>1, <1>2, <1>3, <1>4, <1>5, <1>6, <1>7, WordsKeep DEF WordInv

LEMMA RollKeepsWords ==
  ASSUME Base, WordInv, NEW p \in Prompts, Roll(p)
  PROVE  WordInv'
<1>. DEFINE n == objects + 1
            f == prompt[p].from
<1>1. PICK t \in Fresh, kept \in SUBSET messages[f] :
        /\ messages'[n] = kept \cup {Summary(t)}
        /\ transcript' = [transcript EXCEPT ![t] = kept \cup {Summary(t)}]
  BY RollMoves
<1>2. \A i \in Objects \ {n} : messages'[i] = messages[i]
  BY RollMoves
<1>3. f \in Objects
  BY MadeAreObjects DEF Roll, Base, Held
<1>. HIDE DEF n, f
<1>4. t \in Sessions /\ transcript[t] = {} /\ transcript'[t] = kept \cup {Summary(t)}
      /\ \A u \in Sessions \ {t} : transcript'[u] = transcript[u]
  BY <1>1 DEF Fresh, Base, Types
<1>5. \A q \in Prompts : Session(q)' = Session(q) /\ Session(q) \in Sessions
  <2>1. Runs(p)
    BY DEF Runs, Turn
  <2>. QED BY <2>1, PromptsMove DEF Onward, Moves, Session, Base, Types, Prompt
<1>6. outcome' = outcome /\ rolled \subseteq rolled'
  BY DEF Roll, client
<1>7. \A q \in Prompts : Answer(q) \in kept \cup {Summary(t)} => outcome[q] = "end_turn"
  BY <1>3, DifferentWords DEF WordInv
<1>. QED BY <1>1, <1>2, <1>4, <1>5, <1>6, <1>7, WordsKeep DEF WordInv

LEMMA LoadKeepsWords ==
  ASSUME Base, WordInv, NEW s \in Sessions, LoadSession(s)
  PROVE  WordInv'
<1>1. /\ messages'[objects + 1] = transcript[s]
      /\ \A n \in Objects \ {objects + 1} : messages'[n] = messages[n]
  BY NewStateMakes DEF LoadSession, Register, Base
<1>2. UNCHANGED <<prompt, transcript, outcome, rolled>>
  BY DEF LoadSession, Register, client
<1>3. \A p \in Prompts : Session(p)' = Session(p) /\ Session(p) \in Sessions
  BY <1>2 DEF Session, Base, Types, Prompt
<1>. QED BY <1>1, <1>2, <1>3, WordsKeep DEF WordInv

LEMMA WordStep == Base /\ Names /\ WordInv /\ [Next]_vars => WordInv'
<1>. SUFFICES ASSUME Base, Names, WordInv, [Next]_vars PROVE WordInv'
  OBVIOUS
<1>. USE DEF history, client, sessionVars
<1>0. Types /\ \A p \in Prompts : Session(p) \in Sessions
  BY DEF Base, Types, Prompt, Session
<1>1. ASSUME UNCHANGED <<transcript, messages, outcome, rolled>>, Stays PROVE WordInv'
  <2>1. \A p \in Prompts : Session(p)' = Session(p)
    BY <1>1 DEF Stays, Session
  <2>. QED BY <1>0, <1>1, <2>1, WordsKeep DEF WordInv
<1>2. ASSUME UNCHANGED prompt PROVE Stays
  BY <1>0, <1>2 DEF Stays, Types
<1>3. ASSUME NEW s \in Sessions, CancelSession(s) \/ CloseSession(s) PROVE WordInv'
  BY <1>0, <1>1, <1>3, CancelTaskIsQuiet DEF CancelSession, CloseSession
<1>4. ASSUME NEW s \in Sessions, Resumption(s) PROVE WordInv'
  <2>1. transcript'[s] = transcript[s] \cup {Result(s)} /\ \A t \in Sessions \ {s} : transcript'[t] = transcript[t]
    BY <1>0, <1>4 DEF Resumption, Types
  <2>2. \A p \in Prompts, t \in Sessions : Answer(p) \in transcript'[t] => Answer(p) \in transcript[t]
    BY <2>1, DifferentWords
  <2>3. UNCHANGED <<prompt, messages, outcome, rolled>>
    BY <1>4 DEF Resumption
  <2>4. \A p \in Prompts : Session(p)' = Session(p)
    BY <2>3 DEF Session
  <2>. QED BY <1>0, <2>1, <2>2, <2>3, <2>4, WordsKeep DEF WordInv
<1>5. ASSUME NEW p \in Prompts, SendPrompt(p) PROVE WordInv'
  <2>1. \A q \in Prompts : Session(q)' = Session(q)
    BY <1>0, <1>5 DEF SendPrompt, Session, Types, Prompt
  <2>2. outcome[p] = "none"
    BY <1>5 DEF SendPrompt, Names, OutcomesAreEnds
  <2>3. \A q \in Prompts : \/ outcome'[q] = outcome[q]
                          \/ (outcome[q] = "none" /\ outcome'[q] # "end_turn")
    BY <1>0, <1>5, <2>2 DEF SendPrompt, Types
  <2>4. UNCHANGED <<transcript, messages, rolled>>
    BY <1>5 DEF SendPrompt
  <2>. QED BY <1>0, <2>1, <2>3, <2>4, WordsKeep DEF WordInv
<1>6. ASSUME NEW p \in Prompts, Runs(p) PROVE WordInv'
  <2>1. \A q \in Prompts : Session(q)' = Session(q)
    BY <1>6, PromptsMove DEF Onward, Moves, Session
  <2>2. Live(p) => outcome[p] = "none"
    BY DEF Names, OutcomesAreEnds, Live, Waits
  <2>3. CASE Answered(p)
    BY <2>3, AnsweredKeepsWords
  <2>4. CASE Roll(p)
    BY <2>4, RollKeepsWords
  <2>5. CASE Enter(p)
    <3>1. Live(p) /\ AddMessage(prompt[p].object, Question(p)) /\ UNCHANGED <<outcome, rolled>>
      BY <2>5 DEF Enter, Live, Waits
    <3>2. /\ \A q \in Prompts, t \in Sessions : Answer(q) \in transcript'[t] => Answer(q) \in transcript[t]
          /\ \A q \in Prompts, n \in Objects : Answer(q) \in messages'[n] => Answer(q) \in messages[n]
          /\ \A t \in Sessions : transcript[t] \subseteq transcript'[t]
      <4>. DEFINE n == state[prompt[p].object]
                  t == WritesTo(prompt[p].object)
      <4>1. /\ transcript'[t] = transcript[t] \cup {Question(p)}
            /\ \A u \in Sessions \ {t} : transcript'[u] = transcript[u]
            /\ messages'[n] = messages[n] \cup {Question(p)}
            /\ \A i \in Objects \ {n} : messages'[i] = messages[i]
        BY <3>1, AddMessageAdds
      <4>2. \A q \in Prompts : Answer(q) # Question(p)
        BY DEF Answer, Question
      <4>. HIDE DEF n, t
      <4>. QED BY <4>1, <4>2
    <3>. QED BY <1>0, <2>1, <3>1, <3>2, WordsKeep DEF WordInv
  <2>6. CASE ~Answered(p) /\ ~Roll(p) /\ ~Enter(p)
    <3>1. UNCHANGED <<transcript, messages, rolled>>
      BY <1>6, <2>6 DEF Runs, Turn, Start, NeverStarts, Pass, Compact, OutOfRounds, Failed, Cancelled,
         Respond
    <3>2. \/ outcome' = outcome
          \/ Live(p) /\ \E how \in {"limit", "cancelled", "error"} : outcome' = [outcome EXCEPT ![p] = how]
      BY <1>6, <2>6 DEF Runs, Turn, Start, NeverStarts, Pass, Compact, OutOfRounds, Failed, Cancelled,
         Respond, EndsAs, Live, Waits
    <3>3. \A q \in Prompts : \/ outcome'[q] = outcome[q]
                            \/ (outcome[q] = "none" /\ outcome'[q] # "end_turn")
      BY <1>0, <2>2, <3>2 DEF Types
    <3>. QED BY <1>0, <2>1, <3>1, <3>3, WordsKeep DEF WordInv
  <2>. QED BY <2>3, <2>4, <2>5, <2>6
<1>7. CASE Eof
  BY <1>1, <1>2, <1>7 DEF Eof
<1>8. CASE Stop
  BY <1>0, <1>1, <1>8, StopIsQuiet DEF Stop
<1>9. CASE UNCHANGED vars
  BY <1>1, <1>2, <1>9 DEF vars
<1>. QED
  BY <1>3, <1>4, <1>5, <1>6, <1>7, <1>8, <1>9, LoadKeepsWords DEF Next

(* The stop reason the client is told says what was stored, overlapped,    *)
(* compacted or not: an answer that was, in the session of the prompt      *)
(* unless its conversation was moved, and nothing for the round limit,     *)
(* cancels and errors.                                                     *)
THEOREM StopReasonsAreTrue == Spec => []OutcomeMatchesTranscript
<1>1. Init => WordInv
  <2>. SUFFICES ASSUME Init PROVE WordInv
    OBVIOUS
  <2>. QED BY DEF Init, WordInv
<1>2. AcpInv /\ WordInv => OutcomeMatchesTranscript
  <2>. SUFFICES ASSUME AcpInv, WordInv, NEW p \in Prompts
                PROVE  /\ Told(p) <=> outcome[p] = "end_turn"
                       /\ outcome[p] = "end_turn" =>
                            Answer(p) \in transcript[Session(p)] \/ Session(p) \in rolled
    BY DEF OutcomeMatchesTranscript, Told, Session
  <2>1. Session(p) \in Sessions
    BY DEF AcpInv, Base, Types, Prompt, Session
  <2>. QED BY <2>1 DEF WordInv, Kept, Told
<1>3. AcpInv /\ WordInv /\ [Next]_vars => WordInv'
  BY WordStep DEF AcpInv
<1>. QED BY <1>1, <1>2, <1>3, AcpInvariant, PTL DEF Spec

-----------------------------------------------------------------------------
(* What a turn gets to see.                                                *)

(* Not loaded under another AgentSession's hands, and no result came in    *)
(* from elsewhere. *)
Plain(t) == t \notin reloaded /\ t \notin resumed

(* A plain session is written to by one AgentSession at most, which knows  *)
(* the transcript.                                                         *)
Knows(o) == messages[state[o]] = transcript[WritesTo(o)]

TalkInv ==
  \A s, t \in Sessions, o, u \in Objects :
    Has(s, o) /\ Has(t, u) /\ WritesTo(o) = WritesTo(u) /\ Plain(WritesTo(o)) => o = u /\ Knows(o)

(* No AgentSession more, none that works on another SessionState, and what *)
(* they know stays. *)
LEMMA GoingOnKeepsTalk ==
  ASSUME Base, TalkInv, UNCHANGED <<state, store>>,
         resumed \subseteq resumed', reloaded \subseteq reloaded',
         \A s \in Sessions, o \in Objects : Has(s, o)' => Has(s, o),
         \A s \in Sessions, o \in Objects :
           Has(s, o) /\ Plain(WritesTo(o)) /\ Plain(WritesTo(o))' /\ Knows(o) => Knows(o)'
  PROVE  TalkInv'
<1>. SUFFICES ASSUME NEW s \in Sessions, NEW t \in Sessions, NEW o \in Objects, NEW u \in Objects,
                     Has(s, o)', Has(t, u)', WritesTo(o)' = WritesTo(u)', Plain(WritesTo(o))'
     PROVE  o = u /\ Knows(o)'
  BY DEF TalkInv, Objects
<1>1. WritesTo(o) = WritesTo(u) /\ Plain(WritesTo(o)) /\ Has(s, o) /\ Has(t, u)
  BY DEF WritesTo, Plain
<1>2. o = u /\ Knows(o)
  BY <1>1 DEF TalkInv
<1>. QED BY <1>1, <1>2

(* A message of a turn goes to the transcript and to its SessionState.     *)
LEMMA BothAreTold ==
  ASSUME Base, TalkInv, PromptsGoOn, UNCHANGED <<state, store, resumed, reloaded>>,
         NEW p \in Prompts, Live(p), NEW m, AddMessage(prompt[p].object, m)
  PROVE  TalkInv'
<1>. DEFINE o == prompt[p].object
            n == state[o]
            t == WritesTo(o)
<1>1. /\ Has(Session(p), o) /\ o \in Objects /\ t \in Sessions /\ n \in Objects
      /\ Session(p) \in Sessions /\ t = store[n]
  BY LiveWrites DEF WritesTo
<1>2. /\ transcript'[t] = transcript[t] \cup {m}
      /\ \A u \in Sessions \ {t} : transcript'[u] = transcript[u]
      /\ messages'[n] = messages[n] \cup {m}
      /\ \A i \in Objects \ {n} : messages'[i] = messages[i]
  BY AddMessageAdds
<1>3. n = state[o]
  OBVIOUS
<1>. HIDE DEF o, n, t
<1>4. ASSUME NEW s \in Sessions, NEW u \in Objects, Has(s, u), Plain(WritesTo(u)), Knows(u)
      PROVE  Knows(u)'
  <2>1. state'[u] = state[u] /\ WritesTo(u)' = WritesTo(u) /\ WritesTo(u) = store[state[u]]
    BY DEF WritesTo
  <2>2. WritesTo(u) \in Sessions /\ state[u] \in Objects
    <3>1. Types /\ state[u] \in Made
      BY <1>4 DEF Base, Held
    <3>. QED BY <2>1, <3>1, MadeAreObjects DEF Base, Held
  <2>3. CASE WritesTo(u) = t
    <3>1. u = o
      BY <1>1, <1>4, <2>3, LiveWrites DEF TalkInv, o, t
    <3>. QED BY <1>2, <1>3, <1>4, <2>1, <2>3, <3>1 DEF Knows
  <2>4. CASE WritesTo(u) # t
    <3>1. state[u] # n
      BY <1>1, <2>1, <2>4
    <3>. QED BY <1>2, <1>4, <2>1, <2>2, <2>4, <3>1 DEF Knows
  <2>. QED BY <2>3, <2>4
<1>. QED BY <1>4, GoingOnAddsNone, GoingOnKeepsTalk

LEMMA LoadKeepsTalk ==
  ASSUME Base, TalkInv, NEW s \in Sessions, LoadSession(s)
  PROVE  TalkInv'
<1>. PICK n : n = objects + 1
  OBVIOUS
<1>0. Types /\ Made \subseteq Objects
  BY MadeAreObjects DEF Base
<1>1. /\ n \in Objects /\ n \notin Made
      /\ store'[n] = s /\ messages'[n] = transcript[s]
      /\ \A i \in Objects \ {n} : store'[i] = store[i] /\ messages'[i] = messages[i]
  BY <1>0, NewStateMakes DEF LoadSession, Register
<1>2. /\ UNCHANGED <<prompt, transcript, resumed>>
      /\ object' = [object EXCEPT ![s] = n] /\ state' = [state EXCEPT ![n] = n]
      /\ reloaded' = IF Written(s) THEN reloaded \cup {s} ELSE reloaded
  BY DEF LoadSession, Register
<1>3. /\ object'[s] = n /\ \A t \in Sessions \ {s} : object'[t] = object[t]
      /\ state'[n] = n /\ \A o \in Objects \ {n} : state'[o] = state[o]
  BY <1>0, <1>1, <1>2 DEF Types
<1>4. WritesTo(n)' = s /\ Knows(n)'
  BY <1>1, <1>2, <1>3 DEF WritesTo, Knows
<1>5. \A t \in Sessions, o \in Objects : Has(t, o)' /\ o # n =>
        /\ Has(t, o) /\ WritesTo(o)' = WritesTo(o) /\ (Knows(o) => Knows(o)')
        /\ WritesTo(o) = s => Written(s)
  <2>. SUFFICES ASSUME NEW t \in Sessions, NEW o \in Objects, Has(t, o)', o # n
       PROVE  /\ Has(t, o) /\ WritesTo(o)' = WritesTo(o) /\ (Knows(o) => Knows(o)')
              /\ WritesTo(o) = s => Written(s)
    OBVIOUS
  <2>1. \/ t # s /\ object[t] = o
        \/ \E p \in Prompts : Session(p) = t /\ Live(p) /\ prompt[p].object = o
    BY <1>2, <1>3 DEF Has, Session, Live
  <2>2. Has(t, o)
    BY <2>1 DEF Has
  <2>3. state[o] \in Made /\ state[o] \in Objects /\ state[o] # n /\ state'[o] = state[o]
    BY <1>0, <1>1, <1>3, <2>2 DEF Base, Held
  <2>4. WritesTo(o) = s => Written(s)
    <3>1. o # 0
      BY DEF Objects
    <3>. QED BY <2>1, <3>1 DEF Written, WritesTo
  <2>. QED BY <1>1, <1>2, <2>2, <2>3, <2>4 DEF WritesTo, Knows
<1>6. \A t : Plain(t)' => Plain(t)
  BY <1>2 DEF Plain
<1>7. ASSUME NEW t \in Sessions, NEW x \in Sessions, NEW o \in Objects, NEW u \in Objects,
             Has(t, o)', Has(x, u)', WritesTo(o)' = WritesTo(u)', Plain(WritesTo(o))'
      PROVE  o = u /\ Knows(o)'
  <2>1. CASE o # n /\ u # n
    BY <1>5, <1>6, <1>7, <2>1 DEF TalkInv
  <2>2. CASE o = n /\ u = n
    BY <1>4, <2>2
  <2>3. CASE (o = n) # (u = n)
    <3>1. Written(s) /\ WritesTo(o)' = s
      BY <1>4, <1>5, <1>7, <2>3
    <3>. QED BY <1>2, <1>7, <3>1 DEF Plain
  <2>. QED BY <2>1, <2>2, <2>3
<1>. QED BY <1>7 DEF TalkInv, Objects

LEMMA RollKeepsTalk ==
  ASSUME Base, TalkInv, NEW p \in Prompts, Roll(p)
  PROVE  TalkInv'
<1>. PICK n, o : n = objects + 1 /\ o = prompt[p].object
  OBVIOUS
<1>0. Types /\ Made \subseteq Objects
  BY MadeAreObjects DEF Base
<1>1. /\ n \in Objects /\ n \notin Made /\ o \in Made
      /\ \A i \in Objects \ {n} : store'[i] = store[i] /\ messages'[i] = messages[i]
      /\ state'[o] = n /\ \A u \in Objects \ {o} : state'[u] = state[u]
  BY RollMoves
<1>2. PICK t \in Fresh, kept \in SUBSET messages[prompt[p].from] :
        /\ store'[n] = t /\ messages'[n] = kept \cup {Summary(t)}
        /\ transcript' = [transcript EXCEPT ![t] = kept \cup {Summary(t)}]
  <2>1. PICK t \in Fresh, kept \in SUBSET messages[prompt[p].from] :
          /\ store'[objects + 1] = t /\ messages'[objects + 1] = kept \cup {Summary(t)}
          /\ transcript' = [transcript EXCEPT ![t] = kept \cup {Summary(t)}]
    BY RollMoves
  <2>. QED BY <2>1
<1>3. /\ t \in Sessions /\ \A i \in Objects : store[i] # t
      /\ transcript'[t] = kept \cup {Summary(t)}
      /\ \A x \in Sessions \ {t} : transcript'[x] = transcript[x]
  BY <1>0, <1>2 DEF Fresh, Types
<1>4. UNCHANGED <<object, resumed, reloaded>>
  BY DEF Roll
<1>5. \A s \in Sessions, u \in Objects : Has(s, u)' => Has(s, u)
  <2>1. Runs(p)
    BY DEF Runs, Turn
  <2>2. PICK g \in Stages : Onward(p, g)
    BY <2>1, PromptsMove
  <2>. QED BY <1>0, <1>4, <2>2, MovingGoesOn, GoingOnAddsNone
<1>6. WritesTo(o)' = t /\ Knows(o)'
  BY <1>1, <1>2, <1>3 DEF WritesTo, Knows
<1>7. \A s \in Sessions, u \in Objects : Has(s, u)' /\ u # o =>
        /\ Has(s, u) /\ WritesTo(u)' = WritesTo(u) /\ WritesTo(u) # t /\ (Knows(u) => Knows(u)')
  <2>. SUFFICES ASSUME NEW s \in Sessions, NEW u \in Objects, Has(s, u)', u # o
       PROVE  Has(s, u) /\ WritesTo(u)' = WritesTo(u) /\ WritesTo(u) # t /\ (Knows(u) => Knows(u)')
    OBVIOUS
  <2>1. Has(s, u)
    BY <1>5
  <2>2. state[u] \in Made /\ state[u] \in Objects /\ state[u] # n /\ state'[u] = state[u]
    BY <1>0, <1>1, <2>1 DEF Base, Held
  <2>3. WritesTo(u) # t /\ WritesTo(u) \in Sessions
    BY <1>3, <2>2 DEF WritesTo, Base, Held
  <2>4. WritesTo(u)' = WritesTo(u)
    BY <1>1, <2>2 DEF WritesTo
  <2>5. messages'[state'[u]] = messages[state[u]] /\ transcript'[WritesTo(u)] = transcript[WritesTo(u)]
    BY <1>1, <1>3, <2>2, <2>3
  <2>6. Knows(u) => Knows(u)'
    BY <2>4, <2>5 DEF Knows
  <2>. QED BY <2>1, <2>3, <2>4, <2>6
<1>8. ASSUME NEW s \in Sessions, NEW x \in Sessions, NEW v \in Objects, NEW u \in Objects,
             Has(s, v)', Has(x, u)', WritesTo(v)' = WritesTo(u)', Plain(WritesTo(v))'
      PROVE  v = u /\ Knows(v)'
  <2>1. CASE v # o /\ u # o
    BY <1>4, <1>7, <1>8, <2>1 DEF TalkInv, Plain
  <2>2. CASE v = o /\ u = o
    BY <1>6, <2>2
  <2>3. CASE (v = o) # (u = o)
    BY <1>6, <1>7, <1>8, <2>3
  <2>. QED BY <2>1, <2>2, <2>3
<1>. QED BY <1>8 DEF TalkInv, Objects

LEMMA TalkStep == Base /\ TalkInv /\ [Next]_vars => TalkInv'
<1>. SUFFICES ASSUME Base, TalkInv, [Next]_vars PROVE TalkInv'
  OBVIOUS
<1>. USE DEF history, client, sessionVars
<1>0. Types /\ prompt \in [Prompts -> Prompt]
  BY DEF Base, Types
<1>1. ASSUME PromptsGoOn, UNCHANGED <<transcript, messages, state, store, resumed, reloaded>>
      PROVE  TalkInv'
  BY <1>1, GoingOnAddsNone, GoingOnKeepsTalk DEF Knows, WritesTo
<1>2. ASSUME Stays, object' = object PROVE PromptsGoOn
  BY <1>2 DEF PromptsGoOn, Stays, Session, Live
<1>3. ASSUME UNCHANGED prompt PROVE Stays
  BY <1>0, <1>3 DEF Stays
<1>4. ASSUME NEW s \in Sessions, CancelSession(s) PROVE TalkInv'
  BY <1>0, <1>1, <1>2, <1>4, CancelTaskIsQuiet DEF CancelSession
<1>5. ASSUME NEW s \in Sessions, CloseSession(s) PROVE TalkInv'
  <2>1. Stays /\ \A t \in Sessions : object'[t] \in {object[t], 0}
    BY <1>0, <1>5, CancelTaskIsQuiet DEF CloseSession, Types
  <2>2. PromptsGoOn
    BY <2>1 DEF PromptsGoOn, Stays, Session, Live
  <2>. QED BY <1>1, <1>5, <2>2 DEF CloseSession
<1>6. ASSUME NEW s \in Sessions, Resumption(s) PROVE TalkInv'
  <2>1. /\ UNCHANGED <<prompt, messages, object, state, store, reloaded>> /\ resumed' = resumed \cup {s}
        /\ \A t \in Sessions \ {s} : transcript'[t] = transcript[t]
    BY <1>0, <1>6 DEF Resumption, Types
  <2>2. \A t \in Sessions, o \in Objects : Has(t, o)' => Has(t, o)
    BY <2>1 DEF Has, Session, Live
  <2>3. ASSUME NEW t \in Sessions, NEW o \in Objects, Has(t, o), Plain(WritesTo(o))', Knows(o)
        PROVE  Knows(o)'
    <3>1. WritesTo(o)' = WritesTo(o) /\ WritesTo(o) # s
      BY <2>1, <2>3 DEF WritesTo, Plain
    <3>2. WritesTo(o) \in Sessions
      BY <2>3 DEF Base, Held, WritesTo
    <3>. QED BY <2>1, <2>3, <3>1, <3>2 DEF Knows
  <2>. QED BY <2>1, <2>2, <2>3, GoingOnKeepsTalk
<1>7. ASSUME NEW p \in Prompts, SendPrompt(p) PROVE TalkInv'
  <2>1. UNCHANGED <<transcript, messages, state, store, object, resumed, reloaded>>
    BY <1>7 DEF SendPrompt
  <2>2. \A t \in Sessions, o \in Objects : Has(t, o)' => Has(t, o)
    <3>1. /\ \A q \in Prompts : Session(q)' = Session(q) /\ (q # p => prompt'[q] = prompt[q])
          /\ Live(p)' => object[Session(p)] # 0 /\ prompt'[p].object = object[Session(p)]
      BY <1>0, <1>7 DEF SendPrompt, Session, Prompt, Live, Waits
    <3>. QED BY <2>1, <3>1 DEF Has, Live
  <2>. QED BY <2>1, <2>2, GoingOnKeepsTalk DEF Knows, WritesTo
<1>8. ASSUME NEW p \in Prompts, Runs(p) PROVE TalkInv'
  <2>1. CASE Roll(p)
    BY <2>1, RollKeepsTalk
  <2>2. CASE ~Roll(p)
    <3>1. UNCHANGED <<object, state, store, resumed, reloaded>>
      BY <1>8, <2>2 DEF Runs, Turn, Start, NeverStarts, Pass, Enter, Compact, Answered, OutOfRounds,
         Failed, Cancelled, Respond
    <3>2. PromptsGoOn
      BY <1>0, <1>8, <3>1, PromptsMove, MovingGoesOn
    <3>3. \/ UNCHANGED <<transcript, messages>>
          \/ Live(p) /\ \E m : AddMessage(prompt[p].object, m)
      BY <1>8, <2>2 DEF Runs, Turn, Start, NeverStarts, Pass, Enter, Compact, Answered, OutOfRounds,
         Failed, Cancelled, Respond, Live, Waits
    <3>. QED BY <1>1, <3>1, <3>2, <3>3, BothAreTold
  <2>. QED BY <2>1, <2>2
<1>9. CASE Eof
  BY <1>1, <1>2, <1>3, <1>9 DEF Eof
<1>10. CASE Stop
  BY <1>0, <1>1, <1>2, <1>10, StopIsQuiet DEF Stop
<1>11. CASE UNCHANGED vars
  BY <1>1, <1>2, <1>3, <1>11 DEF vars
<1>. QED
  BY <1>4, <1>5, <1>6, <1>7, <1>8, <1>9, <1>10, <1>11, LoadKeepsTalk DEF Next

(* A turn has the whole of the conversation that it writes to: only a load *)
(* under another AgentSession's hands, or a job's result, can keep         *)
(* something from it.  Overlapped prompts, cancels, closes, failed turns   *)
(* and compactions do not; a compaction only makes it write elsewhere.     *)
THEOREM TurnsSeeTheConversation == Spec => []TurnSeesTheConversation
<1>1. Init => TalkInv
  <2>. SUFFICES ASSUME Init PROVE TalkInv
    OBVIOUS
  <2>1. \A p \in Prompts : ~Live(p)
    BY DEF Init, Live, Waits
  <2>2. \A s \in Sessions, o \in Objects : ~Has(s, o)
    BY <2>1 DEF Init, Has, Objects
  <2>. QED BY <2>2 DEF TalkInv
<1>2. AcpInv /\ TalkInv => TurnSeesTheConversation
  <2>. SUFFICES ASSUME Base, TalkInv, NEW p \in Prompts, prompt[p].stage = "turn"
       PROVE  LET n == state[prompt[p].object]
                  t == store[n]
              IN /\ messages[n] = transcript[t] \/ t \in reloaded \/ t \in resumed
                 /\ t = prompt[p].session \/ prompt[p].session \in rolled
    BY DEF AcpInv, TurnSeesTheConversation
  <2>1. Live(p)
    BY DEF Live, Waits
  <2>. QED BY <2>1, LiveWrites DEF TalkInv, Plain, Knows, WritesTo, Session
<1>3. AcpInv /\ TalkInv /\ [Next]_vars => TalkInv'
  BY TalkStep DEF AcpInv
<1>. QED BY <1>1, <1>2, <1>3, AcpInvariant, PTL DEF Spec
=============================================================================
