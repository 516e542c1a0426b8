---------------------------- MODULE ParentProofs ----------------------------
(***************************************************************************)
(* The two ways in which a parent learns of its jobs: it asks              *)
(* (DispatchService), or it is told (Completion).                          *)
(*                                                                         *)
(* What a status call answers, for any jobs and conversations, any number  *)
(* of turns, compactions and crashes, and tables that lose any entries.    *)
(*                                                                         *)
(* What the parent's history and user see of an outcome, for any number of *)
(* outcomes, modes, windows, crashes and failures.                         *)
(***************************************************************************)
EXTENDS DispatchService, Completion, TLAPS

Turns == Conversations \X Nat

(* The turn that a conversation is in now. *)
Current(t) == t[1] \in inTurn /\ t[2] = turn[t[1]]

Types ==
  /\ phase \in [JobIds -> Life!Phases]
  /\ turn \in [Conversations -> Nat] /\ inTurn \subseteq Conversations
  /\ DOMAIN owner = JobIds /\ DOMAIN creator = JobIds
  /\ answers \subseteq [turn : Turns, job : JobIds, phase : Life!Phases, deferred : BOOLEAN]
  /\ snapshots \subseteq answers

(* A turn that was answered has begun, and of a job that was submitted.    *)
AnswersAreOld ==
  \A a \in answers : a.turn[2] <= turn[a.turn[1]] /\ phase[a.job] # "absent"

(* What the turn under way was told is in the table, or was cut from it.   *)
AnswersAreKept ==
  \A a \in answers : Current(a.turn) => a \in snapshots \/ <<a.turn, a.job>> \in cut

(* A job belongs to the conversation of the turn that made it, and that    *)
(* turn, while it lasts, has a note of it.                                 *)
CreatorsAreNoted ==
  \A j \in JobIds : phase[j] # "absent" =>
    /\ creator[j] \in Turns /\ creator[j][2] <= turn[creator[j][1]]
    /\ owner[j][1] = creator[j][1]
    /\ Current(creator[j]) => <<creator[j], j>> \in submitted \cup cut

ServiceInv ==
  /\ Types /\ AnswersAreOld /\ AnswersAreKept /\ CreatorsAreNoted
  /\ OneAnswerPerTurn /\ AnswersFitTheCreator

LEMMA InitHolds == ServiceInit => ServiceInv
BY DEF ServiceInit, ServiceInv, Types, AnswersAreOld, AnswersAreKept, CreatorsAreNoted,
   OneAnswerPerTurn, AnswersFitTheCreator, Life!Init, Life!Phases, Life!Pending

(* Below the service a job is neither made nor unmade. *)
LEMMA JobsMove ==
  ASSUME phase \in [JobIds -> Life!Phases], NEW j \in JobIds,
         \/ Life!Start(j) \/ Life!Requeue(j) \/ Life!AskToStop(j) \/ Life!Forget({j})
         \/ \E o \in Life!Outcomes : Life!Conclude(j, o)
  PROVE  /\ phase' \in [JobIds -> Life!Phases]
         /\ \A k \in JobIds : phase'[k] = "absent" <=> phase[k] = "absent"
<1>1. CASE Life!Start(j) \/ Life!Requeue(j) \/ Life!AskToStop(j)
  BY <1>1 DEF Life!Start, Life!Requeue, Life!AskToStop, Life!Move, Life!Phases, Life!Pending
<1>2. CASE Life!Forget({j})
  BY <1>2 DEF Life!Forget, Life!Phases, Life!Outcomes
<1>3. ASSUME NEW o \in Life!Outcomes, Life!Conclude(j, o)
      PROVE  /\ phase' \in [JobIds -> Life!Phases]
             /\ \A k \in JobIds : phase'[k] = "absent" <=> phase[k] = "absent"
  <2>1. phase[j] # "absent"
    BY <1>3 DEF Life!Conclude, Life!MayEndAs
  <2>. QED BY <1>3, <2>1 DEF Life!Conclude, Life!Phases, Life!Outcomes
<1>. QED BY <1>1, <1>2, <1>3

(* A step that leaves answers, turns and owners alone, and no more than    *)
(* moves jobs that exist, forgets entries only by cutting them or by       *)
(* ending the turn.                                                        *)
LEMMA OthersKeep ==
  ASSUME ServiceInv,
         phase' \in [JobIds -> Life!Phases],
         \A k \in JobIds : phase'[k] = "absent" <=> phase[k] = "absent",
         UNCHANGED <<owner, creator, turn, answers>>,
         inTurn' \subseteq inTurn,
         snapshots' \subseteq snapshots, cut \subseteq cut',
         \A s \in snapshots : s \in snapshots' \/ <<s.turn, s.job>> \in cut' \/ s.turn[1] \notin inTurn',
         \A e \in submitted : e \in submitted' \/ e \in cut' \/ e[1][1] \notin inTurn'
  PROVE  ServiceInv'
<1>1. Types'
  BY DEF ServiceInv, Types
<1>2. AnswersAreOld'
  BY DEF ServiceInv, Types, AnswersAreOld
<1>3. AnswersAreKept'
  BY DEF ServiceInv, Types, AnswersAreKept, Current
<1>4. CreatorsAreNoted'
  <2>. SUFFICES ASSUME NEW j \in JobIds, phase[j] # "absent"
                PROVE  /\ creator[j] \in Turns /\ creator[j][2] <= turn[creator[j][1]]
                       /\ owner[j][1] = creator[j][1]
                       /\ Current(creator[j])' => <<creator[j], j>> \in submitted' \cup cut'
    BY DEF CreatorsAreNoted
  <2>1. Current(creator[j])' => Current(creator[j]) /\ creator[j][1] \in inTurn'
    BY DEF Current
  <2>2. <<creator[j], j>>[1][1] = creator[j][1]
    OBVIOUS
  <2>. QED BY <2>1, <2>2 DEF ServiceInv, CreatorsAreNoted
<1>5. OneAnswerPerTurn'
  BY DEF ServiceInv, OneAnswerPerTurn
<1>6. AnswersFitTheCreator'
  BY DEF ServiceInv, AnswersFitTheCreator
<1>. QED BY <1>1, <1>2, <1>3, <1>4, <1>5, <1>6 DEF ServiceInv

LEMMA SubmitKeeps ==
  ASSUME ServiceInv, NEW c \in Conversations, NEW j \in JobIds, Submit(c, j)
  PROVE  ServiceInv'
<1>. USE DEF Submit, Note, Life!Accept, Life!Move, TurnId, SessionId, callerVars, Turns
<1>1. Types'
  BY DEF ServiceInv, Types, Life!Phases, Life!Pending
<1>2. \A a \in answers : a.job # j
  BY DEF ServiceInv, AnswersAreOld
<1>3. AnswersAreOld'
  BY <1>2 DEF ServiceInv, Types, AnswersAreOld
<1>4. AnswersAreKept'
  BY DEF ServiceInv, AnswersAreKept, Current
<1>5. CreatorsAreNoted'
  BY DEF ServiceInv, Types, CreatorsAreNoted, Current
<1>6. OneAnswerPerTurn'
  BY DEF ServiceInv, OneAnswerPerTurn
<1>7. AnswersFitTheCreator'
  BY <1>2 DEF ServiceInv, Types, AnswersFitTheCreator
<1>. QED BY <1>1, <1>3, <1>4, <1>5, <1>6, <1>7 DEF ServiceInv

LEMMA StatusKeeps ==
  ASSUME ServiceInv, NEW c \in Conversations, NEW j \in JobIds, Status(c, j)
  PROVE  ServiceInv'
<1>. DEFINE new == Answer(c, j)
<1>. USE DEF Status, callerVars, jobVars
<1>a. new = [turn |-> <<c, turn[c]>>, job |-> j, phase |-> phase[j],
             deferred |-> <<<<c, turn[c]>>, j>> \in submitted]
  BY DEF Answer, TurnId
<1>b. new.deferred = (<<<<c, turn[c]>>, j>> \in submitted)
  BY Zenon DEF Answer, TurnId
<1>0. new.turn = <<c, turn[c]>> /\ new.job = j
  BY <1>a
<1>c. new \in [turn : Turns, job : JobIds, phase : Life!Phases, deferred : BOOLEAN]
  BY <1>a DEF ServiceInv, Types, Turns
<1>d. answers' = answers \cup {new} /\ snapshots' = snapshots \cup {new}
  OBVIOUS
<1>. HIDE DEF new
<1>1. Types'
  BY <1>c, <1>d DEF ServiceInv, Types
<1>2. AnswersAreOld'
  BY <1>0, <1>d DEF ServiceInv, Types, AnswersAreOld, Owned
<1>3. AnswersAreKept'
  BY <1>d DEF ServiceInv, Types, AnswersAreKept, Current
<1>4. CreatorsAreNoted'
  BY DEF ServiceInv, CreatorsAreNoted, Current
<1>5. OneAnswerPerTurn'
  <2>1. ASSUME NEW a \in answers, a.turn = new.turn, a.job = new.job
        PROVE  <<a.turn, a.job>> \in cut
    <3>1. Current(a.turn)
      BY <1>0, <2>1 DEF Current
    <3>2. a \notin snapshots
      BY <1>0, <2>1 DEF Snapshot, TurnId
    <3>. QED BY <3>1, <3>2 DEF ServiceInv, AnswersAreKept
  <2>. QED BY <1>d, <2>1 DEF ServiceInv, OneAnswerPerTurn
<1>6. AnswersFitTheCreator'
  <2>1. phase[j] # "absent" /\ owner[j] = <<c, session[c]>>
    BY DEF Owned, SessionId
  <2>a. owner[j][1] = c
    BY <2>1
  <2>b. owner[j][1] = creator[j][1]
    BY <2>1 DEF ServiceInv, CreatorsAreNoted
  <2>2. creator[j][1] = c
    BY <2>a, <2>b
  <2>3. new.turn[1] = creator[new.job][1]
    BY <1>0, <2>2
  <2>4. new.turn = creator[new.job] => new.deferred \/ <<new.turn, new.job>> \in cut
    <3>1. ASSUME <<c, turn[c]>> = creator[j]
          PROVE  <<<<c, turn[c]>>, j>> \in submitted \cup cut
      BY <2>1, <3>1 DEF ServiceInv, CreatorsAreNoted, Current
    <3>. QED BY <1>0, <1>b, <3>1
  <2>. QED BY <1>d, <2>3, <2>4 DEF ServiceInv, AnswersFitTheCreator
<1>. QED BY <1>1, <1>2, <1>3, <1>4, <1>5, <1>6 DEF ServiceInv

LEMMA BeginTurnKeeps ==
  ASSUME ServiceInv, NEW c \in Conversations, BeginTurn(c)
  PROVE  ServiceInv'
<1>. USE DEF BeginTurn, jobVars, memory
<1>1. Types'
  BY DEF ServiceInv, Types
<1>2. \A t \in Turns : /\ t[2] <= turn[t[1]] => t[2] <= turn'[t[1]]
                       /\ t[2] <= turn[t[1]] /\ Current(t)' => Current(t)
  BY DEF ServiceInv, Types, Turns, Current
<1>3. \A a \in answers : a.turn \in Turns
  BY DEF ServiceInv, Types
<1>4. AnswersAreOld'
  BY <1>2, <1>3 DEF ServiceInv, AnswersAreOld
<1>5. AnswersAreKept'
  BY <1>2, <1>3 DEF ServiceInv, AnswersAreOld, AnswersAreKept
<1>6. CreatorsAreNoted'
  BY <1>2 DEF ServiceInv, CreatorsAreNoted
<1>7. OneAnswerPerTurn' /\ AnswersFitTheCreator'
  BY DEF ServiceInv, OneAnswerPerTurn, AnswersFitTheCreator
<1>. QED BY <1>1, <1>4, <1>5, <1>6, <1>7 DEF ServiceInv

LEMMA StepKeeps == ServiceInv /\ [ServiceNext]_serviceVars => ServiceInv'
<1>. SUFFICES ASSUME ServiceInv, [ServiceNext]_serviceVars PROVE ServiceInv'
  OBVIOUS
<1>. USE DEF callerVars, memory, jobVars
<1>0. phase \in [JobIds -> Life!Phases]
  BY DEF ServiceInv, Types
<1>1. ASSUME NEW c \in Conversations, NEW j \in JobIds, Submit(c, j) PROVE ServiceInv'
  BY <1>1, SubmitKeeps
<1>2. ASSUME NEW c \in Conversations, NEW j \in JobIds, Replay(c, j) PROVE ServiceInv'
  BY <1>0, <1>2, OthersKeep DEF Replay, Note
<1>3. ASSUME NEW c \in Conversations, NEW j \in JobIds, StatusAgain(c, j) PROVE ServiceInv'
  <2>1. answers' = answers
    BY <1>3 DEF StatusAgain, Snapshot, ServiceInv, Types
  <2>. QED BY <1>0, <1>3, <2>1, OthersKeep DEF StatusAgain
<1>4. ASSUME NEW c \in Conversations, NEW j \in JobIds, Status(c, j) PROVE ServiceInv'
  BY <1>4, StatusKeeps
<1>5. ASSUME NEW c \in Conversations, NEW j \in JobIds, Cancel(c, j) PROVE ServiceInv'
  <2>1. \/ Life!AskToStop(j)
        \/ \E o \in Life!Outcomes : Life!Conclude(j, o)
    BY <1>5 DEF Cancel, Life!Outcomes
  <2>2. /\ phase' \in [JobIds -> Life!Phases]
        /\ \A k \in JobIds : phase'[k] = "absent" <=> phase[k] = "absent"
    BY <1>0, <2>1, JobsMove
  <2>. QED BY <1>5, <2>2, OthersKeep DEF Cancel
<1>6. ASSUME NEW c \in Conversations, BeginTurn(c) PROVE ServiceInv'
  BY <1>6, BeginTurnKeeps
<1>7. ASSUME NEW c \in Conversations, EndTurn(c) \/ Roll(c) PROVE ServiceInv'
  BY <1>0, <1>7, OthersKeep DEF EndTurn, Roll
<1>8. ASSUME NEW p \in polled, IntervalOver(p) PROVE ServiceInv'
  BY <1>0, <1>8, OthersKeep DEF IntervalOver
<1>9. ASSUME NEW j \in JobIds, JobGoesOn(j) PROVE ServiceInv'
  <2>1. \/ Life!Start(j) \/ Life!Requeue(j) \/ Life!Forget({j})
        \/ \E o \in Life!Outcomes : Life!Conclude(j, o)
    BY <1>9, ServiceAssumption DEF JobGoesOn, Life!Outcomes
  <2>2. /\ phase' \in [JobIds -> Life!Phases]
        /\ \A k \in JobIds : phase'[k] = "absent" <=> phase[k] = "absent"
    BY <1>0, <2>1, JobsMove
  <2>. QED BY <1>9, <2>2, OthersKeep DEF JobGoesOn
<1>10. CASE Overflow
  BY <1>0, <1>10, OthersKeep DEF Overflow
<1>11. CASE Restart
  BY <1>0, <1>11, OthersKeep DEF Restart
<1>12. CASE UNCHANGED serviceVars
  BY <1>0, <1>12, OthersKeep DEF serviceVars
<1>. QED BY <1>1, <1>2, <1>3, <1>4, <1>5, <1>6, <1>7, <1>8, <1>9, <1>10, <1>11, <1>12 DEF ServiceNext

(* The tables of DispatchJobService, the turns and the creators of jobs    *)
(* fit together.                                                           *)
THEOREM ServiceInvariant == ServiceSpec => []ServiceInv
BY InitHolds, StepKeeps, PTL DEF ServiceSpec

(* Every status call of a turn gets the same answer for a job, unless a    *)
(* full table of DispatchJobService lost it.                               *)
THEOREM TurnsGetOneAnswer == ServiceSpec => []OneAnswerPerTurn
<1>1. ServiceInv => OneAnswerPerTurn
  BY DEF ServiceInv
<1>. QED BY ServiceInvariant, <1>1, PTL

(* Only the conversation that submitted a job is told of it, and the turn  *)
(* that did is told to wait, although snapshots are looked up first.       *)
THEOREM CreatorsAreTold == ServiceSpec => []AnswersFitTheCreator
<1>1. ServiceInv => AnswersFitTheCreator
  BY DEF ServiceInv
<1>. QED BY ServiceInvariant, <1>1, PTL

(***************************************************************************)
(* The way of an outcome (Completion).                                     *)
(***************************************************************************)
WayTypes ==
  /\ transcript \in [Jobs -> Transcript]
  /\ turns \in [Jobs -> Nat] /\ replies \in [Jobs -> Nat] /\ crashes \in Nat
  /\ queue \in Seq(Event)
  /\ bus \in [stage : Stages, job : Jobs \cup {0}, tries : Nat]
  /\ consumed \subseteq Jobs /\ published \subseteq consumed
  /\ files \subseteq consumed /\ todo \subseteq files

(* A process that is down has nothing in memory. *)
DownIsEmpty == ~up => queue = <<>> /\ bus = Idle /\ todo = {}

(* The bus is at one of the stages with job j. *)
Busy(stages, j) == bus.stage \in stages /\ bus.job = j

Has(q, j)  == \E i \in 1 .. Len(q) : q[i] = Outbound(j)
InQueue(j) == Has(queue, j)

(* What the bus is doing for an event, and where its reply is. *)
BusFits ==
  \A j \in Jobs :
    /\ Busy({"resuming", "calling", "turn", "answered"}, j) => j \notin consumed /\ Mode[j] = "resume_parent"
    /\ Busy({"marking"}, j) => j \in consumed
    /\ Busy({"delivering", "acking"}, j) => j \in files \ todo
    /\ InQueue(j) => j \in consumed

WayInv == WayTypes /\ DownIsEmpty /\ BusFits

LEMMA Records ==
  /\ \A s, j : /\ At(s, j).stage = s /\ At(s, j).job = j /\ At(s, j).tries = 0
  /\ Idle.stage = "idle" /\ Idle.job = 0 /\ Idle.tries = 0
  /\ \A i, j : /\ Outbound(i) = Outbound(j) => i = j
               /\ Outbound(i) # Completed(j)
BY DEF At, Idle, Outbound, Completed

(* No reply is twice in a queue. *)
Once(q) ==
  \A j : \A i, k \in 1 .. Len(q) : q[i] = Outbound(j) /\ q[k] = Outbound(j) => i = k

(* What comes and goes at the ends of a queue. *)
LEMMA QueueGrows ==
  ASSUME NEW q \in Seq(Event), NEW e \in Event
  PROVE  /\ Append(q, e) \in Seq(Event)
         /\ \A j : Has(Append(q, e), j) <=> Has(q, j) \/ e = Outbound(j)
         /\ Once(q) /\ (\A j : e = Outbound(j) => ~Has(q, j)) => Once(Append(q, e))
<1> DEFINE p == Append(q, e)
<1>1. /\ p \in Seq(Event) /\ Len(p) = Len(q) + 1 /\ Len(q) \in Nat
      /\ \A i \in 1 .. Len(q) : p[i] = q[i]
      /\ p[Len(q) + 1] = e
  OBVIOUS
<1>. HIDE DEF p
<1>2. ASSUME NEW j PROVE Has(p, j) <=> Has(q, j) \/ e = Outbound(j)
  BY <1>1 DEF Has, Outbound
<1>3. ASSUME Once(q), \A j : e = Outbound(j) => ~Has(q, j),
             NEW j, NEW i \in 1 .. Len(p), NEW k \in 1 .. Len(p), p[i] = Outbound(j), p[k] = Outbound(j)
      PROVE  i = k
  <2>1. CASE e = Outbound(j)
    <3>1. ASSUME NEW l \in 1 .. Len(p), p[l] = Outbound(j) PROVE l = Len(q) + 1
      BY <1>1, <1>3, <2>1, <3>1 DEF Has
    <3>. QED BY <1>3, <3>1
  <2>2. CASE e # Outbound(j)
    <3>1. i \in 1 .. Len(q) /\ k \in 1 .. Len(q)
      BY <1>1, <1>3, <2>2
    <3>2. q[i] = Outbound(j) /\ q[k] = Outbound(j)
      BY <1>1, <1>3, <3>1
    <3>. QED BY <1>3, <3>1, <3>2 DEF Once
  <2>. QED BY <2>1, <2>2
<1>4. Once(q) /\ (\A j : e = Outbound(j) => ~Has(q, j)) => Once(p)
  BY <1>3 DEF Once
<1>. QED BY <1>1, <1>2, <1>4 DEF p

LEMMA QueueShrinks ==
  ASSUME NEW q \in Seq(Event), q # <<>>
  PROVE  /\ Tail(q) \in Seq(Event) /\ Head(q) \in Event
         /\ \A j : Has(Tail(q), j) => Has(q, j)
         /\ \A j : Head(q) = Outbound(j) => Has(q, j)
         /\ \A j : Has(q, j) /\ Head(q) # Outbound(j) => Has(Tail(q), j)
         /\ Once(q) => Once(Tail(q))
         /\ \A j : Once(q) /\ Head(q) = Outbound(j) => ~Has(Tail(q), j)
<1> DEFINE t == Tail(q)
<1>1. /\ t \in Seq(Event) /\ Len(t) = Len(q) - 1 /\ Len(q) \in Nat \ {0}
      /\ \A i \in 1 .. Len(t) : t[i] = q[i + 1]
      /\ Head(q) = q[1] /\ Head(q) \in Event
  OBVIOUS
<1>. HIDE DEF t
<1>2. ASSUME NEW j, Has(t, j) PROVE Has(q, j)
  BY <1>1, <1>2 DEF Has, Outbound
<1>3. ASSUME NEW j, Head(q) = Outbound(j) PROVE Has(q, j)
  BY <1>1, <1>3 DEF Has
<1>4. ASSUME NEW j, Has(q, j), Head(q) # Outbound(j) PROVE Has(t, j)
  <2>1. PICK i \in 1 .. Len(q) : q[i] = Outbound(j)
    BY <1>4 DEF Has
  <2>2. i # 1 /\ i - 1 \in 1 .. Len(t) /\ t[i - 1] = q[i]
    BY <1>1, <1>4, <2>1
  <2>. QED BY <2>1, <2>2 DEF Has, Outbound
<1>5. ASSUME Once(q) PROVE Once(t)
  <2>1. ASSUME NEW j, NEW i \in 1 .. Len(t), NEW k \in 1 .. Len(t), t[i] = Outbound(j), t[k] = Outbound(j)
        PROVE  i = k
    <3>1. i + 1 \in 1 .. Len(q) /\ k + 1 \in 1 .. Len(q) /\ q[i + 1] = Outbound(j) /\ q[k + 1] = Outbound(j)
      BY <1>1, <2>1
    <3>2. i + 1 = k + 1
      BY <1>5, <3>1 DEF Once
    <3>. QED BY <3>2
  <2>. QED BY <2>1 DEF Once
<1>6. ASSUME NEW j, Once(q), Head(q) = Outbound(j), Has(t, j) PROVE FALSE
  <2>1. PICK i \in 1 .. Len(t) : t[i] = Outbound(j)
    BY <1>6 DEF Has
  <2>2. i + 1 \in 1 .. Len(q) /\ q[i + 1] = Outbound(j) /\ 1 \in 1 .. Len(q) /\ q[1] = Outbound(j)
    BY <1>1, <1>6, <2>1
  <2>3. i + 1 = 1
    BY <1>6, <2>2 DEF Once
  <2>. QED BY <2>3
<1>. QED BY <1>1, <1>2, <1>3, <1>4, <1>5, <1>6 DEF t

-----------------------------------------------------------------------------
LEMMA StartOfTheWay == Init => WayInv
<1>. SUFFICES ASSUME Init PROVE WayInv
  OBVIOUS
<1>. USE DEF Init
<1>1. \A j : ~InQueue(j)
  BY DEF InQueue, Has
<1>2. WayTypes
  BY DEF WayTypes, Transcript, Idle, Stages
<1>. QED BY <1>1, <1>2 DEF WayInv, DownIsEmpty, BusFits, Busy, Idle

(* Steps that leave the bus and its queue alone. *)
LEMMA OutboxSteps ==
  ASSUME WayInv,
         \/ JobEnds \/ (\E j \in Jobs : BackoffOver(j))
         \/ Crash \/ Start \/ UNCHANGED vars
  PROVE  WayInv'
<1>. USE DEF WayInv, WayTypes, DownIsEmpty, BusFits, Busy, told, delivery, routed, outboxVars
<1>1. CASE JobEnds \/ (\E j \in Jobs : BackoffOver(j)) \/ UNCHANGED vars
  <2>1. /\ UNCHANGED <<published, consumed, transcript, files, up, queue, bus, todo, turns, replies, crashes>>
    BY <1>1 DEF JobEnds, BackoffOver, vars
  <2>2. \A j : InQueue(j)' <=> InQueue(j)
    BY <2>1 DEF InQueue
  <2>. QED BY <2>1, <2>2
<1>2. CASE Crash
  <2>1. \A j : ~InQueue(j)'
    BY <1>2 DEF Crash, InQueue, Has
  <2>2. /\ bus' = Idle /\ todo' = {} /\ queue' = <<>> /\ crashes' = crashes + 1
        /\ UNCHANGED <<published, consumed, transcript, files, turns, replies>>
    BY <1>2 DEF Crash
  <2>3. queue' \in Seq(Event)
    BY <2>2
  <2>4. WayTypes'
    BY <2>2, <2>3 DEF Idle, Stages
  <2>. QED BY <2>1, <2>2, <2>4, Records
<1>3. CASE Start
  <2>1. \A j : InQueue(j)' <=> InQueue(j)
    BY <1>3 DEF Start, InQueue
  <2>2. /\ bus = Idle /\ todo' = files /\ up' = TRUE
        /\ UNCHANGED <<published, consumed, transcript, files, turns, replies, queue, bus, crashes>>
    BY <1>3 DEF Start
  <2>3. ASSUME NEW k \in Jobs PROVE bus'.stage = "idle" /\ bus'.job # k
    BY <2>2, Records DEF Jobs
  <2>. QED BY <2>1, <2>2, <2>3, Records
<1>. QED BY <1>1, <1>2, <1>3

(* The outbox worker adds an event. *)
LEMMA PublishSteps ==
  ASSUME WayInv, NEW j \in Jobs, Publish(j)
  PROVE  WayInv'
<1>1. Completed(j) \in Event /\ queue' = Append(queue, Completed(j)) /\ up
  BY DEF Completed, Event, Publish, Awake
<1>2. /\ queue' \in Seq(Event)
      /\ \A k : InQueue(k)' <=> InQueue(k)
  BY <1>1, QueueGrows, Records DEF WayInv, WayTypes, InQueue
<1>. QED BY <1>1, <1>2 DEF Publish, WayInv, WayTypes, DownIsEmpty, BusFits, Busy,
         told, delivery, routed

(* The router takes an event from the queue. *)
LEMMA TakeSteps ==
  ASSUME WayInv, NEW j \in Jobs, SeenBefore(j) \/ RouteDirectly(j) \/ Resume(j)
  PROVE  WayInv'
<1>1. queue # <<>> /\ Head(queue) = Completed(j) /\ bus = Idle /\ up /\ todo = {}
  BY DEF SeenBefore, RouteDirectly, Resume, Take
<1>2. queue \in Seq(Event)
  BY DEF WayInv, WayTypes
<1>3. CASE SeenBefore(j) \/ Resume(j)
  <2>1. queue' = Tail(queue) /\ UNCHANGED <<consumed, transcript, files, turns, replies, todo, crashes, up>>
    BY <1>3 DEF SeenBefore, Resume, Quiet, routed, told, delivery
  <2>2. queue' \in Seq(Event) /\ \A k : InQueue(k)' => InQueue(k)
    BY <1>1, <1>2, <2>1, QueueShrinks DEF InQueue
  <2>3. \/ j \in consumed /\ published' = published \cup {j} /\ bus' = bus
        \/ j \notin consumed /\ Mode[j] = "resume_parent" /\ published' = published /\ bus' = At("resuming", j)
    BY <1>3 DEF SeenBefore, Resume, routed
  <2>. QED BY <1>1, <2>1, <2>2, <2>3 DEF WayInv, WayTypes, DownIsEmpty, BusFits, Busy, At, Stages
<1>4. CASE RouteDirectly(j)
  <2>1. /\ UNCHANGED <<published, transcript, files, turns, replies, todo, crashes, up>>
        /\ j \notin consumed /\ consumed' = consumed \cup {j} /\ bus' = At("marking", j)
        /\ queue' = IF Mode[j] = "notify" THEN Append(Tail(queue), Outbound(j)) ELSE Tail(queue)
    BY <1>4 DEF RouteDirectly, Quiet, routed, told, delivery
  <2>2. queue' \in Seq(Event) /\ \A k : InQueue(k)' => InQueue(k) \/ k = j
    <3>1. Tail(queue) \in Seq(Event) /\ \A k : Has(Tail(queue), k) => Has(queue, k)
      BY <1>1, <1>2, QueueShrinks
    <3>2. Outbound(j) \in Event
      BY DEF Outbound, Event
    <3>3. CASE queue' = Tail(queue)
      BY <3>1, <3>3 DEF InQueue
    <3>4. CASE queue' = Append(Tail(queue), Outbound(j))
      <4>1. /\ queue' \in Seq(Event)
            /\ \A k : Has(queue', k) <=> Has(Tail(queue), k) \/ Outbound(j) = Outbound(k)
        BY <3>1, <3>2, <3>4, QueueGrows
      <4>. QED BY <3>1, <4>1, Records DEF InQueue
    <3>. QED BY <2>1, <3>3, <3>4
  <2>. QED BY <1>1, <2>1, <2>2 DEF WayInv, WayTypes, DownIsEmpty, BusFits, Busy, At, Stages
<1>. QED BY <1>3, <1>4

(* The parent is resumed. *)
LEMMA ResumeSteps ==
  ASSUME WayInv, NEW j \in Jobs,
         \/ ResumeOrphan(j) \/ LookUp(j) \/ AddResult(j) \/ TurnFails(j)
         \/ \E e \in Endings : TurnEnds(j, e)
  PROVE  WayInv'
<1>1. /\ UNCHANGED <<published, consumed, files, replies, queue, todo, crashes, up>>
      /\ up /\ bus \in {At("resuming", j), At("calling", j), At("turn", j)}
      /\ bus' \in {Idle, At("calling", j), At("turn", j), At("answered", j)}
  BY DEF ResumeOrphan, LookUp, AddResult, TurnFails, TurnEnds, Quiet,
     routed, told, delivery
<1>2. transcript' \in [Jobs -> Transcript] /\ turns' \in [Jobs -> Nat]
  <2>1. transcript \in [Jobs -> Transcript] /\ turns \in [Jobs -> Nat]
    BY DEF WayInv, WayTypes
  <2>2. \/ transcript' = transcript
        \/ transcript' = [transcript EXCEPT ![j].calls = @ + 1]
        \/ transcript' = [transcript EXCEPT ![j].results = @ + 1]
        \/ transcript' = [transcript EXCEPT ![j].answered = TRUE]
    BY DEF ResumeOrphan, LookUp, AddResult, TurnFails, TurnEnds, told
  <2>3. turns' = turns \/ turns' = [turns EXCEPT ![j] = @ + 1]
    BY DEF ResumeOrphan, LookUp, AddResult, TurnFails, TurnEnds, told
  <2>4. transcript[j] \in [calls : Nat, results : Nat, answered : BOOLEAN]
    BY <2>1 DEF Transcript
  <2>5. \E t \in Transcript : transcript' = [transcript EXCEPT ![j] = t] \/ transcript' = transcript
    <3>1. CASE transcript' = transcript
      BY <2>4, <3>1 DEF Transcript
    <3>2. CASE transcript' = [transcript EXCEPT ![j].calls = @ + 1]
      <4>1. [transcript[j] EXCEPT !.calls = @ + 1] \in Transcript
        BY <2>4 DEF Transcript
      <4>. QED BY <3>2, <4>1
    <3>3. CASE transcript' = [transcript EXCEPT ![j].results = @ + 1]
      <4>1. [transcript[j] EXCEPT !.results = @ + 1] \in Transcript
        BY <2>4 DEF Transcript
      <4>. QED BY <3>3, <4>1
    <3>4. CASE transcript' = [transcript EXCEPT ![j].answered = TRUE]
      <4>1. [transcript[j] EXCEPT !.answered = TRUE] \in Transcript
        BY <2>4 DEF Transcript
      <4>. QED BY <3>4, <4>1
    <3>. QED BY <2>2, <3>1, <3>2, <3>3, <3>4
  <2>6. transcript' \in [Jobs -> Transcript]
    BY <2>1, <2>5
  <2>. QED BY <2>1, <2>3, <2>6
<1>3. \A k : InQueue(k)' <=> InQueue(k)
  BY <1>1 DEF InQueue
<1>4. j \notin consumed /\ Mode[j] = "resume_parent"
  BY <1>1 DEF WayInv, BusFits, Busy, At
<1>. QED BY <1>1, <1>2, <1>3, <1>4 DEF WayInv, WayTypes, DownIsEmpty, BusFits, Busy, At, Idle, Stages

(* The answer is queued, or the row marked. *)
LEMMA AnswerSteps ==
  ASSUME WayInv, NEW j \in Jobs, RouteAnswer(j) \/ MarkPublished(j)
  PROVE  WayInv'
<1>1. CASE RouteAnswer(j)
  <2>1. /\ UNCHANGED <<published, transcript, turns, files, replies, todo, crashes, up>>
        /\ up /\ bus = At("answered", j) /\ bus' = At("marking", j)
        /\ consumed' = consumed \cup {j} /\ queue' = Append(queue, Outbound(j))
    BY <1>1 DEF RouteAnswer, Quiet, told, delivery
  <2>2. queue \in Seq(Event) /\ Outbound(j) \in Event
    BY DEF WayInv, WayTypes, Outbound, Event
  <2>3. queue' \in Seq(Event) /\ \A k : InQueue(k)' => InQueue(k) \/ k = j
    BY <2>1, <2>2, QueueGrows, Records DEF InQueue
  <2>. QED BY <2>1, <2>3 DEF WayInv, WayTypes, DownIsEmpty, BusFits, Busy, At, Stages
<1>2. CASE MarkPublished(j)
  <2>1. /\ UNCHANGED <<consumed, transcript, turns, files, replies, todo, crashes, up, queue>>
        /\ up /\ bus = At("marking", j) /\ bus' = Idle /\ published' = published \cup {j}
    BY <1>2 DEF MarkPublished, Quiet, told, delivery
  <2>2. \A k : InQueue(k)' <=> InQueue(k)
    BY <2>1 DEF InQueue
  <2>. QED BY <2>1, <2>2 DEF WayInv, WayTypes, DownIsEmpty, BusFits, Busy, At, Idle, Stages
<1>. QED BY <1>1, <1>2

(* A reply goes from the queue, or from the files of the last process, to  *)
(* the platform.                                                           *)
LEMMA TakeOutboundStep ==
  ASSUME WayInv, NEW j \in Jobs, TakeOutbound(j)
  PROVE  WayInv'
<1>1. /\ UNCHANGED <<published, consumed, transcript, turns, replies, todo, crashes, up>>
      /\ up /\ bus = Idle /\ todo = {} /\ queue # <<>> /\ Head(queue) = Outbound(j)
      /\ queue' = Tail(queue) /\ files' = files \cup {j} /\ bus' = At("delivering", j)
  BY DEF TakeOutbound, Take, Quiet, routed, told
<1>2. queue \in Seq(Event)
  BY DEF WayInv, WayTypes
<1>3. queue' \in Seq(Event) /\ InQueue(j) /\ \A k : InQueue(k)' => InQueue(k)
  BY <1>1, <1>2, QueueShrinks DEF InQueue
<1>. QED BY <1>1, <1>3 DEF WayInv, WayTypes, DownIsEmpty, BusFits, Busy, At, Stages

LEMMA DeliverySteps ==
  ASSUME WayInv, NEW j \in Jobs,
         \/ Recover(j) \/ SkipDelivery(j) \/ Deliver(j) \/ DeliveryFails(j) \/ Ack(j)
  PROVE  WayInv'
<1>. USE DEF Quiet, routed, told, delivery
<1>1. /\ UNCHANGED <<published, consumed, transcript, turns, queue, crashes, up>> /\ up
  BY DEF Recover, SkipDelivery, Deliver, DeliveryFails, Ack, Delivering
<1>2. \A k : InQueue(k)' <=> InQueue(k)
  BY <1>1 DEF InQueue
<1>3. /\ replies' \in [Jobs -> Nat] /\ todo' \subseteq files'
      /\ files' \subseteq files
  <2>1. replies \in [Jobs -> Nat] /\ todo \subseteq files
    BY DEF WayInv, WayTypes
  <2>2. CASE Recover(j) \/ SkipDelivery(j) \/ Deliver(j) \/ DeliveryFails(j)
    BY <2>1, <2>2 DEF Recover, SkipDelivery, Deliver, DeliveryFails
  <2>3. CASE Ack(j)
    <3>1. j \notin todo
      BY <2>3 DEF Ack, At, WayInv, BusFits, Busy
    <3>. QED BY <2>1, <2>3, <3>1 DEF Ack
  <2>. QED BY <2>2, <2>3
<1>4. ASSUME NEW k \in Jobs, Busy({"delivering", "acking"}, k)'
      PROVE  k \in files' \ todo'
  <2>1. k = j /\ (Recover(j) \/ Deliver(j) \/ DeliveryFails(j))
    <3>1. bus'.job = k /\ bus'.stage \in {"delivering", "acking"}
      BY <1>4 DEF Busy
    <3>2. CASE SkipDelivery(j) \/ Ack(j)
      BY <3>1, <3>2, Records DEF SkipDelivery, Ack
    <3>3. CASE Recover(j) \/ Deliver(j)
      BY <3>1, <3>3, Records DEF Recover, Deliver
    <3>4. CASE DeliveryFails(j)
      <4>1. bus.job = j /\ (bus' = [bus EXCEPT !.tries = @ + 1] \/ bus' = At("acking", j))
        BY <3>4 DEF DeliveryFails, Delivering
      <4>2. bus'.job = j
        BY <4>1, Records DEF WayInv, WayTypes
      <4>. QED BY <3>1, <3>4, <4>2
    <3>. QED BY <3>2, <3>3, <3>4
  <2>2. CASE Recover(j)
    BY <2>1, <2>2 DEF Recover, WayInv, WayTypes
  <2>3. CASE Deliver(j) \/ DeliveryFails(j)
    BY <2>1, <2>3 DEF Deliver, DeliveryFails, Delivering, WayInv, BusFits, Busy
  <2>. QED BY <2>1, <2>2, <2>3
<1>5. /\ bus' \in [stage : Stages, job : Jobs \cup {0}, tries : Nat]
      /\ bus'.stage \in {"idle", "delivering", "acking"}
  <2>1. bus \in [stage : Stages, job : Jobs \cup {0}, tries : Nat]
    BY DEF WayInv, WayTypes
  <2>2. \/ bus' = Idle \/ bus' \in {At("delivering", j), At("acking", j)}
        \/ bus' = [bus EXCEPT !.tries = @ + 1] /\ bus.stage = "delivering"
    BY DEF Recover, SkipDelivery, Deliver, DeliveryFails, Ack, Delivering
  <2>. QED BY <2>1, <2>2 DEF At, Idle, Stages
<1>. QED BY <1>1, <1>2, <1>3, <1>4, <1>5 DEF WayInv, WayTypes, DownIsEmpty, BusFits, Busy

(* Every step keeps what the way rests on. *)
LEMMA WayInvKept == WayInv /\ [Next]_vars => WayInv'
<1>. SUFFICES ASSUME WayInv, [Next]_vars PROVE WayInv'
  OBVIOUS
<1>1. ASSUME NEW j \in Jobs, BusStep(j) PROVE WayInv'
  BY <1>1, TakeSteps, ResumeSteps, AnswerSteps, TakeOutboundStep, DeliverySteps DEF BusStep
<1>. QED BY <1>1, OutboxSteps, PublishSteps DEF Next

-----------------------------------------------------------------------------
(* The parent's history.                                                   *)
PairsFit ==
  \A j \in Jobs :
    /\ transcript[j].calls <= 1 /\ transcript[j].results <= transcript[j].calls
    /\ Busy({"calling"}, j) => transcript[j].calls = 1 /\ transcript[j].results = 0

(* Only the pair of j changes, and comes out right. *)
LEMMA OnePairChanges ==
  ASSUME PairsFit, NEW j \in Jobs,
         \A k \in Jobs \ {j} : transcript'[k] = transcript[k] /\ ~Busy({"calling"}, k)',
         transcript'[j].calls = 1,
         \/ transcript'[j].results = 0
         \/ transcript'[j].results = 1 /\ ~Busy({"calling"}, j)'
  PROVE  PairsFit'
<1>1. ASSUME NEW k \in Jobs
      PROVE  /\ transcript'[k].calls <= 1 /\ transcript'[k].results <= transcript'[k].calls
             /\ Busy({"calling"}, k)' => transcript'[k].calls = 1 /\ transcript'[k].results = 0
  <2>1. CASE k = j
    BY <2>1
  <2>2. CASE k # j
    BY <2>2 DEF PairsFit
  <2>. QED BY <2>1, <2>2
<1>. QED BY <1>1 DEF PairsFit

LEMMA PairsKept ==
  ASSUME WayInv, PairsFit, [Next]_vars
  PROVE  PairsFit'
<1>1. transcript \in [Jobs -> Transcript]
  BY DEF WayInv, WayTypes
<1>2. ASSUME NEW k \in Jobs PROVE transcript[k].calls \in Nat /\ transcript[k].results \in Nat
  BY <1>1 DEF Transcript
<1>3. CASE UNCHANGED transcript /\ \A k \in Jobs : ~Busy({"calling"}, k)'
  BY <1>3 DEF PairsFit
<1>4. CASE UNCHANGED <<transcript, bus>>
  BY <1>4 DEF PairsFit, Busy
<1>5. ASSUME NEW j \in Jobs, LookUp(j) PROVE PairsFit'
  <2>1. CASE UNCHANGED transcript
    <3>1. \A k \in Jobs : ~Busy({"calling"}, k)'
      BY <1>5, <2>1, Records, <1>1 DEF LookUp, Busy, Transcript
    <3>. QED BY <2>1, <3>1, <1>3
  <2>2. CASE transcript[j].calls = 0 /\ transcript' = [transcript EXCEPT ![j].calls = @ + 1] /\ bus' = At("calling", j)
    <3>1. transcript'[j] = [transcript[j] EXCEPT !.calls = @ + 1] /\ \A k \in Jobs \ {j} : transcript'[k] = transcript[k]
      BY <2>2, <1>1
    <3>2. transcript'[j].calls = 1 /\ transcript'[j].results = transcript[j].results
      BY <3>1, <2>2, <1>1 DEF Transcript
    <3>3. transcript[j].results = 0
      BY <2>2, <1>2 DEF PairsFit
    <3>4. \A k \in Jobs \ {j} : ~Busy({"calling"}, k)'
      BY <2>2, Records DEF Busy
    <3>5. transcript'[j].calls = 1 /\ transcript'[j].results = 0
      BY <3>2, <3>3
    <3>. QED BY <3>1, <3>4, <3>5, OnePairChanges
  <2>. QED BY <1>5, <2>1, <2>2 DEF LookUp
<1>6. ASSUME NEW j \in Jobs, AddResult(j) PROVE PairsFit'
  <2>1. bus = At("calling", j) /\ bus' = At("turn", j) /\ transcript' = [transcript EXCEPT ![j].results = @ + 1]
    BY <1>6 DEF AddResult
  <2>2. transcript[j].calls = 1 /\ transcript[j].results = 0
    BY <2>1, Records DEF PairsFit, Busy
  <2>3. transcript'[j] = [transcript[j] EXCEPT !.results = @ + 1] /\ \A k \in Jobs \ {j} : transcript'[k] = transcript[k]
    BY <2>1, <1>1
  <2>4. transcript'[j].calls = 1 /\ transcript'[j].results = 1
    BY <2>2, <2>3, <1>1 DEF Transcript
  <2>5. \A k \in Jobs : ~Busy({"calling"}, k)'
    BY <2>1, Records DEF Busy
  <2>. QED BY <2>3, <2>4, <2>5, OnePairChanges
<1>7. ASSUME NEW j \in Jobs, NEW e \in Endings, TurnEnds(j, e) PROVE PairsFit'
  <2>1. /\ bus' = At("answered", j)
        /\ transcript' = [transcript EXCEPT ![j].answered = TRUE] \/ transcript' = transcript
    BY <1>7 DEF TurnEnds
  <2>2. \A k \in Jobs : ~Busy({"calling"}, k)'
    BY <2>1, Records DEF Busy
  <2>3. CASE transcript' = [transcript EXCEPT ![j].answered = TRUE]
    <3>1. \A k \in Jobs : transcript'[k].calls = transcript[k].calls /\ transcript'[k].results = transcript[k].results
      BY <2>3, <1>1 DEF Transcript
    <3>. QED BY <2>2, <3>1 DEF PairsFit
  <2>. QED BY <2>1, <2>2, <2>3, <1>3
<1>8. ASSUME NEW j \in Jobs,
             \/ RouteDirectly(j) \/ Resume(j) \/ ResumeOrphan(j) \/ TurnFails(j)
             \/ RouteAnswer(j) \/ MarkPublished(j) \/ TakeOutbound(j) \/ Recover(j)
             \/ SkipDelivery(j) \/ Deliver(j) \/ Ack(j)
      PROVE  PairsFit'
  <2>1. UNCHANGED transcript
    BY <1>8 DEF RouteDirectly, Resume, ResumeOrphan, TurnFails, RouteAnswer,
       MarkPublished, TakeOutbound, Recover, SkipDelivery, Deliver, Ack, told
  <2>2. bus'.stage # "calling"
    BY <1>8, Records DEF RouteDirectly, Resume, ResumeOrphan, TurnFails, RouteAnswer,
       MarkPublished, TakeOutbound, Recover, SkipDelivery, Deliver, Ack
  <2>. QED BY <2>1, <2>2, <1>3 DEF Busy
<1>9. ASSUME NEW j \in Jobs, DeliveryFails(j) PROVE PairsFit'
  <2>1. UNCHANGED transcript
    BY <1>9 DEF DeliveryFails, told
  <2>2. bus'.stage # "calling"
    <3>1. bus.stage = "delivering" /\ bus \in [stage : Stages, job : Jobs \cup {0}, tries : Nat]
      BY <1>9 DEF DeliveryFails, Delivering, WayInv, WayTypes
    <3>2. bus' = [bus EXCEPT !.tries = @ + 1] \/ bus' = At("acking", j)
      BY <1>9 DEF DeliveryFails
    <3>3. [bus EXCEPT !.tries = @ + 1].stage = bus.stage
      BY <3>1
    <3>. QED BY <3>1, <3>2, <3>3, Records
  <2>. QED BY <2>1, <2>2, <1>3 DEF Busy
<1>10. CASE JobEnds \/ Start \/ (\E j \in Jobs : Publish(j) \/ BackoffOver(j) \/ SeenBefore(j))
       \/ UNCHANGED vars
  BY <1>10, <1>4 DEF JobEnds, Start, Publish, BackoffOver, SeenBefore, vars, told
<1>11. CASE Crash
  <2>1. bus'.stage # "calling" /\ UNCHANGED transcript
    BY <1>11, Records DEF Crash, told
  <2>. QED BY <2>1, <1>3 DEF Busy
<1>12. ASSUME NEW j \in Jobs, BusStep(j) PROVE PairsFit'
  BY <1>12, <1>5, <1>6, <1>7, <1>8, <1>9, <1>10 DEF BusStep
<1>. QED BY <1>10, <1>11, <1>12 DEF Next

(* However often the event of a job comes back, the parent's history shows *)
(* its call and its result once.                                           *)
THEOREM ParentsAreToldOnce == Spec => []ParentToldOnce
<1>1. Init => WayInv /\ PairsFit
  <2>1. Init => PairsFit
    BY Records DEF Init, PairsFit, Busy
  <2>. QED BY <2>1, StartOfTheWay
<1>2. WayInv /\ PairsFit /\ [Next]_vars => (WayInv /\ PairsFit)'
  BY WayInvKept, PairsKept
<1>3. WayInv /\ PairsFit => ParentToldOnce
  BY DEF WayInv, WayTypes, PairsFit, ParentToldOnce, Transcript
<1>. QED BY <1>1, <1>2, <1>3, PTL DEF Spec

-----------------------------------------------------------------------------
(* A turn for the event of j ends. *)
LastTurn(j, e) ==
  /\ Busy({"turn"}, j) /\ bus' = At("answered", j)
  /\ turns' = [turns EXCEPT ![j] = @ + 1]
  /\ \A k \in Jobs \ {j} : transcript'[k].answered = transcript[k].answered
  /\ e = "recorded" => transcript'[j].answered
  /\ UNCHANGED <<consumed, crashes>>

(* What the other steps leave of it. *)
NoTurnEnds ==
  /\ UNCHANGED turns
  /\ consumed \subseteq consumed' /\ crashes' \in {crashes, crashes + 1}
  /\ \A k \in Jobs :
       /\ transcript'[k].answered = transcript[k].answered
       /\ k \in consumed' => k \in consumed \/ Mode[k] # "resume_parent" \/ Busy({"answered"}, k)
       /\ Busy({"answered"}, k)' => Busy({"answered"}, k) \/ transcript[k].answered
       /\ Busy({"answered"}, k) => Busy({"answered"}, k)' \/ k \in consumed' \/ crashes' = crashes + 1
       /\ Busy({"calling", "turn"}, k)' => Busy({"calling", "turn"}, k) \/ ~transcript[k].answered

(* Each step ends a turn or none. *)
LEMMA TurnsEndOrNot ==
  ASSUME WayInv, [Next]_vars
  PROVE  (\E j \in Jobs : \E e \in Endings : LastTurn(j, e)) \/ NoTurnEnds
<1>1. /\ transcript \in [Jobs -> Transcript] /\ crashes \in Nat /\ consumed \subseteq Jobs
      /\ bus \in [stage : Stages, job : Jobs \cup {0}, tries : Nat]
  BY DEF WayInv, WayTypes
<1>2. CASE UNCHANGED <<turns, consumed, crashes, transcript, bus>>
  BY <1>2 DEF NoTurnEnds, Busy
<1>3. ASSUME UNCHANGED <<turns, consumed, crashes, transcript>>,
             bus.stage # "answered", bus'.stage \notin {"answered", "calling", "turn"}
      PROVE  NoTurnEnds
  BY <1>3 DEF NoTurnEnds, Busy
<1>4. CASE JobEnds \/ Start \/ (\E j \in Jobs : Publish(j) \/ BackoffOver(j) \/ SeenBefore(j))
       \/ UNCHANGED vars
  BY <1>4, <1>2 DEF JobEnds, Start, Publish, BackoffOver, SeenBefore, vars, told, routed, Quiet
<1>5. CASE Crash
  <2>1. /\ UNCHANGED <<turns, consumed, transcript>> /\ crashes' = crashes + 1 /\ bus'.stage = "idle"
    BY <1>5, Records DEF Crash, told, routed
  <2>. QED BY <2>1 DEF NoTurnEnds, Busy
<1>6. ASSUME NEW j \in Jobs,
             \/ Resume(j) \/ ResumeOrphan(j) \/ TurnFails(j) \/ MarkPublished(j)
             \/ TakeOutbound(j) \/ Recover(j) \/ SkipDelivery(j) \/ Deliver(j) \/ Ack(j)
      PROVE  NoTurnEnds
  <2>1. UNCHANGED <<turns, consumed, crashes, transcript>>
    BY <1>6 DEF Resume, ResumeOrphan, TurnFails, MarkPublished, TakeOutbound,
       Recover, SkipDelivery, Deliver, Ack, told, routed, Quiet
  <2>2. bus.stage # "answered" /\ bus'.stage \notin {"answered", "calling", "turn"}
    BY <1>6, Records DEF Resume, ResumeOrphan, TurnFails, MarkPublished, TakeOutbound,
       Recover, SkipDelivery, Deliver, Ack, Take, Delivering
  <2>. QED BY <2>1, <2>2, <1>3
<1>7. ASSUME NEW j \in Jobs, DeliveryFails(j) PROVE NoTurnEnds
  <2>1. UNCHANGED <<turns, consumed, crashes, transcript>>
    BY <1>7 DEF DeliveryFails, told, routed, Quiet
  <2>2. bus.stage = "delivering" /\ (bus' = [bus EXCEPT !.tries = @ + 1] \/ bus' = At("acking", j))
    BY <1>7 DEF DeliveryFails, Delivering
  <2>3. [bus EXCEPT !.tries = @ + 1].stage = bus.stage
    BY <1>1
  <2>4. bus'.stage \in {"delivering", "acking"}
    <3>1. CASE bus' = [bus EXCEPT !.tries = @ + 1]
      BY <2>2, <2>3, <3>1
    <3>2. CASE bus' = At("acking", j)
      BY <3>2, Records
    <3>. QED BY <2>2, <3>1, <3>2
  <2>. QED BY <2>1, <2>2, <2>4, <1>3
<1>8. ASSUME NEW j \in Jobs, RouteDirectly(j) PROVE NoTurnEnds
  <2>1. /\ UNCHANGED <<turns, crashes, transcript>> /\ consumed' = consumed \cup {j}
        /\ Mode[j] # "resume_parent" /\ bus = Idle /\ bus' = At("marking", j)
    BY <1>8 DEF RouteDirectly, Take, Quiet, told
  <2>2. bus.stage = "idle" /\ bus'.stage = "marking"
    BY <2>1, Records
  <2>. QED BY <2>1, <2>2 DEF NoTurnEnds, Busy
<1>9. ASSUME NEW j \in Jobs, RouteAnswer(j) PROVE NoTurnEnds
  <2>1. /\ UNCHANGED <<turns, crashes, transcript>> /\ consumed' = consumed \cup {j}
        /\ bus = At("answered", j) /\ bus' = At("marking", j)
    BY <1>9 DEF RouteAnswer, Quiet, told
  <2>2. bus.stage = "answered" /\ bus.job = j /\ bus'.stage = "marking"
    BY <2>1, Records
  <2>. QED BY <2>1, <2>2 DEF NoTurnEnds, Busy
<1>10. ASSUME NEW j \in Jobs, AddResult(j) PROVE NoTurnEnds
  <2>1. /\ UNCHANGED <<turns, crashes, consumed>>
        /\ bus = At("calling", j) /\ bus' = At("turn", j)
        /\ transcript' = [transcript EXCEPT ![j].results = @ + 1]
    BY <1>10 DEF AddResult, Quiet, routed
  <2>2. bus.stage = "calling" /\ bus.job = j /\ bus'.stage = "turn" /\ bus'.job = j
    BY <2>1, Records
  <2>3. \A k \in Jobs : transcript'[k].answered = transcript[k].answered
    BY <2>1, <1>1 DEF Transcript
  <2>. QED BY <2>1, <2>2, <2>3 DEF NoTurnEnds, Busy
<1>11. ASSUME NEW j \in Jobs, LookUp(j) PROVE NoTurnEnds
  <2>1. UNCHANGED <<turns, crashes, consumed>> /\ bus = At("resuming", j)
    BY <1>11 DEF LookUp, Quiet, routed
  <2>2. \/ transcript[j].answered /\ bus' = At("answered", j)
        \/ ~transcript[j].answered /\ bus' \in {At("calling", j), At("turn", j)}
    BY <1>11 DEF LookUp
  <2>3. transcript' = transcript \/ transcript' = [transcript EXCEPT ![j].calls = @ + 1]
    BY <1>11 DEF LookUp
  <2>4. \A k \in Jobs : transcript'[k].answered = transcript[k].answered
    BY <2>3, <1>1 DEF Transcript
  <2>5. bus.stage = "resuming" /\ bus'.job = j
    BY <2>1, <2>2, Records
  <2>6. bus'.stage = "answered" => transcript[j].answered
    BY <2>2, Records
  <2>7. bus'.stage \in {"calling", "turn"} => ~transcript[j].answered
    BY <2>2, Records
  <2>. QED BY <2>1, <2>4, <2>5, <2>6, <2>7 DEF NoTurnEnds, Busy
<1>12. ASSUME NEW j \in Jobs, NEW e \in Endings, TurnEnds(j, e) PROVE LastTurn(j, e)
  <2>1. /\ UNCHANGED <<crashes, consumed>> /\ bus = At("turn", j) /\ bus' = At("answered", j)
        /\ turns' = [turns EXCEPT ![j] = @ + 1]
        /\ transcript' = IF e = "recorded" THEN [transcript EXCEPT ![j].answered = TRUE] ELSE transcript
    BY <1>12 DEF TurnEnds, Quiet, routed
  <2>2. \A k \in Jobs \ {j} : transcript'[k] = transcript[k]
    BY <2>1, <1>1
  <2>3. ASSUME e = "recorded" PROVE transcript'[j].answered
    <3>1. transcript'[j] = [transcript[j] EXCEPT !.answered = TRUE]
      BY <2>1, <2>3, <1>1
    <3>. QED BY <3>1, <1>1 DEF Transcript
  <2>. QED BY <2>1, <2>2, <2>3, Records DEF LastTurn, Busy
<1>13. ASSUME NEW j \in Jobs, BusStep(j)
       PROVE  (\E k \in Jobs : \E e \in Endings : LastTurn(k, e)) \/ NoTurnEnds
  BY <1>13, <1>4, <1>6, <1>7, <1>8, <1>9, <1>10, <1>11, <1>12 DEF BusStep
<1>. QED BY <1>4, <1>5, <1>13 DEF Next

(* A turn is repeated only when the process went down between its end and  *)
(* the record of its consumption.                                          *)
TurnsFit ==
  \A j \in Jobs :
    /\ turns[j] <= crashes + 1
    /\ j \notin consumed /\ ~Busy({"answered"}, j) => turns[j] <= crashes
    /\ Busy({"answered"}, j) \/ transcript[j].answered => turns[j] >= 1
    /\ j \in consumed /\ Mode[j] = "resume_parent" => turns[j] >= 1

LEMMA TurnsKept ==
  ASSUME WayInv, TurnsFit, [Next]_vars
  PROVE  TurnsFit'
<1>1. /\ turns \in [Jobs -> Nat] /\ crashes \in Nat
      /\ bus \in [stage : Stages, job : Jobs \cup {0}, tries : Nat]
  BY DEF WayInv, WayTypes
<1>2. ASSUME NEW j \in Jobs, NEW e \in Endings, LastTurn(j, e) PROVE TurnsFit'
  <2>1. /\ crashes' = crashes /\ consumed' = consumed /\ j \notin consumed /\ turns[j] <= crashes
        /\ bus'.stage = "answered" /\ bus'.job = j
    BY <1>2, Records DEF LastTurn, WayInv, BusFits, TurnsFit, Busy
  <2>2. turns'[j] = turns[j] + 1
    BY <1>1, <1>2 DEF LastTurn
  <2>3. ASSUME NEW k \in Jobs \ {j}
        PROVE  /\ turns'[k] = turns[k] /\ ~Busy({"answered"}, k)' /\ ~Busy({"answered"}, k)
               /\ transcript'[k].answered = transcript[k].answered
    BY <1>1, <1>2, <2>1, <2>3 DEF LastTurn, Busy
  <2>4. ASSUME NEW k \in Jobs
        PROVE  /\ turns'[k] <= crashes' + 1
               /\ k \notin consumed' /\ ~Busy({"answered"}, k)' => turns'[k] <= crashes'
               /\ Busy({"answered"}, k)' \/ transcript'[k].answered => turns'[k] >= 1
               /\ k \in consumed' /\ Mode[k] = "resume_parent" => turns'[k] >= 1
    <3>1. CASE k = j
      <4>1. turns'[j] \in Nat /\ turns'[j] >= 1 /\ turns'[j] <= crashes + 1 /\ Busy({"answered"}, j)'
        BY <1>1, <2>1, <2>2 DEF Busy
      <4>. QED BY <3>1, <4>1, <2>1
    <3>2. CASE k # j
      BY <2>1, <2>3, <3>2 DEF TurnsFit
    <3>. QED BY <3>1, <3>2
  <2>. QED BY <2>4 DEF TurnsFit
<1>3. CASE NoTurnEnds
  <2>1. ASSUME NEW k \in Jobs
        PROVE  /\ turns'[k] <= crashes' + 1
               /\ k \notin consumed' /\ ~Busy({"answered"}, k)' => turns'[k] <= crashes'
               /\ Busy({"answered"}, k)' \/ transcript'[k].answered => turns'[k] >= 1
               /\ k \in consumed' /\ Mode[k] = "resume_parent" => turns'[k] >= 1
    <3>1. turns'[k] = turns[k] /\ turns[k] \in Nat
      BY <1>1, <1>3 DEF NoTurnEnds
    <3>2. crashes' \in Nat /\ crashes <= crashes'
      BY <1>1, <1>3 DEF NoTurnEnds
    <3>3. turns'[k] <= crashes' + 1
      BY <1>1, <3>1, <3>2 DEF TurnsFit
    <3>4. ASSUME k \notin consumed', ~Busy({"answered"}, k)' PROVE turns'[k] <= crashes'
      <4>1. k \notin consumed
        BY <1>3, <3>4 DEF NoTurnEnds
      <4>2. CASE Busy({"answered"}, k)
        <5>1. crashes' = crashes + 1
          BY <1>3, <3>4, <4>2 DEF NoTurnEnds
        <5>. QED BY <5>1, <3>1 DEF TurnsFit
      <4>3. CASE ~Busy({"answered"}, k)
        <5>1. turns[k] <= crashes
          BY <4>1, <4>3 DEF TurnsFit
        <5>. QED BY <1>1, <5>1, <3>1, <3>2
      <4>. QED BY <4>2, <4>3
    <3>5. ASSUME Busy({"answered"}, k)' \/ transcript'[k].answered PROVE turns[k] >= 1
      BY <1>3, <3>5 DEF NoTurnEnds, TurnsFit
    <3>6. ASSUME k \in consumed', Mode[k] = "resume_parent" PROVE turns[k] >= 1
      BY <1>3, <3>6 DEF NoTurnEnds, TurnsFit
    <3>. QED BY <3>1, <3>3, <3>4, <3>5, <3>6
  <2>. QED BY <2>1 DEF TurnsFit
<1>. QED BY <1>2, <1>3, TurnsEndOrNot

LEMMA WayInvariant == Spec => [](WayInv /\ TurnsFit)
<1>1. Init => WayInv /\ TurnsFit
  <2>1. Init => TurnsFit
    BY Records DEF Init, TurnsFit, Busy
  <2>. QED BY <2>1, StartOfTheWay
<1>2. WayInv /\ TurnsFit /\ [Next]_vars => (WayInv /\ TurnsFit)'
  BY WayInvKept, TurnsKept
<1>. QED BY <1>1, <1>2, PTL DEF Spec

(* The consumption of a resumption is on file only after a whole turn of   *)
(* the parent (design 14.3), however its turns end.                        *)
THEOREM ConsumptionFollowsTheTurn == Spec => []ConsumedAfterTurn
<1>1. WayInv /\ TurnsFit => ConsumedAfterTurn
  BY DEF WayInv, WayTypes, TurnsFit, ConsumedAfterTurn
<1>. QED BY <1>1, WayInvariant, PTL

(* A parent runs once more for an event only when the process went down,   *)
(* also where its last message is in another session or nowhere.           *)
THEOREM ParentsRunAgainAfterStopsOnly == Spec => [](\A j \in Jobs : turns[j] <= 1 + crashes)
<1>1. WayInv /\ TurnsFit => \A j \in Jobs : turns[j] <= 1 + crashes
  BY DEF WayInv, WayTypes, TurnsFit
<1>. QED BY <1>1, WayInvariant, PTL

(* No turn is under way for an event whose answer is on file. *)
Unanswered == \A j \in Jobs : Busy({"calling", "turn"}, j) => ~transcript[j].answered

LEMMA UnansweredKept ==
  ASSUME WayInv, Unanswered, [Next]_vars
  PROVE  Unanswered'
<1>1. ASSUME NEW j \in Jobs, NEW e \in Endings, LastTurn(j, e) PROVE Unanswered'
  <2>1. bus'.stage = "answered"
    BY <1>1, Records DEF LastTurn
  <2>. QED BY <2>1 DEF Unanswered, Busy
<1>2. CASE NoTurnEnds
  BY <1>2 DEF NoTurnEnds, Unanswered
<1>. QED BY <1>1, <1>2, TurnsEndOrNot

(* A turn that is not the first one for its event. *)
LEMMA NextTurnHasACause ==
  ASSUME WayInv, TurnsFit, Unanswered, [Next]_vars,
         NEW j \in Jobs, turns'[j] > turns[j]
  PROVE  ~transcript[j].answered /\ turns[j] <= crashes
<1>1. turns \in [Jobs -> Nat]
  BY DEF WayInv, WayTypes
<1>2. PICK k \in Jobs : \E e \in Endings : LastTurn(k, e)
  BY <1>1, TurnsEndOrNot DEF NoTurnEnds
<1>3. k = j
  BY <1>1, <1>2 DEF LastTurn
<1>4. Busy({"turn"}, j)
  BY <1>2, <1>3 DEF LastTurn
<1>5. j \notin consumed /\ ~Busy({"answered"}, j) /\ Busy({"calling", "turn"}, j)
  BY <1>4 DEF WayInv, BusFits, Busy
<1>. QED BY <1>5 DEF TurnsFit, Unanswered

(* A parent runs again for an event only when its answer is not in its     *)
(* history, and then once for each time the process went down.             *)
THEOREM ParentsRunAgainForACause == Spec => ParentRunsAgainForACause
<1>1. Init => Unanswered
  BY Records DEF Init, Unanswered, Busy
<1>2. WayInv /\ TurnsFit /\ Unanswered /\ [Next]_vars => Unanswered'
  BY UnansweredKept
<1>3. WayInv /\ TurnsFit /\ Unanswered /\ [Next]_vars
      => [\A j \in Jobs : turns[j] > 0 /\ turns'[j] > turns[j]
                             => ~transcript[j].answered /\ turns[j] <= crashes]_vars
  BY NextTurnHasACause
<1>. QED BY <1>1, <1>2, <1>3, WayInvariant, PTL DEF Spec, ParentRunsAgainForACause

-----------------------------------------------------------------------------
(* The replies.  A reply that is ahead of the platform has been delivered  *)
(* no more often than the process went down; the moment it is delivered it *)
(* is no longer ahead.                                                     *)
Ahead(j) == InQueue(j) \/ j \in todo \/ Busy({"delivering"}, j)

ReplyFits(j) ==
  /\ replies[j] <= crashes + 1
  /\ j \notin consumed => replies[j] = 0
  /\ InQueue(j) => j \notin todo /\ ~Busy({"delivering"}, j)
  /\ Ahead(j) \/ ~up => replies[j] <= crashes
  /\ Busy({"acking"}, j) => replies[j] > 0 \/ j \in dropped
  /\ j \in consumed /\ Mode[j] # "poll" =>
       InQueue(j) \/ j \in files \/ replies[j] > 0 \/ j \in dropped \/ crashes > 0

RepliesFit == Once(queue) /\ \A j \in Jobs : ReplyFits(j)

(* What touches no reply. *)
LEMMA NoReplyMoves ==
  ASSUME RepliesFit, UNCHANGED <<replies, crashes, consumed, files, todo, dropped, up>>,
         Once(queue'), \A j : InQueue(j)' <=> InQueue(j),
         \A j \in Jobs : Busy({"delivering", "acking"}, j)' => Busy({"delivering", "acking"}, j) /\ bus' = bus
  PROVE  RepliesFit'
<1>1. ASSUME NEW j \in Jobs PROVE ReplyFits(j)'
  <2>1. Busy({"delivering"}, j)' => Busy({"delivering"}, j)
    BY DEF Busy
  <2>2. Busy({"acking"}, j)' => Busy({"acking"}, j)
    BY DEF Busy
  <2>. QED BY <2>1, <2>2 DEF RepliesFit, ReplyFits, Ahead
<1>. QED BY <1>1 DEF RepliesFit

LEMMA NoReplyInTheOutbox ==
  ASSUME WayInv, RepliesFit,
         JobEnds \/ UNCHANGED vars \/ \E j \in Jobs : BackoffOver(j) \/ Publish(j)
  PROVE  RepliesFit'
<1>1. UNCHANGED <<replies, crashes, consumed, files, todo, dropped, up, bus>>
  BY DEF JobEnds, BackoffOver, Publish, vars, delivery, routed
<1>2. Once(queue') /\ \A j : InQueue(j)' <=> InQueue(j)
  <2>1. CASE queue' = queue
    BY <2>1 DEF InQueue, Has, RepliesFit
  <2>2. ASSUME NEW j \in Jobs, queue' = Append(queue, Completed(j))
        PROVE  Once(queue') /\ \A k : InQueue(k)' <=> InQueue(k)
    <3>1. Completed(j) \in Event /\ queue \in Seq(Event)
      BY DEF Completed, Event, WayInv, WayTypes
    <3>2. Once(queue') /\ \A k : Has(queue', k) <=> Has(queue, k)
      BY <2>2, <3>1, QueueGrows, Records DEF RepliesFit
    <3>. QED BY <3>2 DEF InQueue
  <2>. QED BY <2>1, <2>2 DEF JobEnds, BackoffOver, Publish, vars
<1>. QED BY <1>1, <1>2, NoReplyMoves DEF Busy

LEMMA NoReplyInTheRouter ==
  ASSUME WayInv, RepliesFit, NEW j \in Jobs,
         \/ SeenBefore(j) \/ Resume(j) \/ ResumeOrphan(j) \/ LookUp(j) \/ AddResult(j)
         \/ TurnFails(j) \/ MarkPublished(j) \/ \E e \in Endings : TurnEnds(j, e)
  PROVE  RepliesFit'
<1>1. UNCHANGED <<replies, crashes, consumed, files, todo, dropped, up>>
  BY DEF SeenBefore, Resume, ResumeOrphan, LookUp, AddResult, TurnFails,
     MarkPublished, TurnEnds, delivery, routed, Quiet
<1>2. bus'.stage \notin {"delivering", "acking"}
  BY Records DEF SeenBefore, Resume, ResumeOrphan, LookUp, AddResult, TurnFails,
     MarkPublished, TurnEnds, Take
<1>3. Once(queue') /\ \A k : InQueue(k)' <=> InQueue(k)
  <2>1. CASE queue' = queue
    BY <2>1 DEF InQueue, Has, RepliesFit
  <2>2. CASE queue' = Tail(queue) /\ queue # <<>> /\ Head(queue) = Completed(j)
    <3>1. queue \in Seq(Event)
      BY DEF WayInv, WayTypes
    <3>2. \A k : Head(queue) # Outbound(k)
      BY <2>2, Records
    <3>3. Once(queue') /\ \A k : Has(queue', k) <=> Has(queue, k)
      BY <2>2, <3>1, <3>2, QueueShrinks DEF RepliesFit
    <3>. QED BY <3>3 DEF InQueue
  <2>. QED BY <2>1, <2>2 DEF SeenBefore, Resume, ResumeOrphan, LookUp, AddResult,
       TurnFails, MarkPublished, TurnEnds, Take
<1>. QED BY <1>1, <1>2, <1>3, NoReplyMoves DEF Busy

(* A reply is made, with the record of its event. *)
LEMMA ReplyIsMade ==
  ASSUME WayInv, RepliesFit, NEW j \in Jobs,
         RouteDirectly(j) \/ RouteAnswer(j)
  PROVE  RepliesFit'
<1>1. /\ UNCHANGED <<replies, crashes, files, todo, dropped, up>> /\ up
      /\ j \notin consumed /\ consumed' = consumed \cup {j}
      /\ bus' = At("marking", j)
  <2>1. CASE RouteDirectly(j)
    BY <2>1 DEF RouteDirectly, Take, Quiet, told, delivery
  <2>2. CASE RouteAnswer(j)
    <3>1. j \notin consumed
      BY <2>2, Records DEF RouteAnswer, WayInv, BusFits, Busy
    <3>. QED BY <2>2, <3>1 DEF RouteAnswer, Quiet, told, delivery
  <2>. QED BY <2>1, <2>2
<1>2. queue \in Seq(Event) /\ Outbound(j) \in Event /\ Once(queue)
  BY DEF Outbound, Event, WayInv, WayTypes, RepliesFit
<1>3. ~Has(queue, j)
  BY <1>1 DEF WayInv, BusFits, InQueue
<1>4. PICK q \in Seq(Event) :
        /\ Once(q) /\ \A k : Has(q, k) <=> Has(queue, k)
        /\ queue' = Append(q, Outbound(j)) \/ (queue' = q /\ Mode[j] = "poll")
  <2>1. CASE RouteAnswer(j)
    BY <1>2, <2>1 DEF RouteAnswer
  <2>2. CASE RouteDirectly(j)
    <3>1. /\ queue # <<>> /\ Head(queue) = Completed(j)
          /\ queue' = IF Mode[j] = "notify" THEN Append(Tail(queue), Outbound(j)) ELSE Tail(queue)
          /\ Mode[j] # "resume_parent"
      BY <2>2 DEF RouteDirectly, Take
    <3>2. \A k : Head(queue) # Outbound(k)
      BY <3>1, Records
    <3>3. Tail(queue) \in Seq(Event) /\ Once(Tail(queue)) /\ \A k : Has(Tail(queue), k) <=> Has(queue, k)
      BY <1>2, <3>1, <3>2, QueueShrinks
    <3>4. Mode[j] \in {"poll", "notify"}
      BY <3>1, CompletionAssumption
    <3>. QED BY <3>1, <3>3, <3>4
  <2>. QED BY <2>1, <2>2
<1>5. /\ Once(queue')
      /\ \A k : InQueue(k) => InQueue(k)'
      /\ \A k : InQueue(k)' => InQueue(k) \/ k = j
      /\ InQueue(j)' \/ Mode[j] = "poll"
  <2>1. CASE queue' = q /\ Mode[j] = "poll"
    BY <1>4, <2>1 DEF InQueue, Has
  <2>2. CASE queue' = Append(q, Outbound(j))
    <3>1. \A k : Outbound(j) = Outbound(k) => ~Has(q, k)
      BY <1>3, <1>4, Records
    <3>2. /\ Once(queue')
          /\ \A k : Has(queue', k) <=> Has(q, k) \/ Outbound(j) = Outbound(k)
      BY <1>2, <1>4, <2>2, <3>1, QueueGrows
    <3>. QED BY <1>4, <3>2, Records DEF InQueue
  <2>. QED BY <1>4, <2>1, <2>2
<1>6. bus'.stage = "marking"
  BY <1>1, Records
<1>7. j \notin files /\ j \notin todo /\ replies[j] = 0 /\ crashes \in Nat
  BY <1>1 DEF WayInv, WayTypes, RepliesFit, ReplyFits
<1>8. ASSUME NEW k \in Jobs PROVE ReplyFits(k)'
  <2>1. ~Busy({"delivering"}, k)' /\ ~Busy({"acking"}, k)'
    BY <1>6 DEF Busy
  <2>2. CASE k = j
    <3>1. InQueue(j)' => j \notin todo' /\ replies'[j] <= crashes'
      BY <1>1, <1>7
    <3>. QED BY <1>1, <1>5, <1>7, <2>1, <2>2 DEF ReplyFits, Ahead
  <2>3. CASE k # j
    <3>1. (InQueue(k)' <=> InQueue(k)) /\ (k \in consumed' <=> k \in consumed)
      BY <1>1, <1>5, <2>3
    <3>. QED BY <1>1, <2>1, <3>1 DEF ReplyFits, Ahead, RepliesFit
  <2>. QED BY <2>2, <2>3
<1>. QED BY <1>5, <1>8 DEF RepliesFit

(* A reply is taken from the queue and written to disk. *)
LEMMA ReplyIsTaken ==
  ASSUME WayInv, RepliesFit, NEW j \in Jobs, TakeOutbound(j)
  PROVE  RepliesFit'
<1>1. /\ UNCHANGED <<replies, crashes, consumed, todo, dropped, up>> /\ todo = {} /\ up
      /\ queue # <<>> /\ Head(queue) = Outbound(j) /\ queue' = Tail(queue)
      /\ files' = files \cup {j} /\ bus = Idle /\ bus' = At("delivering", j)
  BY DEF TakeOutbound, Take, Quiet, routed, told
<1>2. queue \in Seq(Event) /\ Once(queue)
  BY DEF WayInv, WayTypes, RepliesFit
<1>3. \A k : k # j => Outbound(j) # Outbound(k)
  BY Records
<1>4. /\ Once(queue') /\ InQueue(j) /\ ~InQueue(j)'
      /\ \A k : k # j => (InQueue(k)' <=> InQueue(k))
  BY <1>1, <1>2, <1>3, QueueShrinks DEF InQueue
<1>5. bus'.stage = "delivering" /\ bus'.job = j
  BY <1>1, Records
<1>6. ASSUME NEW k \in Jobs PROVE ReplyFits(k)'
  <2>1. CASE k = j
    BY <1>1, <1>4, <1>5, <2>1 DEF ReplyFits, Ahead, RepliesFit, Busy
  <2>2. CASE k # j
    <3>1. ~Busy({"delivering"}, k)' /\ ~Busy({"acking"}, k)' /\ (k \in files' <=> k \in files)
      BY <1>1, <1>5, <2>2 DEF Busy
    <3>. QED BY <1>1, <1>4, <2>2, <3>1 DEF ReplyFits, Ahead, RepliesFit
  <2>. QED BY <2>1, <2>2
<1>. QED BY <1>4, <1>6 DEF RepliesFit

(* A reply is sent, or waits for the next start. *)
LEMMA ReplyIsTried ==
  ASSUME WayInv, RepliesFit, NEW j \in Jobs,
         Recover(j) \/ SkipDelivery(j) \/ DeliveryFails(j)
  PROVE  RepliesFit'
<1>1. UNCHANGED <<replies, crashes, consumed, files, queue, up>>
  BY DEF Recover, SkipDelivery, DeliveryFails, Quiet, routed, told, delivery
<1>2. Once(queue') /\ \A k : InQueue(k)' <=> InQueue(k)
  BY <1>1 DEF RepliesFit, InQueue, Has, Once
<1>3. /\ dropped \subseteq dropped' /\ todo' \subseteq todo
      /\ \A k \in Jobs : Busy({"delivering"}, k)' => Busy({"delivering"}, k) \/ (k = j /\ j \in todo /\ j \notin todo')
      /\ \A k \in Jobs : Busy({"acking"}, k)' => k \in dropped'
  <2>1. CASE Recover(j)
    <3>1. bus'.stage = "delivering" /\ bus'.job = j
      BY <2>1, Records DEF Recover
    <3>. QED BY <2>1, <3>1 DEF Recover, delivery, Busy
  <2>2. CASE SkipDelivery(j)
    <3>1. bus'.stage = "idle"
      BY <2>2, Records DEF SkipDelivery
    <3>. QED BY <2>2, <3>1 DEF SkipDelivery, delivery, Busy
  <2>3. CASE DeliveryFails(j) /\ bus' = [bus EXCEPT !.tries = @ + 1]
    <3>1. bus'.stage = bus.stage /\ bus'.job = bus.job /\ bus.stage = "delivering"
      <4>1. bus \in [stage : Stages, job : Jobs \cup {0}, tries : Nat]
        BY DEF WayInv, WayTypes
      <4>. QED BY <2>3, <4>1 DEF DeliveryFails, Delivering
    <3>2. todo' = todo /\ dropped \subseteq dropped'
      BY <2>3 DEF DeliveryFails
    <3>. QED BY <3>1, <3>2 DEF Busy
  <2>4. CASE DeliveryFails(j) /\ bus' = At("acking", j) /\ dropped' = dropped \cup {j}
    <3>1. bus'.stage = "acking" /\ bus'.job = j /\ todo' = todo
      BY <2>4, Records DEF DeliveryFails
    <3>. QED BY <2>4, <3>1 DEF Busy
  <2>. QED BY <2>1, <2>2, <2>3, <2>4 DEF DeliveryFails
<1>4. ASSUME NEW k \in Jobs PROVE ReplyFits(k)'
  BY <1>1, <1>2, <1>3 DEF ReplyFits, Ahead, RepliesFit
<1>. QED BY <1>2, <1>4 DEF RepliesFit

LEMMA ReplyArrives ==
  ASSUME WayInv, RepliesFit, NEW j \in Jobs, Deliver(j)
  PROVE  RepliesFit'
<1>1. /\ UNCHANGED <<crashes, consumed, files, todo, dropped, queue, up>> /\ up
      /\ bus.stage = "delivering" /\ bus.job = j /\ bus' = At("acking", j)
      /\ replies' = [replies EXCEPT ![j] = @ + 1]
  BY DEF Deliver, Delivering, Quiet, routed, told
<1>2. replies \in [Jobs -> Nat] /\ crashes \in Nat
  BY DEF WayInv, WayTypes
<1>3. Once(queue') /\ \A k : InQueue(k)' <=> InQueue(k)
  BY <1>1 DEF RepliesFit, InQueue, Has, Once
<1>4. bus'.stage = "acking" /\ bus'.job = j
  BY <1>1, Records
<1>5. j \in consumed /\ j \notin todo /\ ~InQueue(j) /\ replies[j] <= crashes
  BY <1>1 DEF WayInv, WayTypes, BusFits, RepliesFit, ReplyFits, Ahead, Busy
<1>6. replies'[j] = replies[j] + 1 /\ replies[j] \in Nat
  BY <1>1, <1>2
<1>7. ASSUME NEW k \in Jobs PROVE ReplyFits(k)'
  <2>1. ~Busy({"delivering"}, k)'
    BY <1>4 DEF Busy
  <2>2. CASE k = j
    <3>1. replies'[j] > 0 /\ replies'[j] <= crashes' + 1
      BY <1>1, <1>2, <1>5, <1>6
    <3>2. ~Ahead(j)' /\ j \in consumed' /\ up'
      BY <1>1, <1>3, <1>5, <2>1, <2>2 DEF Ahead
    <3>. QED BY <1>3, <1>5, <2>2, <3>1, <3>2 DEF ReplyFits
  <2>3. CASE k # j
    <3>1. ~Busy({"acking"}, k)' /\ replies'[k] = replies[k]
      BY <1>1, <1>2, <1>4, <2>3 DEF Busy
    <3>. QED BY <1>1, <1>3, <2>1, <3>1 DEF ReplyFits, Ahead, RepliesFit
  <2>. QED BY <2>2, <2>3
<1>. QED BY <1>3, <1>7 DEF RepliesFit

LEMMA ReplyIsAcknowledged ==
  ASSUME WayInv, RepliesFit, NEW j \in Jobs, Ack(j)
  PROVE  RepliesFit'
<1>1. /\ UNCHANGED <<replies, crashes, consumed, todo, dropped, queue, up>>
      /\ bus = At("acking", j) /\ bus' = Idle /\ files' = files \ {j}
  BY DEF Ack, Quiet, routed, told
<1>2. Once(queue') /\ \A k : InQueue(k)' <=> InQueue(k)
  BY <1>1 DEF RepliesFit, InQueue, Has, Once
<1>3. bus.stage = "acking" /\ bus.job = j /\ bus'.stage = "idle"
  BY <1>1, Records
<1>4. replies[j] > 0 \/ j \in dropped
  BY <1>3 DEF RepliesFit, ReplyFits, Busy
<1>5. ASSUME NEW k \in Jobs PROVE ReplyFits(k)'
  <2>1. ~Busy({"delivering"}, k)' /\ ~Busy({"acking"}, k)'
    BY <1>3 DEF Busy
  <2>2. k \in files => k \in files' \/ k = j
    BY <1>1
  <2>. QED BY <1>1, <1>2, <1>4, <2>1, <2>2 DEF ReplyFits, Ahead, RepliesFit
<1>. QED BY <1>2, <1>5 DEF RepliesFit

LEMMA ReplyOutlivesStops ==
  ASSUME WayInv, RepliesFit, Crash \/ Start
  PROVE  RepliesFit'
<1>1. CASE Crash
  <2>1. /\ UNCHANGED <<replies, consumed, files, dropped>> /\ ~up' /\ crashes' = crashes + 1
        /\ queue' = <<>> /\ todo' = {} /\ bus'.stage = "idle"
    BY <1>1, Records DEF Crash, delivery, routed
  <2>2. replies \in [Jobs -> Nat] /\ crashes \in Nat
    BY DEF WayInv, WayTypes
  <2>3. Once(queue') /\ \A k : ~InQueue(k)'
    BY <2>1 DEF InQueue, Has, Once
  <2>4. ASSUME NEW k \in Jobs PROVE ReplyFits(k)'
    <3>1. ~Busy({"delivering"}, k)' /\ ~Busy({"acking"}, k)'
      BY <2>1 DEF Busy
    <3>2. replies'[k] <= crashes' /\ replies'[k] <= crashes' + 1 /\ crashes' > 0
      BY <2>1, <2>2 DEF RepliesFit, ReplyFits
    <3>. QED BY <2>1, <2>3, <3>1, <3>2 DEF ReplyFits, RepliesFit
  <2>. QED BY <2>3, <2>4 DEF RepliesFit
<1>2. CASE Start
  <2>1. /\ UNCHANGED <<replies, consumed, files, dropped, queue, bus, crashes>> /\ ~up
        /\ todo' = files /\ queue = <<>> /\ bus = Idle
    BY <1>2 DEF Start, delivery, routed, WayInv, DownIsEmpty
  <2>2. bus.stage = "idle"
    BY <2>1, Records
  <2>3. Once(queue') /\ (\A k : ~InQueue(k)') /\ \A k : ~InQueue(k)
    BY <2>1 DEF InQueue, Has, Once
  <2>4. ASSUME NEW k \in Jobs PROVE ReplyFits(k)'
    BY <2>1, <2>2, <2>3 DEF ReplyFits, RepliesFit, Busy
  <2>. QED BY <2>3, <2>4 DEF RepliesFit
<1>. QED BY <1>1, <1>2

LEMMA RepliesKept ==
  ASSUME WayInv, RepliesFit, [Next]_vars
  PROVE  RepliesFit'
<1>1. ASSUME NEW j \in Jobs, BusStep(j) PROVE RepliesFit'
  BY <1>1, NoReplyInTheRouter, ReplyIsMade, ReplyIsTaken, ReplyIsTried, ReplyArrives, ReplyIsAcknowledged
     DEF BusStep
<1>. QED BY <1>1, NoReplyInTheOutbox, ReplyOutlivesStops DEF Next

LEMMA RepliesInvariant == Spec => [](WayInv /\ RepliesFit)
<1>1. Init => WayInv /\ RepliesFit
  <2>1. ASSUME Init PROVE RepliesFit
    <3>1. Once(queue) /\ \A k : ~InQueue(k)
      BY <2>1 DEF Init, Once, InQueue, Has
    <3>2. bus.stage = "idle"
      BY <2>1, Records DEF Init
    <3>. QED BY <2>1, <3>1, <3>2 DEF Init, RepliesFit, ReplyFits, Ahead, Busy
  <2>. QED BY <2>1, StartOfTheWay
<1>2. WayInv /\ RepliesFit /\ [Next]_vars => (WayInv /\ RepliesFit)'
  BY WayInvKept, RepliesKept
<1>. QED BY <1>1, <1>2, PTL DEF Spec

(* While the process lives, a routed outcome is on its way or has arrived: *)
(* what CompletionLost shows takes a crash.                                *)
THEOREM NotificationsAreLostInStopsOnly == Spec => [](crashes = 0 => NotificationIsNotLost)
<1>1. WayInv /\ RepliesFit => (crashes = 0 => NotificationIsNotLost)
  BY DEF WayInv, WayTypes, RepliesFit, ReplyFits, InQueue, Has, NotificationIsNotLost, OnItsWay
<1>. QED BY <1>1, RepliesInvariant, PTL

(* The file of a reply stays until the reply was delivered or given up.    *)
THEOREM FilesOutliveStops == Spec => FileOutlivesCrash
<1>1. WayInv /\ RepliesFit /\ [Next]_vars
      => [\A j \in files \ files' : replies[j] > 0 \/ j \in dropped]_vars
  <2>. SUFFICES ASSUME WayInv, RepliesFit, [Next]_vars, NEW j \in files, j \notin files'
                PROVE  replies[j] > 0 \/ j \in dropped
    OBVIOUS
  <2>1. Ack(j)
    BY DEF Next, BusStep, JobEnds, Crash, Start, Publish, BackoffOver,
       SeenBefore, RouteDirectly, Resume, ResumeOrphan, LookUp, AddResult,
       TurnEnds, TurnFails, RouteAnswer, MarkPublished, TakeOutbound, Recover,
       SkipDelivery, Deliver, DeliveryFails, Ack, vars, delivery
  <2>2. Busy({"acking"}, j)
    BY <2>1, Records DEF Ack, Busy
  <2>3. j \in Jobs
    BY DEF WayInv, WayTypes
  <2>. QED BY <2>2, <2>3 DEF RepliesFit, ReplyFits
<1>. QED BY <1>1, RepliesInvariant, PTL DEF Spec, FileOutlivesCrash

-----------------------------------------------------------------------------
(* The rest of the types: what is under way is of jobs that have ended,    *)
(* and the counters keep to their bounds.                                  *)
OfEnded(q) == \A i \in 1 .. Len(q) : q[i].job <= ended

Counters ==
  /\ ended \in 0 .. N /\ up \in BOOLEAN
  /\ attempts \in [Jobs -> 0 .. MaxAttempts] /\ partial \in [Jobs -> Nat]
  /\ waiting \subseteq 1 .. ended /\ consumed \subseteq 1 .. ended /\ dropped \subseteq Jobs
  /\ OfEnded(queue) /\ bus.job <= ended
  /\ bus.tries \in 0 .. MaxRetries - 1
  /\ crashes \in 0 .. MaxCrashes /\ failures \in 0 .. MaxFailures

LEMMA OfEndedKept ==
  ASSUME NEW q \in Seq(Event), OfEnded(q)
  PROVE  /\ \A e \in Event : e.job <= ended => OfEnded(Append(q, e))
         /\ q # <<>> => OfEnded(Tail(q)) /\ Head(q).job <= ended /\ Tail(q) \in Seq(Event)
<1>1. ASSUME NEW e \in Event, e.job <= ended PROVE OfEnded(Append(q, e))
  <2>1. /\ Len(Append(q, e)) = Len(q) + 1 /\ Len(q) \in Nat /\ Append(q, e)[Len(q) + 1] = e
        /\ \A i \in 1 .. Len(q) : Append(q, e)[i] = q[i]
    OBVIOUS
  <2>. QED BY <1>1, <2>1 DEF OfEnded
<1>2. ASSUME q # <<>> PROVE OfEnded(Tail(q)) /\ Head(q).job <= ended /\ Tail(q) \in Seq(Event)
  <2>1. /\ Tail(q) \in Seq(Event) /\ Len(Tail(q)) = Len(q) - 1 /\ Len(q) \in Nat \ {0} /\ Head(q) = q[1]
        /\ \A i \in 1 .. Len(Tail(q)) : Tail(q)[i] = q[i + 1]
    BY <1>2
  <2>. QED BY <2>1 DEF OfEnded
<1>. QED BY <1>1, <1>2

(* Each step of the bus is of a job that has ended. *)
LEMMA CountersOfTheBus ==
  ASSUME WayInv, Counters, NEW j \in Jobs, BusStep(j)
  PROVE  Counters'
<1>1. UNCHANGED <<ended, attempts, waiting, up, crashes>>
  BY DEF BusStep, SeenBefore, RouteDirectly, Resume, ResumeOrphan, LookUp, AddResult,
     TurnEnds, TurnFails, RouteAnswer, MarkPublished, TakeOutbound, Recover,
     SkipDelivery, Deliver, DeliveryFails, Ack, Quiet, outboxVars
<1>2. /\ queue \in Seq(Event) /\ OfEnded(queue) /\ MaxRetries \in Nat \ {0} /\ MaxFailures \in Nat
      /\ bus \in [stage : Stages, job : Jobs \cup {0}, tries : Nat] /\ bus.job <= ended
      /\ ended \in 0 .. N /\ N \in Nat /\ j \in 1 .. N
  BY CompletionAssumption DEF WayInv, WayTypes, Counters, Jobs
<1>3. j <= ended
  <2>1. CASE queue # <<>> /\ Head(queue) \in {Completed(j), Outbound(j)}
    <3>1. Head(queue).job <= ended
      BY <1>2, <2>1, OfEndedKept
    <3>2. Head(queue).job = j
      BY <2>1 DEF Completed, Outbound
    <3>. QED BY <3>1, <3>2
  <2>2. CASE bus.job = j
    BY <1>2, <2>2
  <2>3. CASE j \in todo
    BY <2>3, <1>2 DEF WayInv, WayTypes, Counters
  <2>. QED BY <2>1, <2>2, <2>3, Records DEF BusStep, SeenBefore, RouteDirectly, Resume, ResumeOrphan,
       LookUp, AddResult, TurnEnds, TurnFails, RouteAnswer, MarkPublished, TakeOutbound,
       Recover, SkipDelivery, Deliver, DeliveryFails, Ack, Take, Delivering
<1>4. consumed' \subseteq consumed \cup {j} /\ dropped' \subseteq dropped \cup {j}
  BY DEF BusStep, SeenBefore, RouteDirectly, Resume, ResumeOrphan, LookUp, AddResult,
     TurnEnds, TurnFails, RouteAnswer, MarkPublished, TakeOutbound, Recover,
     SkipDelivery, Deliver, DeliveryFails, Ack, routed, delivery
<1>5. failures' \in 0 .. MaxFailures
  <2>1. failures \in 0 .. MaxFailures
    BY DEF Counters
  <2>2. failures' = failures \/ (failures' = failures + 1 /\ failures < MaxFailures)
    BY DEF BusStep, SeenBefore, RouteDirectly, Resume, ResumeOrphan, LookUp, AddResult,
       TurnEnds, TurnFails, RouteAnswer, MarkPublished, TakeOutbound, Recover,
       SkipDelivery, Deliver, DeliveryFails, Ack
  <2>. QED BY <1>2, <2>1, <2>2
<1>6. bus'.job <= ended /\ bus'.tries \in 0 .. MaxRetries - 1
  <2>1. \/ bus' = bus \/ bus' = Idle \/ \E s \in Stages : bus' = At(s, j)
        \/ bus' = [bus EXCEPT !.tries = @ + 1] /\ bus.tries + 1 < MaxRetries
    BY DEF BusStep, SeenBefore, RouteDirectly, Resume, ResumeOrphan, LookUp, AddResult,
       TurnEnds, TurnFails, RouteAnswer, MarkPublished, TakeOutbound, Recover,
       SkipDelivery, Deliver, DeliveryFails, Ack, Stages
  <2>2. CASE bus' = [bus EXCEPT !.tries = @ + 1] /\ bus.tries + 1 < MaxRetries
    <3>1. bus'.job = bus.job /\ bus'.tries = bus.tries + 1 /\ bus.tries \in Nat
      BY <1>2, <2>2
    <3>. QED BY <1>2, <2>2, <3>1
  <2>3. CASE bus' = bus
    BY <2>3 DEF Counters
  <2>4. CASE bus' = Idle \/ \E s \in Stages : bus' = At(s, j)
    BY <1>2, <1>3, <2>4, Records
  <2>. QED BY <2>1, <2>2, <2>3, <2>4
<1>7. OfEnded(queue)'
  <2>1. Outbound(j) \in Event /\ Outbound(j).job <= ended
    BY <1>3 DEF Outbound, Event
  <2>2. \/ queue' = queue \/ (queue # <<>> /\ queue' = Tail(queue))
        \/ queue' = Append(queue, Outbound(j))
        \/ (queue # <<>> /\ queue' = Append(Tail(queue), Outbound(j)))
    BY DEF BusStep, SeenBefore, RouteDirectly, Resume, ResumeOrphan, LookUp, AddResult,
       TurnEnds, TurnFails, RouteAnswer, MarkPublished, TakeOutbound, Recover,
       SkipDelivery, Deliver, DeliveryFails, Ack, Take
  <2>3. OfEnded(queue')
    <3>1. CASE queue' = queue \/ (queue # <<>> /\ queue' = Tail(queue)) \/ queue' = Append(queue, Outbound(j))
      BY <1>2, <2>1, <3>1, OfEndedKept
    <3>2. CASE queue # <<>> /\ queue' = Append(Tail(queue), Outbound(j))
      <4>1. Tail(queue) \in Seq(Event) /\ OfEnded(Tail(queue))
        BY <1>2, <3>2, OfEndedKept
      <4>. QED BY <2>1, <3>2, <4>1, OfEndedKept
    <3>. QED BY <2>2, <3>1, <3>2
  <2>. QED BY <1>1, <2>3 DEF OfEnded
<1>8. consumed' \subseteq 1 .. ended /\ dropped' \subseteq Jobs
  BY <1>2, <1>3, <1>4 DEF Counters
<1>9. partial' \in [Jobs -> Nat]
  <2>1. partial \in [Jobs -> Nat]
    BY DEF Counters
  <2>2. partial' = partial \/ partial' = [partial EXCEPT ![j] = @ + 1]
    BY DEF BusStep, SeenBefore, RouteDirectly, Resume, ResumeOrphan, LookUp, AddResult,
       TurnEnds, TurnFails, RouteAnswer, MarkPublished, TakeOutbound, Recover,
       SkipDelivery, Deliver, DeliveryFails, Ack, delivery
  <2>. QED BY <2>1, <2>2
<1>. QED BY <1>1, <1>5, <1>6, <1>7, <1>8, <1>9 DEF Counters

LEMMA CountersKept ==
  ASSUME WayInv, Counters, [Next]_vars
  PROVE  Counters'
<1>1. /\ queue \in Seq(Event) /\ OfEnded(queue) /\ bus.job <= ended
      /\ ended \in 0 .. N /\ N \in Nat /\ MaxAttempts \in Nat \ {0} /\ MaxRetries \in Nat \ {0} /\ MaxCrashes \in Nat
      /\ bus \in [stage : Stages, job : Jobs \cup {0}, tries : Nat]
  BY CompletionAssumption DEF WayInv, WayTypes, Counters
<1>2. CASE JobEnds
  <2>1. /\ ended' = ended + 1 /\ ended < N
        /\ UNCHANGED <<attempts, waiting, consumed, dropped, partial, queue, bus, up, crashes, failures>>
    BY <1>2 DEF JobEnds, routed, delivery
  <2>2. ended' \in 0 .. N /\ 1 .. ended \subseteq 1 .. ended' /\ bus.job <= ended'
    BY <1>1, <2>1 DEF Jobs
  <2>3. OfEnded(queue)'
    <3>1. \A i \in 1 .. Len(queue) : queue[i] \in Event
      BY <1>1
    <3>2. \A i \in 1 .. Len(queue) : queue[i].job \in Jobs /\ queue[i].job <= ended
      BY <1>1, <3>1 DEF OfEnded, Event
    <3>. QED BY <1>1, <2>1, <3>2 DEF OfEnded, Jobs
  <2>. QED BY <2>1, <2>2, <2>3 DEF Counters
<1>3. ASSUME NEW j \in Jobs, Publish(j) PROVE Counters'
  <2>1. /\ queue' = Append(queue, Completed(j)) /\ j \in 1 .. ended /\ attempts[j] < MaxAttempts
        /\ attempts' = [attempts EXCEPT ![j] = @ + 1] /\ waiting' = waiting \cup {j}
        /\ UNCHANGED <<ended, consumed, dropped, partial, bus, up, crashes, failures>>
    BY <1>3 DEF Publish, PendingOutbox, Due, routed, delivery
  <2>2. attempts' \in [Jobs -> 0 .. MaxAttempts]
    BY <1>1, <2>1 DEF Counters
  <2>3. Completed(j) \in Event /\ Completed(j).job <= ended
    BY <1>1, <2>1 DEF Completed, Event
  <2>4. OfEnded(queue')
    BY <1>1, <2>1, <2>3, OfEndedKept
  <2>5. OfEnded(queue)'
    BY <2>1, <2>4 DEF OfEnded
  <2>. QED BY <2>1, <2>2, <2>5 DEF Counters
<1>4. ASSUME NEW j \in Jobs, BackoffOver(j) PROVE Counters'
  BY <1>4 DEF BackoffOver, Counters, OfEnded, routed, delivery
<1>5. CASE Crash
  <2>1. /\ crashes < MaxCrashes /\ crashes' = crashes + 1 /\ up' = FALSE /\ queue' = <<>> /\ bus' = Idle
        /\ UNCHANGED <<ended, attempts, waiting, consumed, dropped, failures>>
    BY <1>5 DEF Crash, outboxVars, routed, delivery
  <2>p. partial' \in [Jobs -> Nat]
    <3>1. partial \in [Jobs -> Nat]
      BY DEF Counters
    <3>2. partial' = partial \/ partial' = [partial EXCEPT ![bus.job] = @ + 1]
      BY <1>5 DEF Crash
    <3>. QED BY <3>1, <3>2
  <2>2. OfEnded(queue)' /\ bus'.job <= ended /\ bus'.tries \in 0 .. MaxRetries - 1 /\ crashes' \in 0 .. MaxCrashes
    BY <1>1, <2>1, Records DEF OfEnded, Counters
  <2>. QED BY <2>1, <2>2, <2>p DEF Counters
<1>6. CASE Start \/ UNCHANGED vars
  BY <1>6 DEF Start, vars, Counters, OfEnded, outboxVars, routed, delivery
<1>. QED BY <1>2, <1>3, <1>4, <1>5, <1>6, CountersOfTheBus DEF Next

LEMMA CountersInvariant == Spec => [](WayInv /\ Counters)
<1>1. Init => WayInv /\ Counters
  <2>1. ASSUME Init PROVE Counters
    <3>1. OfEnded(queue)
      BY <2>1 DEF Init, OfEnded
    <3>. QED BY <2>1, <3>1, CompletionAssumption, Records DEF Init, Counters, Jobs
  <2>. QED BY <2>1, StartOfTheWay
<1>2. WayInv /\ Counters /\ [Next]_vars => (WayInv /\ Counters)'
  BY WayInvKept, CountersKept
<1>. QED BY <1>1, <1>2, PTL DEF Spec

(* The type invariant of Completion, for any outcomes, windows and bounds. *)
THEOREM CompletionTypes == Spec => []TypeOK
<1>1. WayInv /\ Counters => TypeOK
  BY DEF WayInv, WayTypes, Counters, TypeOK
<1>. QED BY <1>1, CountersInvariant, PTL

-----------------------------------------------------------------------------
(* How often a reply begins.                                               *)

(* A reply that has still to be taken up by this process, or a later one.  *)
NotYet(j) == j \notin consumed \/ InQueue(j) \/ j \in todo \/ ~up

(* How often the reply was sent, as a whole or in part. *)
Shown(j) == replies[j] + partial[j]

(* Each process lets a reply begin MaxRetries times, and counts its tries. *)
Limit == MaxRetries * crashes

ShownFits(j) ==
  /\ Shown(j) <= Limit + MaxRetries
  /\ NotYet(j) => Shown(j) <= Limit
  /\ Busy({"delivering"}, j) => Shown(j) <= Limit + bus.tries

AllShownFit == \A j \in Jobs : ShownFits(j)

LEMMA NextLimit ==
  ASSUME NEW m \in Nat, NEW c \in Nat
  PROVE  m * c \in Nat /\ m * (c + 1) = m * c + m
OBVIOUS

(* Steps that send nothing, and take up no reply or one not yet taken up.  *)
LEMMA NothingShown ==
  ASSUME WayInv, Counters, AllShownFit,
         UNCHANGED <<replies, partial, crashes>>,
         \A k \in Jobs : NotYet(k)' => NotYet(k),
         \A k \in Jobs : Busy({"delivering"}, k)'
           => bus' = bus \/ (NotYet(k) /\ bus'.tries = 0)
  PROVE  AllShownFit'
<1>1. Limit' = Limit /\ \A k : Shown(k)' = Shown(k)
  BY DEF Limit, Shown
<1>2. Limit \in Nat /\ MaxRetries \in Nat
  BY CompletionAssumption, NextLimit DEF WayInv, WayTypes, Limit
<1>3. ASSUME NEW k \in Jobs PROVE ShownFits(k)'
  <2>1. ShownFits(k) /\ Shown(k) \in Nat
    BY DEF AllShownFit, WayInv, WayTypes, Counters, Shown
  <2>2. Busy({"delivering"}, k)' => Shown(k) <= Limit + bus'.tries
    <3>1. ASSUME Busy({"delivering"}, k)', bus' = bus PROVE Shown(k) <= Limit + bus'.tries
      BY <2>1, <3>1 DEF ShownFits, Busy
    <3>2. ASSUME NotYet(k), bus'.tries = 0 PROVE Shown(k) <= Limit + bus'.tries
      <4>1. Shown(k) <= Limit
        BY <2>1, <3>2 DEF ShownFits
      <4>. QED BY <1>2, <2>1, <3>2, <4>1
    <3>. QED BY <3>1, <3>2
  <2>. QED BY <1>1, <2>1, <2>2 DEF ShownFits
<1>. QED BY <1>3 DEF AllShownFit

(* One reply is shown once more, by the process that has it in hand. *)
LEMMA OneShown ==
  ASSUME WayInv, Counters, AllShownFit, NEW j \in Jobs,
         Busy({"delivering"}, j), Shown(j)' \in {Shown(j), Shown(j) + 1},
         \A k \in Jobs \ {j} : Shown(k)' = Shown(k),
         UNCHANGED crashes, ~NotYet(j)',
         \A k \in Jobs : NotYet(k)' => NotYet(k),
         \/ bus'.stage # "delivering"
         \/ bus'.stage = "delivering" /\ bus'.job = j /\ bus'.tries = bus.tries + 1
  PROVE  AllShownFit'
<1>1. /\ Limit' = Limit /\ Limit \in Nat /\ MaxRetries \in Nat \ {0}
      /\ bus.tries \in 0 .. MaxRetries - 1
  BY CompletionAssumption, NextLimit DEF WayInv, WayTypes, Limit, Counters
<1>2. ASSUME NEW k \in Jobs PROVE Shown(k) \in Nat /\ ShownFits(k)
  BY DEF AllShownFit, WayInv, WayTypes, Counters, Shown
<1>3. ASSUME NEW k \in Jobs PROVE ShownFits(k)'
  <2>1. CASE k = j
    <3>1. Shown(j) <= Limit + bus.tries /\ Shown(j) \in Nat
      BY <1>2 DEF ShownFits
    <3>2. Shown(j)' <= Limit + bus.tries + 1
      BY <1>1, <3>1
    <3>3. Shown(j)' <= Limit + MaxRetries
      BY <1>1, <3>1
    <3>4. Busy({"delivering"}, j)' => bus'.tries = bus.tries + 1
      BY DEF Busy
    <3>5. Busy({"delivering"}, j)' => Shown(j)' <= Limit + bus'.tries
      BY <1>1, <3>2, <3>4
    <3>. QED BY <1>1, <2>1, <3>3, <3>5 DEF ShownFits
  <2>2. CASE k # j
    <3>1. ~Busy({"delivering"}, k)' /\ Shown(k)' = Shown(k)
      BY <2>2 DEF Busy
    <3>. QED BY <1>1, <1>2, <3>1 DEF ShownFits
  <2>. QED BY <2>1, <2>2
<1>. QED BY <1>3 DEF AllShownFit

(* What went down in the middle of a try starts with new tries. *)
LEMMA ShownBeforeCrash ==
  ASSUME WayInv, Counters, AllShownFit, Crash
  PROVE  AllShownFit'
<1>1. crashes' = crashes + 1 /\ bus'.stage = "idle" /\ replies' = replies
  BY Records DEF Crash
<1>2. /\ Limit' = Limit + MaxRetries /\ Limit \in Nat /\ MaxRetries \in Nat \ {0}
      /\ bus.tries \in 0 .. MaxRetries - 1
  BY <1>1, CompletionAssumption, NextLimit DEF WayInv, WayTypes, Limit, Counters
<1>3. ASSUME NEW k \in Jobs PROVE Shown(k)' \in Nat /\ Shown(k)' <= Limit + MaxRetries
  <2>0. Shown(k) \in Nat /\ ShownFits(k) /\ partial \in [Jobs -> Nat] /\ replies[k] \in Nat
    BY DEF AllShownFit, WayInv, WayTypes, Counters, Shown
  <2>1. CASE partial' = partial
    BY <1>1, <2>0, <2>1 DEF Shown, ShownFits
  <2>2. CASE bus.stage = "delivering" /\ partial' = [partial EXCEPT ![bus.job] = @ + 1]
    <3>1. CASE k = bus.job
      <4>1. Shown(k) <= Limit + bus.tries
        BY <2>0, <2>2, <3>1 DEF ShownFits, Busy
      <4>2. partial'[k] = partial[k] + 1 /\ partial[k] \in Nat
        BY <2>0, <2>2, <3>1
      <4>3. Shown(k)' = Shown(k) + 1
        BY <1>1, <2>0, <4>2 DEF Shown
      <4>. QED BY <1>2, <2>0, <4>1, <4>3
    <3>2. CASE k # bus.job
      <4>1. partial'[k] = partial[k]
        BY <2>0, <2>2, <3>2
      <4>2. Shown(k)' = Shown(k)
        BY <1>1, <4>1 DEF Shown
      <4>. QED BY <2>0, <4>2 DEF ShownFits
    <3>. QED BY <3>1, <3>2
  <2>. QED BY <2>1, <2>2 DEF Crash
<1>4. ASSUME NEW k \in Jobs PROVE ShownFits(k)'
  <2>1. ~Busy({"delivering"}, k)'
    BY <1>1 DEF Busy
  <2>2. Shown(k)' <= Limit' /\ Shown(k)' <= Limit' + MaxRetries
    BY <1>2, <1>3
  <2>. QED BY <2>1, <2>2 DEF ShownFits
<1>. QED BY <1>4 DEF AllShownFit

(* Only what was not yet taken up is waiting to be taken up. *)
LEMMA NoneWaitsAgain ==
  ASSUME WayInv, [Next]_vars, ~Crash, NEW k \in Jobs, NotYet(k)'
  PROVE  NotYet(k)
<1>. SUFFICES ASSUME k \in consumed, ~InQueue(k), k \notin todo, up PROVE FALSE
  BY DEF NotYet
<1>1. k \in consumed' /\ k \notin todo' /\ up'
  BY DEF Next, BusStep, JobEnds, Start, Publish, BackoffOver,
     SeenBefore, RouteDirectly, Resume, ResumeOrphan, LookUp, AddResult,
     TurnEnds, TurnFails, RouteAnswer, MarkPublished, TakeOutbound, Recover,
     SkipDelivery, Deliver, DeliveryFails, Ack, vars, routed, Quiet
<1>2. queue \in Seq(Event)
  BY DEF WayInv, WayTypes
<1>3. ASSUME NEW j \in Jobs, RouteDirectly(j) \/ RouteAnswer(j) PROVE j # k
  BY <1>3, Records DEF RouteDirectly, RouteAnswer, WayInv, BusFits, Busy
<1>4. \/ queue' = queue \/ (queue # <<>> /\ queue' = Tail(queue))
      \/ \E e \in Event : e # Outbound(k) /\ queue' = Append(queue, e)
      \/ \E e \in Event : e # Outbound(k) /\ queue # <<>> /\ queue' = Append(Tail(queue), e)
  <2>1. ASSUME NEW j \in Jobs PROVE Completed(j) \in Event /\ Outbound(j) \in Event
    BY DEF Completed, Outbound, Event
  <2>2. ASSUME NEW j \in Jobs, Publish(j)
        PROVE  \E e \in Event : e # Outbound(k) /\ queue' = Append(queue, e)
    <3>1. queue' = Append(queue, Completed(j)) /\ Completed(j) # Outbound(k)
      BY <2>2, Records DEF Publish
    <3>. QED BY <2>1, <3>1
  <2>3. ASSUME NEW j \in Jobs, RouteDirectly(j) \/ RouteAnswer(j)
        PROVE  \/ (queue # <<>> /\ queue' = Tail(queue))
               \/ \E e \in Event : e # Outbound(k) /\ queue' = Append(queue, e)
               \/ \E e \in Event : e # Outbound(k) /\ queue # <<>> /\ queue' = Append(Tail(queue), e)
    <3>1. Outbound(j) # Outbound(k)
      BY <1>3, <2>3, Records
    <3>. QED BY <2>1, <2>3, <3>1 DEF RouteDirectly, RouteAnswer, Take
  <2>4. ASSUME NEW j \in Jobs,
               \/ BackoffOver(j) \/ SeenBefore(j) \/ Resume(j) \/ ResumeOrphan(j) \/ LookUp(j) \/ AddResult(j)
               \/ TurnFails(j) \/ MarkPublished(j) \/ TakeOutbound(j) \/ Recover(j)
               \/ SkipDelivery(j) \/ Deliver(j) \/ DeliveryFails(j) \/ Ack(j)
               \/ \E e \in Endings : TurnEnds(j, e)
        PROVE  queue' = queue \/ (queue # <<>> /\ queue' = Tail(queue))
    BY <2>4 DEF BackoffOver, SeenBefore, Resume, ResumeOrphan, LookUp, AddResult,
       TurnEnds, TurnFails, MarkPublished, TakeOutbound, Recover,
       SkipDelivery, Deliver, DeliveryFails, Ack, Take
  <2>5. CASE JobEnds \/ Start \/ UNCHANGED vars
    BY <2>5 DEF JobEnds, Start, vars
  <2>. QED BY <2>2, <2>3, <2>4, <2>5 DEF Next, BusStep
<1>5. ~Has(queue', k)
  <2>1. ~Has(queue, k)
    BY DEF InQueue
  <2>2. ASSUME queue # <<>> PROVE Tail(queue) \in Seq(Event) /\ ~Has(Tail(queue), k)
    BY <1>2, <2>1, <2>2, QueueShrinks
  <2>3. ASSUME NEW q \in Seq(Event), ~Has(q, k), NEW e \in Event, e # Outbound(k)
        PROVE  ~Has(Append(q, e), k)
    BY <2>3, QueueGrows
  <2>4. CASE queue' = queue \/ (queue # <<>> /\ queue' = Tail(queue))
    BY <2>1, <2>2, <2>4
  <2>5. ASSUME NEW e \in Event, e # Outbound(k), queue' = Append(queue, e) PROVE ~Has(queue', k)
    BY <1>2, <2>1, <2>3, <2>5
  <2>6. ASSUME NEW e \in Event, e # Outbound(k), queue # <<>>, queue' = Append(Tail(queue), e)
        PROVE  ~Has(queue', k)
    BY <2>2, <2>3, <2>6
  <2>. QED BY <1>4, <2>4, <2>5, <2>6
<1>. QED BY <1>1, <1>5 DEF NotYet, InQueue

LEMMA ShownKept ==
  ASSUME WayInv, RepliesFit, Counters, AllShownFit, [Next]_vars
  PROVE  AllShownFit'
<1>1. CASE Crash
  BY <1>1, ShownBeforeCrash
<1>. SUFFICES ASSUME ~Crash PROVE AllShownFit'
  BY <1>1
<1>2. \A k \in Jobs : NotYet(k)' => NotYet(k)
  BY NoneWaitsAgain
<1>3. ASSUME NEW j \in Jobs, Deliver(j) \/ DeliveryFails(j) PROVE AllShownFit'
  <2>1. bus.stage = "delivering" /\ bus.job = j /\ crashes' = crashes
    BY <1>3 DEF Deliver, DeliveryFails, Delivering, Quiet
  <2>2. /\ replies \in [Jobs -> Nat] /\ partial \in [Jobs -> Nat]
        /\ bus \in [stage : Stages, job : Jobs \cup {0}, tries : Nat]
    BY DEF WayInv, WayTypes, Counters
  <2>3. \/ replies' = [replies EXCEPT ![j] = @ + 1] /\ partial' = partial
        \/ replies' = replies /\ partial' = [partial EXCEPT ![j] = @ + 1]
        \/ UNCHANGED <<replies, partial>>
    BY <1>3 DEF Deliver, DeliveryFails
  <2>4. \A k \in Jobs \ {j} : Shown(k)' = Shown(k)
    BY <2>2, <2>3 DEF Shown
  <2>5. Shown(j)' \in {Shown(j), Shown(j) + 1}
    BY <2>2, <2>3 DEF Shown
  <2>6. Busy({"delivering"}, j)
    BY <2>1 DEF Busy
  <2>7. ~NotYet(j)'
    <3>1. ~NotYet(j)
      BY <1>3, <2>6 DEF Deliver, DeliveryFails, Delivering, NotYet, WayInv, WayTypes, BusFits, Busy, RepliesFit, ReplyFits
    <3>. QED BY <1>2, <3>1
  <2>8. \/ bus'.stage # "delivering"
        \/ bus'.stage = "delivering" /\ bus'.job = j /\ bus'.tries = bus.tries + 1
    <3>1. bus' = At("acking", j) \/ bus' = [bus EXCEPT !.tries = @ + 1]
      BY <1>3 DEF Deliver, DeliveryFails
    <3>2. LET b == [bus EXCEPT !.tries = @ + 1]
          IN  b.stage = bus.stage /\ b.job = bus.job /\ b.tries = bus.tries + 1
      BY <2>2
    <3>3. CASE bus' = At("acking", j)
      BY <3>3, Records
    <3>4. CASE bus' = [bus EXCEPT !.tries = @ + 1]
      BY <2>1, <3>2, <3>4
    <3>. QED BY <3>1, <3>3, <3>4
  <2>. QED BY <1>2, <2>1, <2>4, <2>5, <2>6, <2>7, <2>8, OneShown
<1>4. ASSUME NEW j \in Jobs, TakeOutbound(j) \/ Recover(j) PROVE AllShownFit'
  <2>1. UNCHANGED <<replies, partial, crashes>> /\ bus' = At("delivering", j)
    BY <1>4 DEF TakeOutbound, Recover, Quiet, delivery
  <2>2. NotYet(j)
    <3>1. CASE TakeOutbound(j)
      <4>1. queue # <<>> /\ Head(queue) = Outbound(j) /\ queue \in Seq(Event)
        BY <3>1 DEF TakeOutbound, Take, WayInv, WayTypes
      <4>2. Has(queue, j)
        BY <4>1, QueueShrinks
      <4>. QED BY <4>2 DEF NotYet, InQueue
    <3>2. CASE Recover(j)
      BY <3>2 DEF Recover, NotYet
    <3>. QED BY <1>4, <3>1, <3>2
  <2>3. bus'.job = j /\ bus'.tries = 0
    BY <2>1, Records
  <2>. QED BY <1>2, <2>1, <2>2, <2>3, NothingShown DEF Busy
<1>5. ASSUME NEW j \in Jobs,
             \/ SeenBefore(j) \/ RouteDirectly(j) \/ Resume(j) \/ ResumeOrphan(j) \/ LookUp(j) \/ AddResult(j)
             \/ TurnFails(j) \/ RouteAnswer(j) \/ MarkPublished(j) \/ SkipDelivery(j) \/ Ack(j)
             \/ \E e \in Endings : TurnEnds(j, e)
      PROVE  AllShownFit'
  <2>1. UNCHANGED <<replies, partial, crashes>>
    BY <1>5 DEF SeenBefore, RouteDirectly, Resume, ResumeOrphan, LookUp, AddResult,
       TurnEnds, TurnFails, RouteAnswer, MarkPublished, SkipDelivery, Ack, Quiet, delivery
  <2>2. bus' = bus \/ bus'.stage # "delivering"
    BY <1>5, Records DEF SeenBefore, RouteDirectly, Resume, ResumeOrphan, LookUp, AddResult,
       TurnEnds, TurnFails, RouteAnswer, MarkPublished, SkipDelivery, Ack
  <2>. QED BY <1>2, <2>1, <2>2, NothingShown DEF Busy
<1>6. CASE JobEnds \/ Start \/ UNCHANGED vars \/ \E j \in Jobs : Publish(j) \/ BackoffOver(j)
  <2>1. UNCHANGED <<replies, partial, crashes, bus>>
    BY <1>6 DEF JobEnds, Start, Publish, BackoffOver, vars, delivery
  <2>. QED BY <1>2, <2>1, NothingShown
<1>. QED BY <1>3, <1>4, <1>5, <1>6 DEF Next, BusStep

(* A reply is sent again as a whole only because of a crash, and begins no *)
(* more than MAX_RETRIES times in each process; retries of the outbox,     *)
(* events that come back and recovered files never repeat it.              *)
THEOREM RepliesAreRepeatedForACause == Spec => []RepliesRepeatForACause
<1>1. Init => AllShownFit
  <2>1. ASSUME Init, NEW j \in Jobs PROVE ShownFits(j)
    <3>1. Shown(j) = 0 /\ bus.stage = "idle" /\ crashes = 0
      BY <2>1, Records DEF Init, Shown
    <3>2. Limit = 0 /\ MaxRetries \in Nat
      BY <3>1, CompletionAssumption DEF Limit
    <3>. QED BY <3>1, <3>2 DEF ShownFits, Busy
  <2>. QED BY <2>1 DEF AllShownFit
<1>2. WayInv /\ RepliesFit /\ Counters /\ AllShownFit /\ [Next]_vars => AllShownFit'
  BY ShownKept
<1>3. WayInv /\ RepliesFit /\ AllShownFit => RepliesRepeatForACause
  <2>. SUFFICES ASSUME WayInv, RepliesFit, AllShownFit, NEW j \in Jobs
                PROVE  /\ replies[j] <= 1 + crashes
                       /\ replies[j] + partial[j] <= MaxRetries * (1 + crashes)
    BY DEF RepliesRepeatForACause
  <2>1. replies[j] \in Nat /\ crashes \in Nat /\ MaxRetries \in Nat
    BY CompletionAssumption DEF WayInv, WayTypes
  <2>2. replies[j] <= 1 + crashes
    BY <2>1 DEF RepliesFit, ReplyFits
  <2>3. Limit + MaxRetries = MaxRetries * (1 + crashes)
    BY <2>1, NextLimit DEF Limit
  <2>4. replies[j] + partial[j] <= Limit + MaxRetries
    BY DEF AllShownFit, ShownFits, Shown
  <2>. QED BY <2>2, <2>3, <2>4
<1>. QED BY <1>1, <1>2, <1>3, RepliesInvariant, CountersInvariant, PTL DEF Spec
=============================================================================
