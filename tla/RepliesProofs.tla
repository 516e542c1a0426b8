--------------------------- MODULE RepliesProofs ---------------------------
(***************************************************************************)
(* The ways of a reply, for any clients, sources, replies and chunks and   *)
(* any number of questions, processes and failures: the tables of          *)
(* WebSocketWorker, what arrives of the replies on the platform, and what  *)
(* the chat shows after which question.                                    *)
(***************************************************************************)
EXTENDS Replies, FiniteSetTheorems, TLAPS

WsTypes ==
  /\ sourceOf \in [Clients -> Sources \cup {NoSource}]
  /\ badge \in [Clients -> Sources \cup {NoSource}]
  /\ clientsOf \in [Sources -> SUBSET Clients]
  /\ clients \subseteq Clients /\ reading \subseteq Clients

(* Without the last conjunct a message could bind an authenticated         *)
(* connection to a source that it did not prove.                           *)
WsInv == WsTypes /\ BindingsAgree /\ \A c \in authenticated : badge[c] # NoSource

(* What is done to one connection. *)
LEMMA ConnectKeeps ==
  ASSUME WsInv, NEW c \in Clients, NEW s \in Sources, Connect(c, s)
  PROVE  WsInv'
<1>. USE DEF WsInv, WsTypes, BindingsAgree, Connect
<1>1. sourceOf[c] = NoSource /\ s # NoSource
  BY WebSocketsAssumption
<1>2. CASE secret
  BY <1>1, <1>2 DEF Bind
<1>3. CASE ~secret
  BY <1>3
<1>. QED BY <1>2, <1>3

LEMMA ReceiveKeeps ==
  ASSUME WsInv, NEW c \in Clients, NEW s \in Sources, Receive(c, s)
  PROVE  WsInv'
BY WebSocketsAssumption DEF WsInv, WsTypes, BindingsAgree, Receive, Bind

LEMMA RemoveKeeps ==
  ASSUME WsInv, NEW c \in Clients, Disconnect(c) \/ Forget(c)
  PROVE  WsInv'
BY WebSocketsAssumption DEF WsInv, WsTypes, BindingsAgree, Disconnect, Forget, Remove

LEMMA HangUpKeeps == HangUp => WsInv'
BY WebSocketsAssumption DEF WsInv, WsTypes, BindingsAgree, HangUp

LEMMA WsInitHolds == Init => WsInv
BY WebSocketsAssumption DEF Init, WsInit, WsInv, WsTypes, BindingsAgree

LEMMA WsStepKeeps == WsInv /\ [Next]_vars => WsInv'
<1>. SUFFICES ASSUME WsInv, [Next]_vars PROVE WsInv'
  OBVIOUS
<1>1. UNCHANGED wsVars => WsInv'
  BY DEF wsVars, WsInv, WsTypes, BindingsAgree
<1>2. ASSUME NEW kind \in {"server", "chat"}, Start(kind) PROVE WsInv'
  BY <1>1, <1>2 DEF Start
<1>3. CASE End
  BY <1>3, HangUpKeeps DEF End
<1>4. CASE SetDefault
  BY <1>1, <1>4 DEF SetDefault
<1>5. ASSUME NEW r \in Others, PublishOther(r) PROVE WsInv'
  BY <1>1, <1>5 DEF PublishOther
<1>6. ASSUME NEW q \in Answers, PublishAnswer(q) PROVE WsInv'
  BY <1>1, <1>6 DEF PublishAnswer
<1>7. ASSUME NEW r \in Replies, Dispatch(r) PROVE WsInv'
  BY <1>1, <1>7 DEF Dispatch, Take, TakeFails, Recover, Notify, HandleOutbound, Reply,
     ReplyFails, Ack
<1>8. ASSUME NEW c \in Clients, Send(c) PROVE WsInv'
  BY <1>1, <1>8 DEF Send
<1>9. ASSUME NEW c \in Clients, SendFails(c) PROVE WsInv'
  BY <1>9, RemoveKeeps DEF SendFails
<1>10. ASSUME NEW c \in Clients, Connection(c) PROVE WsInv'
  BY <1>10, ConnectKeeps, ReceiveKeeps, RemoveKeeps DEF Connection
<1>11. CASE Ask \/ Show \/ Timeout
  BY <1>1, <1>11 DEF Ask, Show, Timeout
<1>12. CASE UNCHANGED vars
  BY <1>1, <1>12 DEF vars
<1>. QED
  BY <1>2, <1>3, <1>4, <1>5, <1>6, <1>7, <1>8, <1>9, <1>10, <1>11, <1>12 DEF Next, BusStep

(* The two dictionaries of WebSocketWorker name the same connections,      *)
(* whatever sends, messages and disconnects interleave; an authenticated   *)
(* connection is bound to the source it proved.                            *)
THEOREM ConnectionsAgree == Spec => []BindingsAgree
<1>1. WsInv => BindingsAgree
  BY DEF WsInv
<1>. QED BY WsInitHolds, WsStepKeeps, <1>1, PTL DEF Spec

-----------------------------------------------------------------------------
(* Queues: what an element's leaving and joining does to them.             *)
In(x, s) == \E i \in DOMAIN s : s[i] = x
Distinct(s) == \A i, k \in DOMAIN s : s[i] = s[k] => i = k

(* The members of the set f stand in s in their order as numbers.          *)
Sorted(s, f) ==
  \A i, k \in DOMAIN s : i < k /\ s[i] \in f /\ s[k] \in f => s[i] < s[k]

LEMMA EmptyQueue == /\ \A x : ~In(x, <<>>)
                    /\ Distinct(<<>>) /\ \A f : Sorted(<<>>, f)
BY DEF In, Distinct, Sorted

LEMMA Popped ==
  ASSUME NEW S, NEW s \in Seq(S), s # <<>>
  PROVE  /\ Tail(s) \in Seq(S) /\ In(Head(s), s)
         /\ \A x : In(x, s) <=> x = Head(s) \/ In(x, Tail(s))
         /\ Distinct(s) => Distinct(Tail(s)) /\ ~In(Head(s), Tail(s))
         /\ \A f : Sorted(s, f) =>
                     /\ Sorted(Tail(s), f)
                     /\ \A x \in f : Head(s) \in f /\ In(x, Tail(s)) => Head(s) < x
<1>1. /\ Tail(s) \in Seq(S) /\ Len(s) \in Nat \ {0} /\ Head(s) = s[1]
      /\ DOMAIN s = 1 .. Len(s) /\ DOMAIN Tail(s) = 1 .. (Len(s) - 1)
      /\ \A i \in 1 .. (Len(s) - 1) : Tail(s)[i] = s[i + 1]
  OBVIOUS
<1>2. \A i \in DOMAIN Tail(s) : i + 1 \in DOMAIN s /\ Tail(s)[i] = s[i + 1]
  BY <1>1
<1>3. \A i \in DOMAIN s \ {1} : i - 1 \in DOMAIN Tail(s) /\ s[i] = Tail(s)[i - 1]
  BY <1>1
<1>4. 1 \in DOMAIN s
  BY <1>1
<1>5. \A x : In(x, s) <=> x = Head(s) \/ In(x, Tail(s))
  BY <1>1, <1>2, <1>3, <1>4 DEF In
<1>6. Distinct(s) => Distinct(Tail(s)) /\ ~In(Head(s), Tail(s))
  BY <1>1, <1>2, <1>4 DEF Distinct, In
<1>7. ASSUME NEW f, Sorted(s, f)
      PROVE  /\ Sorted(Tail(s), f)
             /\ \A x \in f : Head(s) \in f /\ In(x, Tail(s)) => Head(s) < x
  BY <1>1, <1>2, <1>4, <1>7 DEF Sorted, In
<1>. QED BY <1>1, <1>5, <1>6, <1>7

LEMMA Pushed ==
  ASSUME NEW S, NEW s \in Seq(S), NEW x \in S
  PROVE  /\ Append(s, x) \in Seq(S)
         /\ \A y : In(y, Append(s, x)) <=> In(y, s) \/ y = x
         /\ Distinct(s) /\ ~In(x, s) => Distinct(Append(s, x))
         /\ \A f : Sorted(s, f) /\ (x \in f => \A y \in f : In(y, s) => y < x)
                     => Sorted(Append(s, x), f)
<1>1. /\ Append(s, x) \in Seq(S) /\ Len(s) \in Nat
      /\ DOMAIN s = 1 .. Len(s) /\ DOMAIN Append(s, x) = 1 .. (Len(s) + 1)
      /\ Append(s, x)[Len(s) + 1] = x
      /\ \A i \in 1 .. Len(s) : Append(s, x)[i] = s[i]
  OBVIOUS
<1>2. \A y : In(y, Append(s, x)) <=> In(y, s) \/ y = x
  BY <1>1 DEF In
<1>3. Distinct(s) /\ ~In(x, s) => Distinct(Append(s, x))
  BY <1>1 DEF In, Distinct
<1>4. ASSUME NEW f, Sorted(s, f), x \in f => \A y \in f : In(y, s) => y < x
      PROVE  Sorted(Append(s, x), f)
  BY <1>1, <1>4 DEF In, Sorted
<1>. QED BY <1>1, <1>2, <1>3, <1>4

LEMMA SortedForLess ==
  ASSUME NEW s, NEW f, NEW g, g \subseteq f, Sorted(s, f)
  PROVE  Sorted(s, g)
BY DEF Sorted

-----------------------------------------------------------------------------
(* The way of a reply: a queue, then a file and the bus.                   *)
BusRow == [stage : {"idle", "taken", "handled"}, reply : Replies \cup {NoReply},
           delivery : {"none", "sending", "dropping"}, tries : Nat, sent : Nat,
           addressed : SUBSET Clients]

FlowTypes ==
  /\ process \in {"down", "server", "chat"} /\ starts \in Nat /\ failures \in Nat
  /\ queue \in Seq(Replies) /\ bus \in BusRow
  /\ persisted \subseteq published \cap Replies
  /\ files \subseteq persisted /\ leftovers \subseteq files

(* Nothing outlives a process but the files. *)
ProcessFits ==
  /\ process # "down" => starts > 0
  /\ process = "down" => queue = <<>> /\ leftovers = {} /\ bus = Idle
  /\ starts = 0 => persisted = {}

(* A reply is queued once, and on disk from when the bus takes it to its   *)
(* acknowledgement; only the server leaves a handler with the bus.         *)
BusFits ==
  /\ Distinct(queue)
  /\ \A r \in Replies : In(r, queue) => r \in published \ persisted
  /\ bus.stage = "idle" => bus = Idle
  /\ bus.stage = "taken" => bus = Taken(bus.reply) /\ bus.reply \in files
  /\ bus.stage # "idle" => bus.reply \in persisted \ leftovers
  /\ bus.delivery # "none" => process = "server" /\ bus.stage = "handled" /\ ~NoChannel(bus.reply)
  /\ bus.addressed # {} => process = "server" /\ bus.stage = "handled"

FlowInv == WsInv /\ FlowTypes /\ ProcessFits /\ BusFits

LEMMA BusRows ==
  /\ Idle \in BusRow /\ Idle.stage = "idle" /\ Idle.delivery = "none" /\ Idle.addressed = {}
  /\ \A r \in Replies : /\ Taken(r) \in BusRow /\ Taken(r).stage = "taken" /\ Taken(r).reply = r
                        /\ Taken(r).delivery = "none" /\ Taken(r).addressed = {}
                        /\ Taken(r).sent = 0
BY DEF Idle, Taken, BusRow

LEMMA NoReplyIsNone == NoReply \notin Replies
BY RepliesAssumption DEF Replies, Answers, NoReply

(* The bus as it is after the steps of the delivery.                       *)
LEMMA GatheredRow ==
  ASSUME NEW b \in BusRow
  PROVE  /\ Gathered(b) \in BusRow
         /\ \/ Gathered(b) = Idle /\ b.delivery = "none" /\ b.addressed = {}
            \/ Gathered(b) = b
BY BusRows DEF Gathered

LEMMA FlowUnmoved ==
  ASSUME FlowInv, WsInv', UNCHANGED <<process, starts, busVars, failures>>
  PROVE  FlowInv'
BY DEF FlowInv, FlowTypes, ProcessFits, BusFits, busVars

(* A step of the handlers: the bus goes on with its event or is free.      *)
LEMMA HandlersKeepFlow ==
  ASSUME FlowInv, WsInv', UNCHANGED <<process, starts, published, queue, leftovers, persisted>>,
         files' \in {files, files \ {bus.reply}}, failures' \in Nat,
         bus.stage = "handled" \/ bus = Taken(bus.reply), process = "server", bus.stage # "idle",
         bus' = Idle \/ (/\ bus' \in BusRow /\ bus'.stage = "handled" /\ bus'.reply = bus.reply
                         /\ bus'.delivery # "none" => ~NoChannel(bus.reply))
  PROVE  FlowInv'
<1>1. bus.reply \notin leftovers /\ leftovers \subseteq files'
  BY DEF FlowInv, BusFits, FlowTypes
<1>2. FlowTypes'
  BY <1>1, BusRows DEF FlowInv, FlowTypes
<1>3. ProcessFits'
  BY DEF FlowInv, ProcessFits
<1>4. BusFits'
  <2>1. CASE bus' = Idle
    BY <2>1, BusRows DEF FlowInv, BusFits
  <2>2. CASE bus' # Idle
    BY <2>2 DEF FlowInv, BusFits
  <2>. QED BY <2>1, <2>2
<1>. QED BY <1>2, <1>3, <1>4 DEF FlowInv

LEMMA EndKeepsFlow == FlowInv /\ End => FlowInv'
<1>. SUFFICES ASSUME FlowInv, End PROVE FlowInv'
  OBVIOUS
<1>1. WsInv'
  BY HangUpKeeps DEF End
<1>2. FlowTypes'
  BY BusRows DEF FlowInv, FlowTypes, End, tgVars
<1>3. ProcessFits'
  BY DEF FlowInv, ProcessFits, End
<1>4. BusFits'
  BY EmptyQueue, BusRows DEF BusFits, End
<1>. QED BY <1>1, <1>2, <1>3, <1>4 DEF FlowInv

LEMMA PublishKeepsFlow ==
  ASSUME FlowInv, WsInv', NEW r \in Replies \ published, Publish(r), process # "down",
         UNCHANGED <<procVars, failures>>
  PROVE  FlowInv'
<1>. USE DEF procVars, Publish
<1>1. /\ queue' \in Seq(Replies) /\ Distinct(queue')
      /\ \A x : In(x, queue') <=> In(x, queue) \/ x = r
  BY Pushed, r \in Replies DEF FlowInv, FlowTypes, BusFits
<1>2. FlowTypes'
  BY <1>1 DEF FlowInv, FlowTypes
<1>3. ProcessFits' /\ BusFits'
  BY <1>1 DEF FlowInv, FlowTypes, ProcessFits, BusFits
<1>. QED BY <1>2, <1>3 DEF FlowInv

(* What the bus takes leaves the queue.                                    *)
LEMMA TakeKeepsFlow ==
  ASSUME FlowInv, WsInv', NEW r \in Replies, Take(r) \/ TakeFails(r)
  PROVE  FlowInv'
<1>. USE DEF procVars, Take, TakeFails
<1>0. queue \in Seq(Replies) /\ queue # <<>> /\ Head(queue) = r
  BY DEF FlowInv, FlowTypes
<1>1. /\ queue' \in Seq(Replies) /\ Distinct(queue') /\ In(r, queue)
      /\ \A x : In(x, queue') => In(x, queue) /\ x # r
  <2>1. queue' = Tail(queue) /\ Distinct(queue)
    BY DEF FlowInv, BusFits
  <2>2. /\ Tail(queue) \in Seq(Replies) /\ In(r, queue)
        /\ \A x : In(x, queue) <=> x = r \/ In(x, Tail(queue))
        /\ Distinct(Tail(queue)) /\ ~In(r, Tail(queue))
    BY <1>0, <2>1, Popped
  <2>. QED BY <2>1, <2>2
<1>2. r \in published \ persisted /\ process # "down" /\ failures' \in Nat
  <2>1. failures' \in Nat
    BY DEF FlowInv, FlowTypes, tgVars
  <2>. QED BY <1>0, <1>1, <2>1 DEF FlowInv, ProcessFits, BusFits
<1>3. CASE Take(r)
  <2>1. FlowTypes'
    BY <1>1, <1>2, <1>3, BusRows DEF FlowInv, FlowTypes
  <2>2. ProcessFits' /\ BusFits'
    BY <1>1, <1>2, <1>3, BusRows DEF FlowInv, FlowTypes, ProcessFits, BusFits
  <2>. QED BY <2>1, <2>2 DEF FlowInv
<1>4. CASE TakeFails(r)
  <2>1. FlowTypes'
    BY <1>1, <1>2, <1>4 DEF FlowInv, FlowTypes
  <2>2. ProcessFits' /\ BusFits'
    BY <1>1, <1>2, <1>4 DEF FlowInv, FlowTypes, ProcessFits, BusFits
  <2>. QED BY <2>1, <2>2 DEF FlowInv
<1>. QED BY <1>3, <1>4

LEMMA RecoverKeepsFlow ==
  ASSUME FlowInv, WsInv', NEW r \in Replies, Recover(r)
  PROVE  FlowInv'
<1>. USE DEF procVars, Recover, tgVars
<1>1. r \in files /\ r \in persisted
  BY DEF FlowInv, FlowTypes
<1>2. FlowTypes'
  BY <1>1, BusRows DEF FlowInv, FlowTypes
<1>3. ProcessFits' /\ BusFits'
  BY <1>1, BusRows DEF FlowInv, FlowTypes, ProcessFits, BusFits
<1>. QED BY <1>2, <1>3 DEF FlowInv

(* The server's handlers.                                                  *)
LEMMA NotifyKeepsFlow ==
  ASSUME FlowInv, WsInv', NEW r \in Replies, Notify(r)
  PROVE  FlowInv'
<1>. USE DEF Notify
<1>1. bus = Taken(r) /\ bus.reply = r /\ bus.stage = "taken"
  BY BusRows
<1>2. PICK b : /\ bus' = Gathered(b)
               /\ b = [bus EXCEPT !.stage = "handled",
                         !.delivery = IF NoChannel(r) \/ NoAddress(r) THEN "none" ELSE "sending",
                         !.addressed = BoundTo(Home[r], r \in Notices)]
  OBVIOUS
<1>3. BoundTo(Home[r], r \in Notices) \in SUBSET Clients
  BY WebSocketsAssumption DEF BoundTo, FlowInv, WsInv, WsTypes
<1>4. b \in BusRow /\ b.stage = "handled" /\ b.reply = r /\ (b.delivery # "none" => ~NoChannel(r))
  <2>1. bus \in BusRow
    BY DEF FlowInv, FlowTypes
  <2>. QED BY <1>1, <1>2, <1>3, <2>1 DEF BusRow
<1>5. files' \in {files, files \ {bus.reply}} /\ failures' \in Nat
  BY <1>1 DEF tgVars, FlowInv, FlowTypes
<1>6. bus' = Idle \/ bus' = b
  BY <1>2, <1>4, GatheredRow
<1>. QED BY <1>1, <1>4, <1>5, <1>6, HandlersKeepFlow

LEMMA RetryRow ==
  ASSUME NEW b \in BusRow, NEW c, c = [b EXCEPT !.tries = b.tries + 1, !.sent = 0]
  PROVE  /\ c \in BusRow /\ c.stage = b.stage /\ c.reply = b.reply
         /\ c.delivery = b.delivery /\ c.sent = 0
<1>1. PICK d : d = [b EXCEPT !.tries = b.tries + 1]
  OBVIOUS
<1>2. b.tries + 1 \in Nat
  BY DEF BusRow
<1>3. d \in BusRow /\ d.stage = b.stage /\ d.reply = b.reply /\ d.delivery = b.delivery
  BY <1>1, <1>2 DEF BusRow
<1>4. c = [d EXCEPT !.sent = 0]
  BY <1>1
<1>. QED BY <1>3, <1>4 DEF BusRow

LEMMA ReplyKeepsFlow ==
  ASSUME FlowInv, WsInv', NEW r \in Replies, Reply(r) \/ ReplyFails(r) \/ Ack(r)
  PROVE  FlowInv'
<1>. USE DEF Reply, ReplyFails, Ack, procVars
<1>1. bus \in BusRow /\ bus.reply = r /\ bus.delivery # "none"
  BY DEF FlowInv, FlowTypes
<1>2. process = "server" /\ bus.stage = "handled" /\ ~NoChannel(r)
  BY <1>1 DEF FlowInv, BusFits
<1>3. files' \in {files, files \ {bus.reply}} /\ failures' \in Nat
  BY <1>1 DEF tgVars, FlowInv, FlowTypes
<1>4. CASE Reply(r)
  <2>1. bus' \in BusRow /\ bus'.stage = "handled" /\ bus'.reply = r
    BY <1>1, <1>2, <1>4 DEF BusRow
  <2>. QED BY <1>1, <1>2, <1>3, <1>4, <2>1, HandlersKeepFlow
<1>5. CASE ReplyFails(r)
  <2>1. bus' \in BusRow /\ bus'.stage = "handled" /\ bus'.reply = r
    <3>1. CASE bus' = [bus EXCEPT !.tries = bus.tries + 1, !.sent = 0]
      BY <1>1, <1>2, <3>1, RetryRow
    <3>2. CASE bus' = [bus EXCEPT !.delivery = "dropping"]
      BY <1>1, <1>2, <3>2 DEF BusRow
    <3>. QED BY <1>5, <3>1, <3>2
  <2>. QED BY <1>1, <1>2, <1>3, <1>5, <2>1, HandlersKeepFlow
<1>6. CASE Ack(r)
  <2>1. PICK b : bus' = Gathered(b) /\ b = [bus EXCEPT !.delivery = "none"]
    BY <1>6
  <2>2. b \in BusRow /\ b.stage = "handled" /\ b.reply = r /\ b.delivery = "none"
    BY <1>1, <1>2, <2>1 DEF BusRow
  <2>3. bus' = Idle \/ bus' = b
    BY <2>1, <2>2, GatheredRow
  <2>. QED BY <1>1, <1>2, <1>3, <1>6, <2>2, <2>3, HandlersKeepFlow
<1>. QED BY <1>4, <1>5, <1>6

LEMMA SendKeepsFlow ==
  ASSUME FlowInv, WsInv', NEW c \in Clients, Send(c) \/ SendFails(c)
  PROVE  FlowInv'
<1>. USE DEF Send, SendFails
<1>1. bus \in BusRow /\ process = "server" /\ bus.stage = "handled"
  BY DEF FlowInv, FlowTypes, BusFits
<1>2. PICK b : bus' = Gathered(b) /\ b = [bus EXCEPT !.addressed = bus.addressed \ {c}]
  OBVIOUS
<1>3. /\ b \in BusRow /\ b.stage = "handled" /\ b.reply = bus.reply
      /\ b.delivery # "none" => ~NoChannel(bus.reply)
  BY <1>1, <1>2 DEF BusRow, FlowInv, BusFits
<1>4. bus' = Idle \/ bus' = b
  BY <1>2, <1>3, GatheredRow
<1>5. files' \in {files, files \ {bus.reply}} /\ failures' \in Nat
  BY DEF tgVars, FlowInv, FlowTypes
<1>. QED BY <1>1, <1>3, <1>4, <1>5, HandlersKeepFlow

LEMMA OutboundKeepsFlow ==
  ASSUME FlowInv, WsInv', NEW r \in Replies, HandleOutbound(r)
  PROVE  FlowInv'
<1>. USE DEF HandleOutbound, procVars, tgVars
<1>1. bus.reply = r /\ bus.stage = "taken" /\ r \notin leftovers
  BY BusRows DEF FlowInv, BusFits
<1>2. FlowTypes'
  BY <1>1, BusRows DEF FlowInv, FlowTypes
<1>3. ProcessFits' /\ BusFits'
  BY <1>1, BusRows DEF FlowInv, FlowTypes, ProcessFits, BusFits
<1>. QED BY <1>2, <1>3 DEF FlowInv

LEMMA FlowStep == FlowInv /\ [Next]_vars => FlowInv'
<1>. SUFFICES ASSUME FlowInv, [Next]_vars PROVE FlowInv'
  OBVIOUS
<1>0. WsInv'
  BY WsStepKeeps DEF FlowInv
<1>1. ASSUME NEW kind \in {"server", "chat"}, Start(kind) PROVE FlowInv'
  <2>1. FlowTypes'
    BY <1>1 DEF Start, tgVars, FlowInv, FlowTypes
  <2>2. ProcessFits'
    BY <1>1 DEF Start, FlowInv, FlowTypes, ProcessFits
  <2>3. BusFits'
    BY <1>1, BusRows DEF Start, FlowInv, ProcessFits, BusFits
  <2>. QED BY <1>0, <2>1, <2>2, <2>3 DEF FlowInv
<1>2. CASE SetDefault
  BY <1>0, <1>2, FlowUnmoved DEF SetDefault, tgVars
<1>3. ASSUME NEW r \in Others, PublishOther(r) PROVE FlowInv'
  BY <1>0, <1>3, PublishKeepsFlow DEF PublishOther, tgVars, Replies
<1>4. ASSUME NEW q \in Answers, PublishAnswer(q) PROVE FlowInv'
  BY <1>0, <1>4, PublishKeepsFlow DEF PublishAnswer, tgVars, Replies
<1>5. ASSUME NEW r \in Replies, Dispatch(r) PROVE FlowInv'
  BY <1>0, <1>5, TakeKeepsFlow, RecoverKeepsFlow, NotifyKeepsFlow, OutboundKeepsFlow,
     ReplyKeepsFlow DEF Dispatch
<1>6. ASSUME NEW c \in Clients, Send(c) \/ SendFails(c) PROVE FlowInv'
  BY <1>0, <1>6, SendKeepsFlow
<1>7. ASSUME NEW c \in Clients, Connection(c) PROVE FlowInv'
  BY <1>0, <1>7, FlowUnmoved DEF Connection, procVars, tgVars
<1>8. CASE Ask \/ Show \/ Timeout
  BY <1>0, <1>8, FlowUnmoved DEF Ask, Show, Timeout, procVars, tgVars
<1>9. CASE UNCHANGED vars
  BY <1>0, <1>9, FlowUnmoved DEF vars, procVars, tgVars
<1>. QED
  BY <1>1, <1>2, <1>3, <1>4, <1>5, <1>6, <1>7, <1>8, <1>9, EndKeepsFlow DEF Next, BusStep

LEMMA FlowStarts == Init => FlowInv
BY WsInitHolds, EmptyQueue, BusRows DEF Init, FlowInv, FlowTypes, ProcessFits, BusFits

-----------------------------------------------------------------------------
(* What arrives.                                                           *)
ArrivalTypes ==
  /\ arrivals \in [Replies -> Nat]
  /\ arriving \in [reply : Replies \cup {NoReply}, upto : Nat]
  /\ responses \in Seq(Replies) /\ fate \in [Replies -> SUBSET Fates]

(* DeliveryWorker stands where the platform does, and a reply that is all  *)
(* sent has arrived.                                                       *)
InStep ==
  /\ arriving.reply # NoReply => arriving.upto > 0
  /\ bus.delivery = "sending" =>
       /\ bus.sent <= Chunks[bus.reply]
       /\ bus.sent > 0 => arriving = [reply |-> bus.reply, upto |-> bus.sent]
       /\ bus.sent = Chunks[bus.reply] => bus.reply \in whole
  /\ bus.delivery = "dropping" => bus.reply \in dropped

(* About to be begun again: every start and every failure allows it once.  *)
ToBegin(r) ==
  \/ r \in leftovers
  \/ bus.reply = r /\ (bus.stage = "taken" \/ (bus.delivery = "sending" /\ bus.sent = 0))

Budget ==
  \A r \in Replies :
    /\ arrivals[r] <= starts + failures
    /\ ToBegin(r) => arrivals[r] < starts + failures
    /\ arrivals[r] > 0 => r \in persisted

(* An acknowledged reply of Telegram, of the chat and of a WebSocket       *)
(* client.                                                                 *)
Seen(r) == r \in printed \/ In(r, responses) \/ "unread" \in fate[r]
Sent(r) == fate[r] \cap {"nobody", "reached", "refused", "cut"} # {}
OnTelegram(r) == Home[r] \in {"telegram", "cron"} => r \in whole \cup dropped \/ Seen(r)
OnScreen(r) == Home[r] = "cli" => "nobody" \in fate[r] \/ Seen(r)
OnSocket(r) ==
  Home[r] \in Sources => Sent(r) \/ (bus.reply = r /\ bus.addressed # {}) \/ Seen(r)
Acknowledged == \A r \in persisted \ files : OnTelegram(r) /\ OnScreen(r) /\ OnSocket(r)

ArrivalInv == ArrivalTypes /\ InStep /\ Budget /\ Acknowledged

LEMMA RangeIsIn == \A s, x : x \in Range(s) <=> In(x, s)
BY DEF Range, In

(* Nothing that came to somebody is forgotten.                             *)
LEMMA AcknowledgedStays ==
  ASSUME Acknowledged, persisted' \subseteq Replies,
         printed \subseteq printed', whole \subseteq whole', dropped \subseteq dropped',
         \A q \in Replies : fate[q] \subseteq fate'[q],
         \A q \in Replies : In(q, responses) => Seen(q)',
         \A q \in Replies : bus.reply = q /\ bus.addressed # {} /\ Home[q] \in Sources =>
            (bus'.reply = q /\ bus'.addressed # {}) \/ Sent(q)',
         \A q \in persisted' \ files' :
            q \in persisted \ files \/ (OnTelegram(q) /\ OnScreen(q) /\ OnSocket(q))'
  PROVE  Acknowledged'
<1>. SUFFICES ASSUME NEW q \in persisted \ files, q \in Replies
     PROVE  (OnTelegram(q) /\ OnScreen(q) /\ OnSocket(q))'
  BY DEF Acknowledged
<1>1. OnTelegram(q) /\ OnScreen(q) /\ OnSocket(q)
  BY DEF Acknowledged
<1>2. Seen(q) => Seen(q)'
  BY DEF Seen
<1>3. Sent(q) => Sent(q)'
  BY DEF Sent
<1>4. OnTelegram(q)'
  BY <1>1, <1>2 DEF OnTelegram
<1>5. OnScreen(q)'
  BY <1>1, <1>2 DEF OnScreen
<1>6. OnSocket(q)'
  BY <1>1, <1>2, <1>3 DEF OnSocket
<1>. QED BY <1>4, <1>5, <1>6

LEMMA BefallsAdds ==
  ASSUME fate \in [Replies -> SUBSET Fates], NEW f \in Fates, NEW rs, fate' = Befalls(f, rs)
  PROVE  /\ fate' \in [Replies -> SUBSET Fates]
         /\ \A q \in Replies : fate[q] \subseteq fate'[q]
         /\ \A q \in Replies : q \in rs => f \in fate'[q]
BY DEF Befalls

(* The queue, the chat and the tables are no matter to the platform.       *)
LEMMA ArrivalsUnmoved ==
  ASSUME ArrivalInv, FlowInv, UNCHANGED <<starts, leftovers, bus, persisted, files, tgVars, fate>>,
         responses' \in Seq(Replies), printed \subseteq printed',
         \A x : In(x, responses) => In(x, responses') \/ x \in printed'
  PROVE  ArrivalInv'
<1>. USE DEF tgVars
<1>1. ArrivalTypes' /\ InStep' /\ Budget'
  BY DEF ArrivalInv, ArrivalTypes, InStep, Budget, ToBegin
<1>2. Acknowledged'
  <2>1. persisted \subseteq Replies
    BY DEF FlowInv, FlowTypes
  <2>. QED BY <2>1, AcknowledgedStays DEF ArrivalInv, Seen
<1>. QED BY <1>1, <1>2 DEF ArrivalInv

LEMMA GrowingSum ==
  ASSUME NEW a \in Nat, NEW s \in Nat, NEW f \in Nat, NEW t \in Nat, NEW g \in Nat,
         s <= t, f <= g, a < s + f
  PROVE  a < t + g
OBVIOUS

LEMMA GrownSum ==
  ASSUME NEW a \in Nat, NEW s \in Nat, NEW f \in Nat, NEW t \in Nat, NEW g \in Nat,
         a <= s + f
  PROVE  /\ s + f < t + g => a < t + g
         /\ s <= t /\ f <= g => a <= t + g
OBVIOUS

(* Nothing arrives; what is begun anew has been allowed for.               *)
LEMMA NothingArrives ==
  ASSUME ArrivalInv, FlowInv, UNCHANGED <<arriving, arrivals, whole>>,
         responses' \in Seq(Replies), fate' \in [Replies -> SUBSET Fates],
         bus'.delivery = "sending" =>
           /\ bus.delivery = "sending" => bus'.sent \in {0, bus.sent}
           /\ bus.delivery # "sending" => bus'.sent = 0
           /\ bus'.reply = bus.reply /\ bus.reply \in Replies,
         bus'.delivery = "dropping" => bus'.reply \in dropped',
         starts' \in Nat, failures' \in Nat, starts <= starts', failures <= failures',
         persisted \subseteq persisted',
         \A r \in Replies : ToBegin(r)' =>
            ToBegin(r) \/ starts + failures < starts' + failures' \/ (r \notin persisted /\ starts > 0),
         Acknowledged'
  PROVE  ArrivalInv'
<1>1. ArrivalTypes'
  BY DEF ArrivalInv, ArrivalTypes
<1>2. InStep'
  BY RepliesAssumption DEF ArrivalInv, InStep
<1>3. Budget'
  <2>. SUFFICES ASSUME NEW r \in Replies
       PROVE  /\ arrivals[r] <= starts' + failures'
              /\ ToBegin(r)' => arrivals[r] < starts' + failures'
              /\ arrivals[r] > 0 => r \in persisted'
    BY DEF Budget
  <2>1. arrivals[r] \in Nat /\ starts \in Nat /\ failures \in Nat
    BY DEF ArrivalInv, ArrivalTypes, FlowInv, FlowTypes
  <2>2. /\ arrivals[r] <= starts + failures
        /\ ToBegin(r) => arrivals[r] < starts + failures
        /\ arrivals[r] > 0 => r \in persisted
    BY DEF ArrivalInv, Budget
  <2>3. /\ starts + failures < starts' + failures' => arrivals[r] < starts' + failures'
        /\ arrivals[r] <= starts' + failures'
    BY <2>1, <2>2, GrownSum
  <2>4. ASSUME ToBegin(r)' PROVE arrivals[r] < starts' + failures'
    <3>1. ToBegin(r) \/ starts + failures < starts' + failures' \/ (r \notin persisted /\ starts > 0)
      BY <2>4
    <3>2. r \notin persisted /\ starts > 0 => arrivals[r] < starts + failures
      BY <2>1, <2>2
    <3>3. CASE starts + failures < starts' + failures'
      BY <2>3, <3>3
    <3>4. CASE arrivals[r] < starts + failures
      BY <2>1, <3>4, GrowingSum
    <3>. QED BY <2>2, <3>1, <3>2, <3>3, <3>4
  <2>. QED BY <2>2, <2>3, <2>4
<1>. QED BY <1>1, <1>2, <1>3 DEF ArrivalInv

LEMMA StartKeepsArrivals ==
  ASSUME ArrivalInv, FlowInv, NEW kind \in {"server", "chat"}, Start(kind)
  PROVE  ArrivalInv'
<1>. USE DEF Start, tgVars, chatVars
<1>1. bus = Idle /\ starts \in Nat /\ failures \in Nat
  BY DEF FlowInv, FlowTypes, ProcessFits
<1>2. Acknowledged'
  <2>1. persisted \subseteq Replies
    BY DEF FlowInv, FlowTypes
  <2>. QED BY <2>1, AcknowledgedStays DEF ArrivalInv, Seen
<1>3. responses' \in Seq(Replies) /\ fate' \in [Replies -> SUBSET Fates]
  BY DEF ArrivalInv, ArrivalTypes
<1>4. starts' \in Nat /\ failures' \in Nat /\ starts + failures < starts' + failures'
  BY <1>1
<1>5. bus' = bus /\ bus'.delivery = "none"
  BY <1>1, BusRows
<1>. QED BY <1>1, <1>2, <1>3, <1>4, <1>5, NothingArrives

LEMMA EndKeepsArrivals ==
  ASSUME ArrivalInv, FlowInv, End
  PROVE  ArrivalInv'
<1>. USE DEF End, tgVars
<1>1. starts \in Nat /\ failures \in Nat
  BY DEF FlowInv, FlowTypes
<1>2. Acknowledged'
  <2>1. persisted \subseteq Replies /\ fate \in [Replies -> SUBSET Fates]
    BY DEF FlowInv, FlowTypes, ArrivalInv, ArrivalTypes
  <2>2. \A q \in Replies :
          /\ fate[q] \subseteq fate'[q]
          /\ q \in Range(responses) => "unread" \in fate'[q]
          /\ q = bus.reply /\ bus.addressed # {} => "cut" \in fate'[q]
    BY <2>1
  <2>3. \A q \in Replies : In(q, responses) => Seen(q)'
    BY <2>2, RangeIsIn DEF Seen
  <2>4. \A q \in Replies : bus.reply = q /\ bus.addressed # {} => Sent(q)'
    BY <2>2 DEF Sent
  <2>. QED BY <2>1, <2>2, <2>3, <2>4, AcknowledgedStays DEF ArrivalInv
<1>3. responses' \in Seq(Replies) /\ fate' \in [Replies -> SUBSET Fates]
  BY DEF ArrivalInv, ArrivalTypes, Fates
<1>4. bus'.delivery = "none" /\ \A r \in Replies : ~ToBegin(r)'
  BY BusRows, NoReplyIsNone DEF ToBegin
<1>. QED BY <1>1, <1>2, <1>3, <1>4, NothingArrives

LEMMA TakeKeepsArrivals ==
  ASSUME ArrivalInv, FlowInv, NEW r \in Replies, Take(r) \/ TakeFails(r) \/ Recover(r)
  PROVE  ArrivalInv'
<1>. USE DEF Take, TakeFails, Recover, tgVars, chatVars, procVars
<1>0. starts \in Nat /\ failures \in Nat /\ queue \in Seq(Replies)
  BY DEF FlowInv, FlowTypes
<1>1. starts' \in Nat /\ failures' \in Nat /\ starts <= starts' /\ failures <= failures'
  BY <1>0
<1>2. /\ responses' = responses /\ responses \in Seq(Replies)
      /\ fate' = fate /\ fate \in [Replies -> SUBSET Fates]
  BY DEF ArrivalInv, ArrivalTypes
<1>3. bus'.delivery = "none"
  BY BusRows
<1>a. /\ Acknowledged /\ persisted \subseteq Replies /\ bus = Idle /\ printed' = printed
      /\ bus.addressed = {} /\ whole' = whole /\ dropped' = dropped
      /\ persisted' \ files' \subseteq persisted \ files /\ persisted' \subseteq Replies
  <2>1. bus = Idle /\ bus.addressed = {}
    BY BusRows
  <2>2. persisted \subseteq Replies /\ Acknowledged
    BY DEF FlowInv, FlowTypes, ArrivalInv
  <2>. QED BY <2>1, <2>2
<1>b. Acknowledged'
  <2>1. persisted' \subseteq Replies
    BY <1>a
  <2>2. \A q \in Replies : In(q, responses) => Seen(q)'
    BY <1>2 DEF Seen
  <2>. QED BY <1>2, <1>a, <2>1, <2>2, AcknowledgedStays
<1>4. CASE Take(r)
  <2>1. In(r, queue) /\ r \notin persisted /\ starts > 0
    BY <1>0, <1>4, Popped DEF FlowInv, BusFits, ProcessFits
  <2>2. \A q \in Replies : ToBegin(q)' => ToBegin(q) \/ q = r
    BY <1>4, BusRows DEF ToBegin
  <2>. QED BY <1>1, <1>2, <1>3, <1>4, <1>b, <2>1, <2>2, NothingArrives
<1>5. CASE TakeFails(r)
  <2>1. \A q \in Replies : ToBegin(q)' => ToBegin(q)
    BY <1>5 DEF ToBegin
  <2>. QED BY <1>1, <1>2, <1>3, <1>5, <1>b, <2>1, BusRows, NothingArrives
<1>6. CASE Recover(r)
  <2>1. \A q \in Replies : ToBegin(q)' => ToBegin(q)
    BY <1>6, BusRows DEF ToBegin
  <2>. QED BY <1>1, <1>2, <1>3, <1>6, <1>b, <2>1, NothingArrives
<1>. QED BY <1>4, <1>5, <1>6

(* Both handlers of the server begin.                                      *)
LEMMA NotifyKeepsArrivals ==
  ASSUME ArrivalInv, FlowInv, NEW r \in Replies, Notify(r)
  PROVE  ArrivalInv'
<1>. USE DEF Notify, tgVars, chatVars, procVars
<1>1. bus = Taken(r) /\ bus.reply = r /\ bus.stage = "taken" /\ bus.sent = 0
      /\ bus.delivery = "none" /\ bus \in BusRow
  BY BusRows
<1>2. PICK b : /\ bus' = Gathered(b)
               /\ b = [bus EXCEPT !.stage = "handled",
                         !.delivery = IF NoChannel(r) \/ NoAddress(r) THEN "none" ELSE "sending",
                         !.addressed = BoundTo(Home[r], r \in Notices)]
  OBVIOUS
<1>3. b.stage = "handled" /\ b.reply = r /\ b.sent = 0 /\ b.delivery \in {"none", "sending"}
  BY <1>1, <1>2 DEF BusRow
<1>4. bus' = Idle \/ bus' = b
  BY <1>2 DEF Gathered
<1>5. Acknowledged'
  <2>1. /\ persisted \subseteq Replies /\ fate \in [Replies -> SUBSET Fates] /\ Acknowledged
        /\ bus.addressed = {}
    BY <1>1, BusRows DEF FlowInv, FlowTypes, ArrivalInv, ArrivalTypes
  <2>2. \A q \in Replies : fate[q] \subseteq fate'[q]
    BY <2>1, BefallsAdds DEF Fates
  <2>3. \A q \in Replies : In(q, responses) => Seen(q)'
    BY DEF Seen
  <2>4. ASSUME NoChannel(r)
        PROVE  (OnTelegram(r) /\ OnScreen(r) /\ OnSocket(r))'
    <3>1. Home[r] \notin {"telegram", "cron"}
      BY <2>4, RepliesAssumption DEF NoChannel
    <3>2. CASE BoundTo(Home[r], r \in Notices) = {}
      <4>1. "nobody" \in fate'[r]
        BY <2>1, <2>4, <3>2, BefallsAdds DEF Fates
      <4>. QED BY <3>1, <4>1 DEF OnTelegram, OnScreen, OnSocket, Sent
    <3>3. CASE BoundTo(Home[r], r \in Notices) # {}
      <4>1. Home[r] \in Sources /\ Home[r] # "cli"
        BY <3>3, RepliesAssumption DEF BoundTo
      <4>2. b.addressed # {}
        BY <1>1, <1>2, <3>3 DEF BusRow
      <4>3. bus' = b
        BY <1>2, <4>2 DEF Gathered
      <4>. QED BY <1>3, <3>1, <4>1, <4>2, <4>3 DEF OnTelegram, OnScreen, OnSocket
    <3>. QED BY <3>2, <3>3
  <2>5. \A q \in persisted' \ files' :
          q \in persisted \ files \/ (OnTelegram(q) /\ OnScreen(q) /\ OnSocket(q))'
    BY <2>4
  <2>. QED BY <2>1, <2>2, <2>3, <2>5, AcknowledgedStays
<1>6. \A q \in Replies : ToBegin(q)' => ToBegin(q)
  BY <1>1, <1>3, <1>4, BusRows, NoReplyIsNone DEF ToBegin
<1>7. starts \in Nat /\ failures \in Nat
  BY DEF FlowInv, FlowTypes
<1>8. /\ responses' = responses /\ responses \in Seq(Replies)
      /\ fate' \in [Replies -> SUBSET Fates]
  BY BefallsAdds DEF ArrivalInv, ArrivalTypes, Fates
<1>9. /\ bus'.delivery # "dropping"
      /\ bus'.delivery = "sending" => bus'.sent = 0 /\ bus'.reply = bus.reply
  BY <1>1, <1>3, <1>4, BusRows
<1>10. /\ UNCHANGED <<arriving, arrivals, whole, starts, failures, persisted>>
       /\ bus.reply \in Replies
  BY <1>1
<1>. HIDE DEF Notify
<1>. QED BY <1>1, <1>5, <1>6, <1>7, <1>8, <1>9, <1>10, NothingArrives

(* The next chunk.                                                         *)
LEMMA ReplyKeepsArrivals ==
  ASSUME ArrivalInv, FlowInv, NEW r \in Replies, Reply(r)
  PROVE  ArrivalInv'
<1>. USE DEF Reply, chatVars, procVars
<1>1. PICK k : k = bus.sent + 1
  OBVIOUS
<1>2. /\ bus \in BusRow /\ bus.reply = r /\ bus.delivery = "sending" /\ bus.stage = "handled"
      /\ k \in Nat /\ k > 0 /\ k <= Chunks[r] /\ process = "server" /\ Chunks[r] \in Nat
  BY <1>1, RepliesAssumption DEF FlowInv, FlowTypes, BusFits, BusRow
<1>3. bus' \in BusRow /\ bus'.reply = r /\ bus'.sent = k /\ bus'.delivery = "sending"
      /\ bus'.stage = "handled"
  BY <1>1, <1>2 DEF BusRow
<1>4. k > 1 => arriving = [reply |-> r, upto |-> k - 1]
  BY <1>1, <1>2 DEF ArrivalInv, InStep, BusRow
<1>5. /\ arriving' = [reply |-> r, upto |-> k]
      /\ arrivals' = IF k = 1 THEN [arrivals EXCEPT ![r] = @ + 1] ELSE arrivals
      /\ whole' = IF k = Chunks[r] THEN whole \cup {r} ELSE whole
  BY <1>1, <1>2, <1>4 DEF Arrives
<1>6. ArrivalTypes'
  <2>1. arrivals' \in [Replies -> Nat]
    BY <1>5 DEF ArrivalInv, ArrivalTypes
  <2>2. arriving' \in [reply : Replies \cup {NoReply}, upto : Nat]
    BY <1>2, <1>5
  <2>. QED BY <2>1, <2>2 DEF ArrivalInv, ArrivalTypes
<1>7. InStep'
  BY <1>2, <1>3, <1>5 DEF InStep
<1>8. Budget'
  <2>. SUFFICES ASSUME NEW q \in Replies
       PROVE  /\ arrivals'[q] <= starts + failures
              /\ ToBegin(q)' => arrivals'[q] < starts + failures
              /\ arrivals'[q] > 0 => q \in persisted
    BY DEF Budget
  <2>1. arrivals[q] \in Nat /\ starts \in Nat /\ failures \in Nat
    BY DEF ArrivalInv, ArrivalTypes, FlowInv, FlowTypes
  <2>2. ToBegin(q)' => q \in leftovers
    BY <1>2, <1>3 DEF ToBegin
  <2>3. r \in persisted \ leftovers
    BY <1>2 DEF FlowInv, BusFits
  <2>4. k = 1 => ToBegin(r)
    BY <1>1, <1>2 DEF ToBegin, BusRow
  <2>5. /\ arrivals[q] <= starts + failures
        /\ ToBegin(q) => arrivals[q] < starts + failures
        /\ arrivals[q] > 0 => q \in persisted
    BY DEF ArrivalInv, Budget
  <2>6. q \in leftovers => ToBegin(q)
    BY DEF ToBegin
  <2>7. CASE q = r /\ k = 1
    <3>1. arrivals'[q] = arrivals[q] + 1
      BY <1>5, <2>7 DEF ArrivalInv, ArrivalTypes
    <3>. QED BY <3>1, <2>1, <2>2, <2>3, <2>4, <2>5, <2>7
  <2>8. CASE ~(q = r /\ k = 1)
    <3>1. arrivals'[q] = arrivals[q]
      BY <1>5, <2>8 DEF ArrivalInv, ArrivalTypes
    <3>. QED BY <3>1, <2>2, <2>5, <2>6
  <2>. QED BY <2>7, <2>8
<1>9. Acknowledged'
  <2>1. persisted \subseteq Replies /\ Acknowledged
    BY DEF FlowInv, FlowTypes, ArrivalInv
  <2>2. bus'.addressed = bus.addressed
    BY <1>2 DEF BusRow
  <2>3. whole \subseteq whole'
    BY <1>5
  <2>4. \A q \in Replies : In(q, responses) => Seen(q)'
    BY DEF Seen
  <2>. QED BY <1>2, <1>3, <2>1, <2>2, <2>3, <2>4, AcknowledgedStays
<1>. QED BY <1>6, <1>7, <1>8, <1>9 DEF ArrivalInv

(* A failure, and the end of the delivery.                                 *)
LEMMA FailureKeepsArrivals ==
  ASSUME ArrivalInv, FlowInv, NEW r \in Replies, ReplyFails(r)
  PROVE  ArrivalInv'
<1>. USE DEF ReplyFails, chatVars, procVars
<1>1. bus \in BusRow /\ bus.reply = r /\ bus.delivery = "sending" /\ bus.stage = "handled"
  BY DEF FlowInv, FlowTypes, BusFits
<1>2. starts \in Nat /\ failures \in Nat /\ failures' = failures + 1
  BY DEF FlowInv, FlowTypes
<1>3. /\ responses' = responses /\ responses \in Seq(Replies)
      /\ fate' \in [Replies -> SUBSET Fates]
      /\ UNCHANGED <<arriving, arrivals, whole, starts, persisted>>
  BY DEF ArrivalInv, ArrivalTypes
<1>4. Acknowledged'
  <2>1. persisted \subseteq Replies /\ Acknowledged /\ Home[bus.reply] \notin Sources
    BY <1>1 DEF FlowInv, FlowTypes, BusFits, NoChannel, ArrivalInv
  <2>2. \A q \in Replies : In(q, responses) => Seen(q)'
    BY DEF Seen
  <2>3. dropped \subseteq dropped'
    OBVIOUS
  <2>. QED BY <2>1, <2>2, <2>3, AcknowledgedStays
<1>5. CASE bus' = [bus EXCEPT !.tries = bus.tries + 1, !.sent = 0]
  <2>1. bus'.delivery = "sending" /\ bus'.sent = 0 /\ bus'.reply = r
    BY <1>1, <1>5, RetryRow
  <2>. QED BY <1>1, <1>2, <1>3, <1>4, <2>1, NothingArrives
<1>6. CASE bus' = [bus EXCEPT !.delivery = "dropping"] /\ dropped' = dropped \cup {r}
  <2>1. bus'.delivery = "dropping" /\ bus'.reply = r
    BY <1>1, <1>6 DEF BusRow
  <2>. QED BY <1>2, <1>3, <1>4, <1>6, <2>1, NothingArrives
<1>. QED BY <1>5, <1>6

LEMMA AckKeepsArrivals ==
  ASSUME ArrivalInv, FlowInv, NEW r \in Replies, Ack(r)
  PROVE  ArrivalInv'
<1>. USE DEF Ack, tgVars, chatVars, procVars
<1>1. bus \in BusRow /\ bus.reply = r /\ bus.delivery # "none" /\ bus.stage = "handled"
      /\ process = "server"
  BY DEF FlowInv, FlowTypes, BusFits
<1>2. PICK b : bus' = Gathered(b) /\ b = [bus EXCEPT !.delivery = "none"]
  OBVIOUS
<1>3. bus'.delivery = "none" /\ \A q \in Replies : ToBegin(q)' => ToBegin(q)
  <2>1. b.delivery = "none" /\ b.stage = "handled"
    BY <1>1, <1>2 DEF BusRow
  <2>2. bus' = Idle \/ bus' = b
    BY <1>2 DEF Gathered
  <2>. QED BY <2>1, <2>2, BusRows DEF ToBegin
<1>4. r \in whole \cup dropped
  BY <1>1 DEF ArrivalInv, InStep
<1>5. Acknowledged'
  <2>1. persisted \subseteq Replies /\ Acknowledged /\ Home[r] \notin Sources /\ Home[r] # "cli"
    BY <1>1 DEF FlowInv, FlowTypes, BusFits, NoChannel, ArrivalInv
  <2>2. \A q \in Replies : In(q, responses) => Seen(q)'
    BY DEF Seen
  <2>3. (OnTelegram(r) /\ OnScreen(r) /\ OnSocket(r))'
    BY <1>4, <2>1 DEF OnTelegram, OnScreen, OnSocket
  <2>. QED BY <1>1, <2>1, <2>2, <2>3, AcknowledgedStays
<1>6. starts \in Nat /\ failures \in Nat
  BY DEF FlowInv, FlowTypes
<1>7. /\ responses' = responses /\ responses \in Seq(Replies)
      /\ fate' \in [Replies -> SUBSET Fates]
  BY DEF ArrivalInv, ArrivalTypes
<1>. QED BY <1>3, <1>5, <1>6, <1>7, NothingArrives

LEMMA SendKeepsArrivals ==
  ASSUME ArrivalInv, FlowInv, NEW c \in Clients, Send(c) \/ SendFails(c)
  PROVE  ArrivalInv'
<1>. USE DEF Send, SendFails, tgVars, chatVars, procVars
<1>1. bus \in BusRow /\ bus.stage = "handled" /\ process = "server"
  BY DEF FlowInv, FlowTypes, BusFits
<1>2. PICK b : bus' = Gathered(b) /\ b = [bus EXCEPT !.addressed = bus.addressed \ {c}]
  OBVIOUS
<1>3. b.delivery = bus.delivery /\ b.stage = "handled" /\ b.sent = bus.sent /\ b.reply = bus.reply
  BY <1>1, <1>2 DEF BusRow
<1>4. bus' = Idle \/ bus' = b
  BY <1>2 DEF Gathered
<1>5. \A q \in Replies : ToBegin(q)' => ToBegin(q)
  BY <1>3, <1>4, BusRows DEF ToBegin
<1>8. /\ responses' = responses /\ responses \in Seq(Replies)
      /\ fate' \in [Replies -> SUBSET Fates]
      /\ \A q \in Replies : fate[q] \subseteq fate'[q]
      /\ \A q \in Replies : q = bus.reply => "reached" \in fate'[q] \/ "refused" \in fate'[q]
  <2>1. fate \in [Replies -> SUBSET Fates] /\ responses \in Seq(Replies)
    BY DEF ArrivalInv, ArrivalTypes
  <2>. QED BY <2>1, BefallsAdds DEF Fates
<1>6. Acknowledged'
  <2>1. persisted \subseteq Replies /\ Acknowledged
    BY DEF FlowInv, FlowTypes, ArrivalInv
  <2>2. \A q \in Replies : In(q, responses) => Seen(q)'
    BY DEF Seen
  <2>3. \A q \in Replies : bus.reply = q => Sent(q)'
    BY <1>8 DEF Sent
  <2>. QED BY <1>8, <2>1, <2>2, <2>3, AcknowledgedStays
<1>7. starts \in Nat /\ failures \in Nat
  BY DEF FlowInv, FlowTypes
<1>9. /\ bus'.delivery = "dropping" => bus'.reply \in dropped'
      /\ bus'.delivery = "sending" =>
           /\ bus.delivery = "sending" /\ bus'.sent = bus.sent
           /\ bus'.reply = bus.reply /\ bus.reply \in Replies
  <2>1. bus.reply \in Replies
    BY <1>1 DEF FlowInv, BusFits, FlowTypes
  <2>. QED BY <1>3, <1>4, <2>1, BusRows DEF ArrivalInv, InStep
<1>. QED BY <1>5, <1>6, <1>7, <1>8, <1>9, NothingArrives

(* The chat's handler.                                                     *)
LEMMA OutboundKeepsArrivals ==
  ASSUME ArrivalInv, FlowInv, NEW r \in Replies, HandleOutbound(r)
  PROVE  ArrivalInv'
<1>. USE DEF HandleOutbound, tgVars, procVars
<1>1. responses \in Seq(Replies)
  BY DEF ArrivalInv, ArrivalTypes
<1>2. /\ responses' \in Seq(Replies)
      /\ \A x : In(x, responses) => In(x, responses')
      /\ r \in printed' \/ In(r, responses')
      /\ printed \subseteq printed'
  <2>1. /\ Append(responses, r) \in Seq(Replies)
        /\ \A x : In(x, Append(responses, r)) <=> In(x, responses) \/ x = r
    BY <1>1, Pushed
  <2>2. CASE r \in Notices
    BY <1>1, <2>2
  <2>3. CASE r \notin Notices
    BY <2>1, <2>3
  <2>. QED BY <2>2, <2>3
<1>3. bus'.delivery = "none" /\ \A q \in Replies : ToBegin(q)' => ToBegin(q)
  BY BusRows DEF ToBegin
<1>4. fate' = fate /\ fate \in [Replies -> SUBSET Fates]
  BY DEF ArrivalInv, ArrivalTypes
<1>5. Acknowledged'
  <2>1. persisted \subseteq Replies /\ Acknowledged /\ bus.addressed = {}
    BY BusRows DEF FlowInv, FlowTypes, ArrivalInv
  <2>2. \A q \in Replies : In(q, responses) => Seen(q)'
    BY <1>2 DEF Seen
  <2>3. (OnTelegram(r) /\ OnScreen(r) /\ OnSocket(r))'
    BY <1>2 DEF OnTelegram, OnScreen, OnSocket, Seen
  <2>. QED BY <1>2, <1>4, <2>1, <2>2, <2>3, AcknowledgedStays
<1>6. starts \in Nat /\ failures \in Nat
  BY DEF FlowInv, FlowTypes
<1>. QED BY <1>2, <1>3, <1>4, <1>5, <1>6, NothingArrives

LEMMA ArrivalStep == ArrivalInv /\ FlowInv /\ [Next]_vars => ArrivalInv'
<1>. SUFFICES ASSUME ArrivalInv, FlowInv, [Next]_vars PROVE ArrivalInv'
  OBVIOUS
<1>0. responses \in Seq(Replies)
  BY DEF ArrivalInv, ArrivalTypes
<1>1. UNCHANGED <<starts, leftovers, bus, persisted, files, tgVars, fate, responses, printed>>
        => ArrivalInv'
  BY <1>0, ArrivalsUnmoved
<1>2. CASE SetDefault
  BY <1>1, <1>2 DEF SetDefault, busVars, chatVars
<1>3. ASSUME NEW r \in Others, PublishOther(r) PROVE ArrivalInv'
  BY <1>1, <1>3 DEF PublishOther, Publish, procVars, chatVars
<1>4. ASSUME NEW q \in Answers, PublishAnswer(q) PROVE ArrivalInv'
  BY <1>1, <1>4 DEF PublishAnswer, Publish, procVars, chatVars
<1>5. ASSUME NEW r \in Replies, Dispatch(r) PROVE ArrivalInv'
  BY <1>5, TakeKeepsArrivals, NotifyKeepsArrivals, OutboundKeepsArrivals, ReplyKeepsArrivals,
     FailureKeepsArrivals, AckKeepsArrivals DEF Dispatch
<1>6. ASSUME NEW c \in Clients, Connection(c) PROVE ArrivalInv'
  BY <1>1, <1>6 DEF Connection, procVars, busVars, chatVars
<1>7. CASE Ask \/ Timeout
  BY <1>1, <1>7 DEF Ask, Timeout, procVars, busVars
<1>8. CASE Show
  <2>1. /\ responses # <<>> /\ responses' = Tail(responses)
        /\ printed' = printed \cup {Head(responses)}
    BY <1>8 DEF Show
  <2>2. /\ Tail(responses) \in Seq(Replies)
        /\ \A x : In(x, responses) <=> x = Head(responses) \/ In(x, Tail(responses))
    BY <1>0, <2>1, Popped
  <2>3. /\ responses' \in Seq(Replies)
        /\ \A x : In(x, responses) => x \in printed' \/ In(x, responses')
    BY <2>1, <2>2
  <2>. QED BY <1>8, <2>1, <2>3, ArrivalsUnmoved DEF Show, procVars, busVars
<1>9. CASE UNCHANGED vars
  BY <1>1, <1>9 DEF vars, procVars, busVars, chatVars
<1>. QED
  BY <1>2, <1>3, <1>4, <1>5, <1>6, <1>7, <1>8, <1>9, StartKeepsArrivals, EndKeepsArrivals,
     SendKeepsArrivals DEF Next, BusStep

LEMMA ArrivalStarts == Init => ArrivalInv
<1>. SUFFICES ASSUME Init PROVE ArrivalInv
  OBVIOUS
<1>. QED BY BusRows, NoReplyIsNone
     DEF Init, ArrivalInv, ArrivalTypes, InStep, Budget, ToBegin, Acknowledged

LEMMA ArrivalInvHolds == Spec => [](FlowInv /\ ArrivalInv)
BY FlowStarts, ArrivalStarts, FlowStep, ArrivalStep, PTL DEF Spec

(* What was on disk and is there no more came to somebody, or is one of    *)
(* the replies there was nobody for, no channel took or no connection let  *)
(* through: a crash or a failure between the file, the send and the        *)
(* acknowledgement loses nothing else.                                     *)
THEOREM NothingAcknowledgedIsLost == Spec => []AcknowledgedHasArrived
<1>1. ArrivalInv => AcknowledgedHasArrived
  BY RangeIsIn DEF ArrivalInv, Acknowledged, OnTelegram, OnScreen, OnSocket, Seen, Sent, Before,
     AcknowledgedHasArrived
<1>. QED BY <1>1, ArrivalInvHolds, PTL

(* The chunks of a reply arrive in their order with nothing in between,    *)
(* and a reply begins at most once for each start and each failure.        *)
THEOREM ChunksStayTogether == Spec => []ChunksArriveInRow
<1>1. ArrivalInv => ChunksArriveInRow
  BY DEF ArrivalInv, InStep, Budget, ChunksArriveInRow
<1>. QED BY <1>1, ArrivalInvHolds, PTL

-----------------------------------------------------------------------------
(* What the chat shows.                                                    *)
ChatTypes ==
  /\ chat \in {"typing", "waiting"} /\ asked \in 0 .. Questions /\ timeouts \in Nat
  /\ responses \in Seq(Replies) /\ shown \in [Answers -> Replies \cup {NoReply}]
  /\ recovered \subseteq Replies /\ IsFiniteSet(recovered)
  /\ chat = "waiting" => asked \in Answers
  /\ process # "chat" => responses = <<>> /\ chat = "typing"

(* The questions that are over: shown an answer, timed out or given up     *)
(* with their chat.                                                        *)
Over == IF chat = "waiting" THEN asked - 1 ELSE asked

(* A reply is a response at most once: its file is gone by then.           *)
ShownOnce ==
  /\ Distinct(responses)
  /\ \A r \in Replies : In(r, responses) => r \in persisted \ files
  /\ \A q \in Answers : shown[q] # NoReply =>
       q <= Over /\ shown[q] \in persisted \ files /\ ~In(shown[q], responses)

(* What the bus of the chat has taken and not handed on.                   *)
Held(r) == process = "chat" /\ bus.stage = "taken" /\ bus.reply = r

(* The answers of this chat's own turns.                                   *)
Fresh == Answers \ recovered

(* Turns end in the order of the questions, and nothing on the way to the  *)
(* user overtakes.                                                         *)
InTurn ==
  /\ \A a \in Answers : a \in published => a <= asked /\ 1 .. a \subseteq published
  /\ \A r \in Replies : In(r, queue) =>
       /\ r \in Answers => process = "chat"
       /\ process = "chat" => r \in Answers \cup Notices
  /\ \A r \in Replies : Held(r) => r \in Answers \cup Notices \cup recovered
  /\ \A r \in Replies : In(r, responses) => r \in Answers \cup recovered
  /\ Sorted(queue, Fresh) /\ Sorted(responses, Fresh)
  /\ \A a, b \in Fresh :
       /\ In(a, responses) /\ (Held(b) \/ In(b, queue)) => a < b
       /\ Held(a) /\ In(b, queue) => a < b

Unseen(a) ==
  \/ a \notin published
  \/ a \notin recovered /\ (In(a, queue) \/ Held(a) \/ In(a, responses))

(* The replies of earlier processes that took the place of an answer.      *)
Strangers == {r \in recovered : \E q \in Answers : shown[q] = r}

(* A question that is over, behind an answer the user has not seen, was    *)
(* ended by a timeout or by a stranger.                                    *)
Lag == \A a \in Answers : Unseen(a) => Over - (a - 1) <= timeouts + Cardinality(Strangers)

ChatInv == ChatTypes /\ ShownOnce /\ InTurn /\ Lag /\ AnswersLagByTimeouts

LEMMA StrangersCounted ==
  ASSUME IsFiniteSet(recovered)
  PROVE  /\ IsFiniteSet(Strangers) /\ Cardinality(Strangers) \in Nat
         /\ Cardinality(recovered) \in Nat /\ Cardinality(Strangers) <= Cardinality(recovered)
<1>1. Strangers \in SUBSET recovered
  BY DEF Strangers
<1>. QED BY <1>1, FS_Subset, FS_CardinalityType

LEMMA AnswersAreNumbers == Questions \in Nat /\ \A a \in Answers : a \in Nat /\ a > 0
BY RepliesAssumption DEF Answers

LEMMA OverIsNumber == ChatTypes => asked \in Nat /\ Over \in Nat /\ Over <= asked
BY RepliesAssumption DEF ChatTypes, Over, Answers

(* Nobody is shown anything, and nothing new is unseen.                    *)
LEMMA LagKept ==
  ASSUME ChatInv, ChatTypes', UNCHANGED <<shown, timeouts>>, recovered \subseteq recovered',
         \A q \in Answers : shown[q] \in recovered' => shown[q] \in recovered,
         Over' = Over, \A a \in Answers : Unseen(a)' => Unseen(a)
  PROVE  Lag' /\ AnswersLagByTimeouts'
<1>1. Strangers' = Strangers
  BY DEF Strangers
<1>2. Lag'
  BY <1>1 DEF ChatInv, Lag
<1>3. Cardinality(recovered) \in Nat /\ Cardinality(recovered') \in Nat
      /\ Cardinality(recovered) <= Cardinality(recovered')
  BY FS_Subset, FS_CardinalityType DEF ChatInv, ChatTypes
<1>4. ASSUME NEW q \in Answers, shown[q] # NoReply, shown[q] \notin recovered'
      PROVE  /\ shown[q] \in Answers /\ shown[q] <= q
             /\ q - shown[q] <= timeouts + Cardinality(recovered')
  <2>1. /\ shown[q] \in Answers /\ shown[q] <= q
        /\ q - shown[q] <= timeouts + Cardinality(recovered)
    BY <1>4 DEF ChatInv, AnswersLagByTimeouts
  <2>2. q - shown[q] \in Int /\ timeouts \in Nat
    BY <2>1, AnswersAreNumbers DEF ChatInv, ChatTypes
  <2>. QED BY <1>3, <2>1, <2>2
<1>5. AnswersLagByTimeouts'
  BY <1>4 DEF AnswersLagByTimeouts
<1>. QED BY <1>2, <1>5

(* The server's steps: there is nothing of the chat in the process.        *)
LEMMA ServerKeepsChat ==
  ASSUME ChatInv, process = "server", files' \subseteq files,
         UNCHANGED <<process, published, queue, persisted, chatVars>>
  PROVE  ChatInv'
<1>. USE DEF chatVars
<1>1. ChatTypes'
  BY DEF ChatInv, ChatTypes
<1>2. ShownOnce'
  BY DEF ChatInv, ShownOnce, Over
<1>3. InTurn'
  BY DEF ChatInv, InTurn, Held, Fresh
<1>4. Over' = Over /\ \A a \in Answers : Unseen(a)' => Unseen(a)
  BY DEF Over, Unseen, Held
<1>5. Lag' /\ AnswersLagByTimeouts'
  BY <1>1, <1>4, LagKept
<1>. QED BY <1>1, <1>2, <1>3, <1>5 DEF ChatInv

LEMMA StartKeepsChat ==
  ASSUME ChatInv, FlowInv, NEW kind \in {"server", "chat"}, Start(kind)
  PROVE  ChatInv'
<1>. USE DEF chatVars, Start
<1>1. queue = <<>> /\ bus = Idle /\ responses = <<>> /\ chat = "typing"
  BY DEF FlowInv, ProcessFits, ChatInv, ChatTypes
<1>2. \A r : ~In(r, queue) /\ ~In(r, responses) /\ ~Held(r)'
  BY <1>1, EmptyQueue, BusRows DEF Held
<1>3. ChatTypes'
  BY <1>1 DEF ChatInv, ChatTypes
<1>4. ShownOnce'
  BY DEF ChatInv, ShownOnce, Over
<1>5. InTurn'
  BY <1>1, <1>2 DEF ChatInv, InTurn, Fresh
<1>6. Over' = Over /\ \A a \in Answers : Unseen(a)' => Unseen(a)
  BY <1>2 DEF Over, Unseen
<1>7. Lag' /\ AnswersLagByTimeouts'
  BY <1>3, <1>6, LagKept
<1>. QED BY <1>3, <1>4, <1>5, <1>7 DEF ChatInv

(* A question the chat ends with is over, and everything is published.     *)
LEMMA EndKeepsChat ==
  ASSUME ChatInv, FlowInv, End
  PROVE  ChatInv'
<1>. USE DEF End
<1>1. queue' = <<>> /\ bus' = Idle /\ responses' = <<>> /\ chat' = "typing"
  OBVIOUS
<1>2. \A r : ~In(r, queue') /\ ~In(r, responses') /\ ~Held(r)'
  BY <1>1, EmptyQueue, BusRows DEF Held
<1>3. asked \in Nat /\ Over \in Nat /\ Over' = asked /\ Over <= asked
  BY OverIsNumber DEF ChatInv, Over
<1>4. ChatTypes'
  BY DEF ChatInv, ChatTypes
<1>5. ShownOnce'
  <2>1. ASSUME NEW q \in Answers, shown[q] # NoReply
        PROVE  q <= Over' /\ shown[q] \in persisted \ files
    BY <1>3, <2>1, AnswersAreNumbers DEF ChatInv, ShownOnce
  <2>. QED BY <1>1, <1>2, <2>1, EmptyQueue DEF ShownOnce
<1>6. InTurn'
  <2>1. ASSUME NEW a \in Answers, a \in published'
        PROVE  a <= asked /\ 1 .. a \subseteq published'
    BY <1>3, <2>1, AnswersAreNumbers DEF ChatInv, InTurn
  <2>. QED BY <1>1, <1>2, <2>1, EmptyQueue DEF InTurn
<1>7. Strangers' = Strangers
  BY DEF Strangers
<1>8. Lag'
  <2>. SUFFICES ASSUME NEW a \in Answers, Unseen(a)'
                PROVE  Over' - (a - 1) <= timeouts + Cardinality(Strangers)
    BY <1>7 DEF Lag
  <2>1. a \notin 1 .. asked /\ a \in Nat /\ a > 0
    BY <1>2, AnswersAreNumbers DEF Unseen
  <2>2. timeouts \in Nat /\ Cardinality(Strangers) \in Nat
    BY StrangersCounted DEF ChatInv, ChatTypes
  <2>. QED BY <1>3, <2>1, <2>2
<1>9. AnswersLagByTimeouts'
  BY DEF ChatInv, AnswersLagByTimeouts
<1>. QED BY <1>4, <1>5, <1>6, <1>8, <1>9 DEF ChatInv

(* A reply joins the queue.                                                *)
LEMMA OtherKeepsChat ==
  ASSUME ChatInv, FlowInv, NEW r \in Others, PublishOther(r)
  PROVE  ChatInv'
<1>. USE DEF PublishOther, Publish, chatVars, procVars
<1>1. r \in Replies \ Answers /\ r \notin Fresh
  BY RepliesAssumption DEF Replies, Fresh
<1>2. queue \in Seq(Replies)
  BY DEF FlowInv, FlowTypes
<1>3. /\ \A y : In(y, queue') <=> In(y, queue) \/ y = r
      /\ Sorted(queue, Fresh) => Sorted(queue', Fresh)
  BY <1>1, <1>2, Pushed
<1>4. ChatTypes' /\ ShownOnce'
  BY DEF ChatInv, ChatTypes, ShownOnce, Over
<1>5. InTurn'
  <2>1. ASSUME NEW a \in Answers, a \in published'
        PROVE  a <= asked /\ 1 .. a \subseteq published'
    BY <1>1, <2>1 DEF ChatInv, InTurn
  <2>2. Sorted(queue', Fresh) /\ Sorted(responses, Fresh)
    BY <1>3 DEF ChatInv, InTurn
  <2>3. ASSUME NEW x \in Replies, In(x, queue')
        PROVE  (x \in Answers => process = "chat") /\ (process = "chat" => x \in Answers \cup Notices)
    BY <1>1, <1>3, <2>3 DEF ChatInv, InTurn
  <2>4. ASSUME NEW a \in Fresh, NEW b \in Fresh
        PROVE  /\ In(a, responses) /\ (Held(b) \/ In(b, queue')) => a < b
               /\ Held(a) /\ In(b, queue') => a < b
    BY <1>1, <1>3 DEF ChatInv, InTurn
  <2>. QED BY <2>1, <2>2, <2>3, <2>4 DEF InTurn, ChatInv, Held, Fresh
<1>6. Over' = Over /\ \A a \in Answers : Unseen(a)' => Unseen(a)
  BY <1>1, <1>3 DEF Over, Unseen, Held
<1>7. Lag' /\ AnswersLagByTimeouts'
  BY <1>4, <1>6, LagKept
<1>. QED BY <1>4, <1>5, <1>7 DEF ChatInv

LEMMA AnswerKeepsChat ==
  ASSUME ChatInv, FlowInv, NEW q \in Answers, PublishAnswer(q)
  PROVE  ChatInv'
<1>. USE DEF PublishAnswer, Publish, chatVars, procVars
<1>1. q \in Replies /\ q \in Nat
  BY AnswersAreNumbers DEF Replies
<1>2. queue \in Seq(Replies)
  BY DEF FlowInv, FlowTypes
<1>3. ASSUME NEW a \in Answers, a \in published PROVE a < q
  <2>1. a \in Nat /\ 1 .. a \subseteq published /\ q > 0
    BY <1>3, AnswersAreNumbers DEF ChatInv, InTurn
  <2>. QED BY <1>1, <2>1
<1>4. \A x \in Replies : In(x, queue) \/ Held(x) \/ In(x, responses) => x \in published
  BY DEF FlowInv, FlowTypes, BusFits, Held, ChatInv, ShownOnce
<1>5. \A a \in Fresh : In(a, queue) \/ Held(a) \/ In(a, responses) => a < q
  BY <1>3, <1>4 DEF Fresh, Replies
<1>6. /\ \A y : In(y, queue') <=> In(y, queue) \/ y = q
      /\ Sorted(queue, Fresh) => Sorted(queue', Fresh)
  BY <1>1, <1>2, <1>5, Pushed
<1>7. ChatTypes' /\ ShownOnce'
  BY DEF ChatInv, ChatTypes, ShownOnce, Over
<1>8. InTurn'
  <2>1. ASSUME NEW a \in Answers, a \in published'
        PROVE  a <= asked /\ 1 .. a \subseteq published'
    <3>1. CASE a = q
      BY <1>1, <3>1
    <3>2. CASE a # q
      BY <2>1, <3>2 DEF ChatInv, InTurn
    <3>. QED BY <3>1, <3>2
  <2>2. Sorted(queue', Fresh) /\ Sorted(responses, Fresh)
    BY <1>6 DEF ChatInv, InTurn
  <2>3. ASSUME NEW x \in Replies, In(x, queue')
        PROVE  (x \in Answers => process = "chat") /\ (process = "chat" => x \in Answers \cup Notices)
    BY <1>1, <1>6, <2>3 DEF ChatInv, InTurn
  <2>4. ASSUME NEW a \in Fresh, NEW b \in Fresh
        PROVE  /\ In(a, responses) /\ (Held(b) \/ In(b, queue')) => a < b
               /\ Held(a) /\ In(b, queue') => a < b
    BY <1>5, <1>6 DEF ChatInv, InTurn
  <2>. QED BY <2>1, <2>2, <2>3, <2>4 DEF InTurn, ChatInv, Held, Fresh
<1>9. Over' = Over /\ \A a \in Answers : Unseen(a)' => Unseen(a)
  BY <1>6 DEF Over, Unseen, Held
<1>10. Lag' /\ AnswersLagByTimeouts'
  BY <1>7, <1>9, LagKept
<1>. QED BY <1>7, <1>8, <1>10 DEF ChatInv

(* The bus takes the next reply; what it holds was first in the queue.     *)
LEMMA TakeKeepsChat ==
  ASSUME ChatInv, FlowInv, NEW r \in Replies, Take(r) \/ TakeFails(r)
  PROVE  ChatInv'
<1>. USE DEF Take, TakeFails, chatVars, procVars
<1>1. queue \in Seq(Replies) /\ queue # <<>> /\ Head(queue) = r /\ queue' = Tail(queue)
  BY DEF FlowInv, FlowTypes
<1>2. /\ In(r, queue) /\ \A x : In(x, queue') => In(x, queue)
      /\ Sorted(queue, Fresh) => /\ Sorted(queue', Fresh)
                                 /\ \A x \in Fresh : r \in Fresh /\ In(x, queue') => r < x
  BY <1>1, Popped
<1>3. r \notin persisted /\ persisted \ files \subseteq persisted' \ files'
  BY <1>2 DEF FlowInv, BusFits
<1>4. \A x : ~Held(x) /\ (Held(x)' => x = r /\ process = "chat")
  BY BusRows DEF Held
<1>5. ChatTypes'
  BY DEF ChatInv, ChatTypes
<1>6. ShownOnce'
  BY <1>3 DEF ChatInv, ShownOnce, Over
<1>7. InTurn'
  <2>1. Sorted(queue', Fresh) /\ Sorted(responses, Fresh)
    BY <1>2 DEF ChatInv, InTurn
  <2>2. ASSUME NEW a \in Fresh, NEW b \in Fresh
        PROVE  /\ In(a, responses) /\ (Held(b)' \/ In(b, queue')) => a < b
               /\ Held(a)' /\ In(b, queue') => a < b
    BY <1>2, <1>4 DEF ChatInv, InTurn
  <2>3. \A x \in Replies : Held(x)' => x \in Answers \cup Notices
    BY <1>2, <1>4 DEF ChatInv, InTurn
  <2>4. Fresh' = Fresh
    BY DEF Fresh
  <2>. QED BY <1>2, <2>1, <2>2, <2>3, <2>4 DEF InTurn, ChatInv
<1>8. Over' = Over /\ \A a \in Answers : Unseen(a)' => Unseen(a)
  BY <1>2, <1>4 DEF Over, Unseen
<1>9. Lag' /\ AnswersLagByTimeouts'
  BY <1>5, <1>8, LagKept
<1>. QED BY <1>5, <1>6, <1>7, <1>9 DEF ChatInv

LEMMA RecoverKeepsChat ==
  ASSUME ChatInv, FlowInv, NEW r \in Replies, Recover(r)
  PROVE  ChatInv'
<1>. USE DEF Recover, procVars
<1>1. r \in files
  BY DEF FlowInv, FlowTypes
<1>2. \A x : ~Held(x) /\ (Held(x)' => x = r /\ process = "chat")
  BY BusRows DEF Held
<1>3. recovered \subseteq recovered' /\ recovered' \subseteq recovered \cup {r}
      /\ (process = "chat" => r \in recovered')
  OBVIOUS
<1>4. ChatTypes'
  <2>1. IsFiniteSet(recovered \cup {r})
    BY FS_AddElement DEF ChatInv, ChatTypes
  <2>2. IsFiniteSet(recovered')
    BY <2>1 DEF ChatInv, ChatTypes
  <2>. QED BY <1>3, <2>2 DEF ChatInv, ChatTypes
<1>5. ShownOnce'
  BY DEF ChatInv, ShownOnce, Over
<1>6. Fresh' \subseteq Fresh /\ \A x : Held(x)' => x \notin Fresh'
  BY <1>2, <1>3 DEF Fresh
<1>7. InTurn'
  <2>1. Sorted(queue, Fresh') /\ Sorted(responses, Fresh')
    BY <1>6, SortedForLess DEF ChatInv, InTurn
  <2>2. \A x \in Replies : Held(x)' => x \in recovered'
    BY <1>2, <1>3
  <2>3. ASSUME NEW x \in Replies, In(x, responses) PROVE x \in Answers \cup recovered'
    BY <1>3, <2>3 DEF ChatInv, InTurn
  <2>4. ASSUME NEW a \in Fresh', NEW b \in Fresh'
        PROVE  /\ In(a, responses) /\ (Held(b)' \/ In(b, queue)) => a < b
               /\ ~Held(a)'
    BY <1>6 DEF ChatInv, InTurn
  <2>. QED BY <2>1, <2>2, <2>3, <2>4 DEF InTurn, ChatInv
<1>8. Over' = Over /\ \A a \in Answers : Unseen(a)' => Unseen(a)
  BY <1>2, <1>3 DEF Over, Unseen
<1>9. \A q \in Answers : shown[q] \in recovered' => shown[q] \in recovered
  BY <1>1, <1>3, NoReplyIsNone DEF ChatInv, ShownOnce
<1>10. Lag' /\ AnswersLagByTimeouts'
  BY <1>3, <1>4, <1>8, <1>9, LagKept
<1>. QED BY <1>4, <1>5, <1>7, <1>10 DEF ChatInv

(* What the bus holds becomes a response, or is shown as a notice.         *)
LEMMA OutboundKeepsChat ==
  ASSUME ChatInv, FlowInv, NEW r \in Replies, HandleOutbound(r)
  PROVE  ChatInv'
<1>. USE DEF HandleOutbound, procVars
<1>1. Held(r) /\ r \in files /\ r \in persisted /\ responses \in Seq(Replies)
  BY BusRows DEF Held, FlowInv, BusFits, FlowTypes, ChatInv, ChatTypes
<1>2. ~In(r, responses) /\ \A q \in Answers : shown[q] # r
  BY <1>1, NoReplyIsNone DEF ChatInv, ShownOnce
<1>3. \A x : ~Held(x)'
  BY BusRows DEF Held
<1>4. \A x \in Fresh : In(x, responses) /\ r \in Fresh => x < r
  BY <1>1 DEF ChatInv, InTurn
<1>5. /\ Append(responses, r) \in Seq(Replies)
      /\ \A y : In(y, Append(responses, r)) <=> In(y, responses) \/ y = r
      /\ Distinct(responses) /\ ~In(r, responses) => Distinct(Append(responses, r))
      /\ Sorted(responses, Fresh) => Sorted(Append(responses, r), Fresh)
  BY <1>1, <1>4, Pushed
<1>6. responses' \in {responses, Append(responses, r)}
      /\ (responses' # responses => r \notin Notices)
  OBVIOUS
<1>7. ChatTypes'
  BY <1>1, <1>5, <1>6 DEF ChatInv, ChatTypes
<1>8. ShownOnce'
  <2>1. Distinct(responses')
    BY <1>2, <1>5, <1>6 DEF ChatInv, ShownOnce
  <2>2. ASSUME NEW x \in Replies, In(x, responses') PROVE x \in persisted \ files'
    BY <1>1, <1>5, <1>6, <2>2 DEF ChatInv, ShownOnce
  <2>3. ASSUME NEW q \in Answers, shown[q] # NoReply
        PROVE  q <= Over /\ shown[q] \in persisted \ files' /\ ~In(shown[q], responses')
    BY <1>2, <1>5, <1>6, <2>3 DEF ChatInv, ShownOnce
  <2>. QED BY <2>1, <2>2, <2>3 DEF ShownOnce, Over
<1>9. InTurn'
  <2>1. Sorted(queue, Fresh) /\ Sorted(responses', Fresh)
    BY <1>5, <1>6 DEF ChatInv, InTurn
  <2>2. ASSUME NEW x \in Replies, In(x, responses') PROVE x \in Answers \cup recovered
    <3>1. r \in Answers \cup Notices \cup recovered
      BY <1>1 DEF ChatInv, InTurn
    <3>. QED BY <1>5, <1>6, <2>2, <3>1 DEF ChatInv, InTurn
  <2>3. ASSUME NEW a \in Fresh, NEW b \in Fresh, In(a, responses'), In(b, queue)
        PROVE  a < b
    <3>1. In(a, responses) \/ Held(a)
      BY <1>1, <1>5, <1>6, <2>3
    <3>. QED BY <2>3, <3>1 DEF ChatInv, InTurn
  <2>4. Fresh' = Fresh
    BY DEF Fresh
  <2>. QED BY <1>3, <2>1, <2>2, <2>3, <2>4 DEF InTurn, ChatInv
<1>10. Over' = Over /\ \A a \in Answers : Unseen(a)' => Unseen(a)
  BY <1>1, <1>3, <1>5, <1>6 DEF Over, Unseen
<1>11. Lag' /\ AnswersLagByTimeouts'
  BY <1>7, <1>10, LagKept
<1>. QED BY <1>7, <1>8, <1>9, <1>11 DEF ChatInv

(* The user.                                                               *)
LEMMA AskKeepsChat ==
  ASSUME ChatInv, Ask
  PROVE  ChatInv'
<1>. USE DEF Ask, busVars
<1>1. asked \in Nat /\ asked' = asked + 1 /\ asked' \in Answers /\ Over' = Over /\ Over \in Nat
  BY RepliesAssumption DEF ChatInv, ChatTypes, Over, Answers
<1>2. ChatTypes'
  <2>1. asked' \in 0 .. Questions
    BY <1>1, AnswersAreNumbers DEF Answers
  <2>. QED BY <1>1, <2>1 DEF ChatInv, ChatTypes, procVars
<1>3. ShownOnce'
  BY <1>1 DEF ChatInv, ShownOnce
<1>4. InTurn'
  <2>1. ASSUME NEW a \in Answers, a \in published PROVE a <= asked' /\ 1 .. a \subseteq published
    BY <1>1, <2>1, AnswersAreNumbers DEF ChatInv, InTurn
  <2>. QED BY <2>1 DEF ChatInv, InTurn, Held, Fresh, procVars
<1>5. \A a \in Answers : Unseen(a)' => Unseen(a)
  BY DEF Unseen, Held, procVars
<1>6. Lag' /\ AnswersLagByTimeouts'
  BY <1>1, <1>2, <1>5, LagKept
<1>. QED BY <1>2, <1>3, <1>4, <1>6 DEF ChatInv

LEMMA TimeoutKeepsChat ==
  ASSUME ChatInv, Timeout
  PROVE  ChatInv'
<1>. USE DEF Timeout, busVars, procVars
<1>1. asked \in Nat /\ Over = asked - 1 /\ Over' = asked /\ Over \in Nat /\ timeouts \in Nat
  BY OverIsNumber DEF ChatInv, ChatTypes, Over
<1>2. ChatTypes'
  BY <1>1 DEF ChatInv, ChatTypes
<1>3. ShownOnce'
  <2>1. ASSUME NEW q \in Answers, shown[q] # NoReply PROVE q <= Over'
    BY <1>1, <2>1, AnswersAreNumbers DEF ChatInv, ShownOnce
  <2>. QED BY <2>1 DEF ChatInv, ShownOnce
<1>4. InTurn'
  BY DEF ChatInv, InTurn, Held, Fresh
<1>5. Strangers' = Strangers
  BY DEF Strangers
<1>6. Cardinality(Strangers) \in Nat /\ Cardinality(recovered) \in Nat
  BY StrangersCounted DEF ChatInv, ChatTypes
<1>7. Lag'
  <2>. SUFFICES ASSUME NEW a \in Answers, Unseen(a)'
                PROVE  asked - (a - 1) <= timeouts + 1 + Cardinality(Strangers)
    BY <1>1, <1>5 DEF Lag
  <2>1. Unseen(a) /\ a \in Nat
    BY AnswersAreNumbers DEF Unseen, Held
  <2>2. asked - 1 - (a - 1) <= timeouts + Cardinality(Strangers)
    BY <1>1, <2>1 DEF ChatInv, Lag
  <2>. QED BY <1>1, <1>6, <2>1, <2>2
<1>8. AnswersLagByTimeouts'
  <2>1. ASSUME NEW q \in Answers, shown[q] # NoReply, shown[q] \notin recovered
        PROVE  /\ shown[q] \in Answers /\ shown[q] <= q
               /\ q - shown[q] <= timeouts + 1 + Cardinality(recovered)
    <3>1. /\ shown[q] \in Answers /\ shown[q] <= q
          /\ q - shown[q] <= timeouts + Cardinality(recovered)
      BY <2>1 DEF ChatInv, AnswersLagByTimeouts
    <3>. QED BY <1>1, <1>6, <3>1, AnswersAreNumbers
  <2>. QED BY <2>1 DEF AnswersLagByTimeouts
<1>. QED BY <1>2, <1>3, <1>4, <1>7, <1>8 DEF ChatInv

(* The first response is the oldest of the answers the user has not seen,  *)
(* or a stranger.                                                          *)
LEMMA ShowKeepsChat ==
  ASSUME ChatInv, FlowInv, Show
  PROVE  ChatInv'
<1>. USE DEF Show, busVars, procVars
<1>1. PICK h : h = Head(responses)
  OBVIOUS
<1>2. /\ responses \in Seq(Replies) /\ responses # <<>> /\ responses' = Tail(responses)
      /\ asked \in Answers /\ shown' = [shown EXCEPT ![asked] = h]
  BY <1>1 DEF ChatInv, ChatTypes
<1>3. /\ Tail(responses) \in Seq(Replies) /\ In(h, responses)
      /\ \A x : In(x, responses) <=> x = h \/ In(x, responses')
      /\ Distinct(responses) => Distinct(responses') /\ ~In(h, responses')
      /\ Sorted(responses, Fresh) =>
           /\ Sorted(responses', Fresh)
           /\ \A x \in Fresh : h \in Fresh /\ In(x, responses') => h < x
  BY <1>1, <1>2, Popped
<1>4. asked \in Nat /\ Over = asked - 1 /\ Over' = asked /\ timeouts \in Nat
  BY OverIsNumber DEF ChatInv, ChatTypes, Over
<1>5. h \in Replies /\ h \in persisted \ files /\ h \in published /\ h # NoReply
      /\ h \in Answers \cup recovered
  BY <1>1, <1>2, <1>3, NoReplyIsNone DEF ChatInv, ShownOnce, InTurn, FlowInv, FlowTypes
<1>6. shown[asked] = NoReply
  BY <1>2, <1>4 DEF ChatInv, ShownOnce
<1>7. /\ shown'[asked] = h
      /\ \A q \in Answers : q # asked => shown'[q] = shown[q]
  BY <1>2 DEF ChatInv, ChatTypes
<1>8. ChatTypes'
  <2>1. shown' \in [Answers -> Replies \cup {NoReply}]
    BY <1>2, <1>5 DEF ChatInv, ChatTypes
  <2>2. process # "chat" => responses' = <<>> /\ chat' = "typing"
    OBVIOUS
  <2>. QED BY <1>2, <1>3, <2>1, <2>2 DEF ChatInv, ChatTypes
<1>9. ShownOnce'
  <2>1. ASSUME NEW q \in Answers, shown'[q] # NoReply
        PROVE  q <= asked /\ shown'[q] \in persisted \ files /\ ~In(shown'[q], responses')
    <3>1. CASE q = asked
      BY <1>3, <1>4, <1>5, <1>7, <3>1 DEF ChatInv, ShownOnce
    <3>2. CASE q # asked
      <4>1. q <= asked - 1 /\ shown[q] \in persisted \ files /\ ~In(shown[q], responses)
        BY <1>4, <1>7, <2>1, <3>2 DEF ChatInv, ShownOnce
      <4>. QED BY <1>3, <1>4, <1>7, <3>2, <4>1, AnswersAreNumbers
    <3>. QED BY <3>1, <3>2
  <2>2. \A x \in Replies : In(x, responses') => x \in persisted \ files
    BY <1>3 DEF ChatInv, ShownOnce
  <2>3. Distinct(responses')
    BY <1>3 DEF ChatInv, ShownOnce
  <2>. QED BY <1>4, <2>1, <2>2, <2>3 DEF ShownOnce
<1>10. InTurn'
  <2>1. Sorted(responses', Fresh)
    BY <1>3 DEF ChatInv, InTurn
  <2>2. Fresh' = Fresh /\ \A x : Held(x)' = Held(x)
    BY DEF Fresh, Held
  <2>3. ASSUME NEW a \in Fresh, NEW b \in Fresh
        PROVE  /\ In(a, responses') /\ (Held(b) \/ In(b, queue)) => a < b
               /\ Held(a) /\ In(b, queue) => a < b
    BY <1>3 DEF ChatInv, InTurn
  <2>4. \A x \in Replies : In(x, responses') => x \in Answers \cup recovered
    BY <1>3 DEF ChatInv, InTurn
  <2>. QED BY <2>1, <2>2, <2>3, <2>4 DEF InTurn, ChatInv
<1>11. /\ IsFiniteSet(Strangers) /\ Cardinality(Strangers) \in Nat
       /\ Cardinality(recovered) \in Nat /\ Cardinality(Strangers) <= Cardinality(recovered)
  BY StrangersCounted DEF ChatInv, ChatTypes
<1>12. Strangers' = IF h \in recovered THEN Strangers \cup {h} ELSE Strangers
  <2>1. ASSUME NEW x, x \in Strangers' PROVE x \in recovered /\ (x \in Strangers \/ x = h)
    BY <1>2, <1>7, <2>1 DEF Strangers
  <2>2. ASSUME NEW x, x \in Strangers PROVE x \in Strangers'
    <3>1. PICK q \in Answers : shown[q] = x /\ x \in recovered
      BY <2>2 DEF Strangers
    <3>2. q # asked
      BY <1>6, <3>1, NoReplyIsNone DEF ChatInv, ChatTypes
    <3>. QED BY <1>7, <3>1, <3>2 DEF Strangers
  <2>3. h \in recovered => h \in Strangers'
    BY <1>2, <1>7 DEF Strangers
  <2>4. h \notin recovered => Strangers' = Strangers
    BY <2>1, <2>2
  <2>5. h \in recovered => Strangers' = Strangers \cup {h}
    BY <2>1, <2>2, <2>3
  <2>. QED BY <2>4, <2>5
<1>13. h \notin Strangers
  <2>1. ASSUME NEW q \in Answers, shown[q] = h PROVE FALSE
    BY <1>3, <1>5, <2>1 DEF ChatInv, ShownOnce
  <2>. QED BY <2>1 DEF Strangers
<1>14. h \in recovered => Cardinality(Strangers') = Cardinality(Strangers) + 1
  BY <1>11, <1>12, <1>13, FS_AddElement
<1>15. Lag'
  <2>. SUFFICES ASSUME NEW a \in Answers, Unseen(a)'
                PROVE  asked - (a - 1) <= timeouts + Cardinality(Strangers')
    BY <1>4 DEF Lag
  <2>1. Unseen(a) /\ a \in Nat
    BY <1>3, AnswersAreNumbers DEF Unseen, Held
  <2>2. asked - 1 - (a - 1) <= timeouts + Cardinality(Strangers)
    BY <1>4, <2>1 DEF ChatInv, Lag
  <2>3. CASE h \in recovered
    BY <1>4, <1>11, <1>14, <2>1, <2>2, <2>3
  <2>4. CASE h \notin recovered
    <3>1. h \in Fresh /\ Unseen(h) /\ h \in Nat
      BY <1>3, <1>5, <2>4, AnswersAreNumbers DEF Fresh, Unseen
    <3>2. asked - 1 - (h - 1) <= timeouts + Cardinality(Strangers)
      BY <1>4, <3>1 DEF ChatInv, Lag, Fresh
    <3>3. h < a
      <4>1. CASE a \notin published
        <5>1. 1 .. h \subseteq published
          BY <1>5, <3>1 DEF ChatInv, InTurn, Fresh
        <5>. QED BY <2>1, <3>1, <4>1, <5>1, AnswersAreNumbers
      <4>2. CASE a \in published
        <5>1. a \in Fresh /\ (In(a, queue) \/ Held(a) \/ In(a, responses'))
          BY <4>2 DEF Fresh, Unseen, Held
        <5>. QED BY <1>3, <3>1, <5>1 DEF ChatInv, InTurn
      <4>. QED BY <4>1, <4>2
    <3>. QED BY <1>4, <1>11, <1>12, <2>1, <2>4, <3>1, <3>2, <3>3
  <2>. QED BY <2>3, <2>4
<1>16. AnswersLagByTimeouts'
  <2>1. ASSUME h \notin recovered
        PROVE  h \in Answers /\ h <= asked /\ asked - h <= timeouts + Cardinality(recovered)
    <3>1. h \in Answers /\ h \in Nat /\ Unseen(h) /\ h <= asked
      BY <1>3, <1>5, <2>1, AnswersAreNumbers DEF Unseen, ChatInv, InTurn
    <3>2. asked - 1 - (h - 1) <= timeouts + Cardinality(Strangers)
      BY <1>4, <3>1 DEF ChatInv, Lag
    <3>. QED BY <1>4, <1>11, <3>1, <3>2
  <2>2. ASSUME NEW q \in Answers, shown'[q] # NoReply
        PROVE  \/ shown'[q] \in recovered
               \/ /\ shown'[q] \in Answers /\ shown'[q] <= q
                  /\ q - shown'[q] <= timeouts + Cardinality(recovered)
    <3>1. CASE q = asked
      BY <1>7, <2>1, <3>1
    <3>2. CASE q # asked
      BY <1>7, <2>2, <3>2 DEF ChatInv, AnswersLagByTimeouts
    <3>. QED BY <3>1, <3>2
  <2>. QED BY <2>2 DEF AnswersLagByTimeouts
<1>. QED BY <1>8, <1>9, <1>10, <1>15, <1>16 DEF ChatInv

LEMMA ChatStep == ChatInv /\ FlowInv /\ [Next]_vars => ChatInv'
<1>. SUFFICES ASSUME ChatInv, FlowInv, [Next]_vars PROVE ChatInv'
  OBVIOUS
<1>1. CASE SetDefault
  BY <1>1, ServerKeepsChat DEF SetDefault, busVars
<1>2. ASSUME NEW c \in Clients, Connection(c) PROVE ChatInv'
  BY <1>2, ServerKeepsChat DEF Connection, procVars, busVars
<1>3. ASSUME NEW c \in Clients, Send(c) \/ SendFails(c) PROVE ChatInv'
  <2>1. process = "server"
    BY <1>3 DEF Send, SendFails, FlowInv, BusFits
  <2>. QED BY <1>3, <2>1, ServerKeepsChat DEF Send, SendFails, procVars
<1>4. ASSUME NEW r \in Replies, Dispatch(r) PROVE ChatInv'
  <2>1. CASE Notify(r)
    BY <2>1, ServerKeepsChat DEF Notify, procVars
  <2>2. CASE Reply(r) \/ ReplyFails(r) \/ Ack(r)
    <3>1. process = "server" /\ files' \subseteq files
      BY <2>2 DEF Reply, ReplyFails, Ack, FlowInv, BusFits
    <3>. QED BY <2>2, <3>1, ServerKeepsChat DEF Reply, ReplyFails, Ack, procVars
  <2>. QED BY <1>4, <2>1, <2>2, TakeKeepsChat, RecoverKeepsChat, OutboundKeepsChat DEF Dispatch
<1>5. CASE UNCHANGED vars
  <2>1. ChatTypes' /\ ShownOnce' /\ InTurn' /\ AnswersLagByTimeouts'
    BY <1>5 DEF vars, procVars, busVars, chatVars, ChatInv, ChatTypes, ShownOnce, InTurn, Over,
       Held, Fresh, AnswersLagByTimeouts
  <2>2. Lag'
    BY <1>5 DEF vars, procVars, busVars, chatVars, ChatInv, Lag, Unseen, Held, Over, Strangers
  <2>. QED BY <2>1, <2>2 DEF ChatInv
<1>. QED
  BY <1>1, <1>2, <1>3, <1>4, <1>5, StartKeepsChat, EndKeepsChat, OtherKeepsChat, AnswerKeepsChat,
     AskKeepsChat, ShowKeepsChat, TimeoutKeepsChat DEF Next, BusStep

LEMMA ChatStarts == Init => ChatInv
<1>. SUFFICES ASSUME Init PROVE ChatInv
  OBVIOUS
<1>1. \A r : ~In(r, queue) /\ ~In(r, responses) /\ ~Held(r)
  BY EmptyQueue DEF Init, Held
<1>2. ChatTypes
  BY FS_EmptySet, RepliesAssumption DEF Init, ChatTypes
<1>3. ShownOnce /\ InTurn
  BY <1>1, EmptyQueue DEF Init, ShownOnce, InTurn
<1>4. Lag
  <2>1. Cardinality(Strangers) \in Nat
    BY <1>2, StrangersCounted DEF ChatTypes
  <2>. QED BY <2>1, AnswersAreNumbers DEF Init, Lag, Over
<1>5. AnswersLagByTimeouts
  BY DEF Init, AnswersLagByTimeouts
<1>. QED BY <1>2, <1>3, <1>4, <1>5 DEF ChatInv

(* Whatever the chat shows is late by no more questions than the user      *)
(* stopped waiting for, or than replies came from earlier processes: no    *)
(* crash, failure or notice moves the answers against the questions.       *)
THEOREM AnswersKeepTheirPlace == Spec => []AnswersLagByTimeouts
<1>1. ChatInv => AnswersLagByTimeouts
  BY DEF ChatInv
<1>. QED BY <1>1, FlowStarts, FlowStep, ChatStarts, ChatStep, PTL DEF Spec
=============================================================================
