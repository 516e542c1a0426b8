------------------------------ MODULE Replies ------------------------------
(***************************************************************************)
(* The way of a reply from the process that made it to its reader: the     *)
(* EventBus with its pending files, and behind it either the workers of    *)
(* the server (DeliveryWorker, WebSocketWorker) or the loop of the chat    *)
(* command.  Both processes have the same pending directory, and each      *)
(* start hands out what the last process left there, whoever it was.       *)
(*                                                                         *)
(* One process at a time.  The bus handles one event after the other and   *)
(* waits for the handlers, which run side by side.  Events that are not    *)
(* outbound only delay these.  A process ends at any point: its queue, the *)
(* replies the chat has not shown and the turns under way go with it.      *)
(***************************************************************************)
EXTENDS Integers, FiniteSets, Sequences, Functions, WebSockets

CONSTANTS
  Questions,   \* what the user of the chat asks, 1 .. Questions; the answer to q is reply q
  Others,      \* the other replies
  Notices,     \* those of them that CompletionRouter makes, which have an event_id
  Home,        \* Home[r]: where the session of r is from
  Chunks,      \* Chunks[r]: how many pieces chunk_message makes of r
  MaxTries,    \* MAX_RETRIES
  MaxFailures, \* bound: sends and disk writes that fail
  MaxStarts    \* bound: processes

Answers == 1 .. Questions
Replies == Answers \cup Others
NoReply == 0

ASSUME RepliesAssumption ==
  /\ Questions \in Nat
  /\ Notices \subseteq Others /\ Answers \cap Others = {} /\ NoReply \notin Others
  /\ {"telegram", "cron", "cli"} \cap Sources = {}     \* "platform-ws:..."
  /\ Home \in [Replies -> {"telegram", "cron", "cli"} \cup Sources]
  /\ \A a \in Answers : Home[a] = "cli"
  /\ Chunks \in [Replies -> Nat \ {0}]
  /\ MaxTries \in Nat \ {0} /\ MaxFailures \in Nat /\ MaxStarts \in Nat

VARIABLES
  process,   \* "down", "server" or "chat"
  starts,    \* how many
  default,   \* default_delivery_source is set, to a Telegram chat
  fate,      \* fate[r]: what else became of it, a set of Fates
  published, \* the replies put on the bus so far, or lost with their turn
  queue,     \* the bus's queue
  files,     \* the pending files
  leftovers, \* those _recover has still to hand out
  bus,       \* the event being dispatched
  persisted, \* the replies that were on disk at some time
  whole,     \* those that arrived complete on Telegram
  arriving,  \* the last chunk that arrived there: of which reply, and how many in a row
  arrivals,  \* arrivals[r]: how often its first chunk arrived
  dropped,   \* those given up
  failures,  \* how many sends and writes failed
  chat,      \* the loop: waits for the user or for an answer
  asked,     \* the questions asked so far
  responses, \* response_queue
  shown,     \* shown[q]: what was shown after question q
  printed,   \* all that was shown
  recovered, \* what _recover handed to the chat
  timeouts   \* how often the loop stopped waiting

busVars  == <<published, queue, files, leftovers, bus, persisted>>
tgVars   == <<whole, arriving, arrivals, dropped, failures>>
chatVars == <<chat, asked, responses, shown, printed, recovered, timeouts>>
procVars == <<process, starts, default, fate>>
vars == <<procVars, busVars, tgVars, chatVars, wsVars>>

(* taken: the file is written, no handler has run; then: delivery says     *)
(* what DeliveryWorker does, addressed to whom WebSocketWorker has still   *)
(* to send.                                                                *)
Idle == [stage |-> "idle", reply |-> NoReply, delivery |-> "none", tries |-> 0, sent |-> 0, addressed |-> {}]
Taken(r) == [Idle EXCEPT !.stage = "taken", !.reply = r]

(* Its file may be gone then.  There was no connection to send it on; it    *)
(* was sent, or refused by a connection, or the process ended before it    *)
(* was sent; the chat had it in response_queue and ended.                  *)
Fates == {"nobody", "reached", "refused", "cut", "unread"}
Befalls(f, rs) == [r \in Replies |-> IF r \in rs THEN fate[r] \cup {f} ELSE fate[r]]

(* gather returns when both handlers have. *)
Gathered(b) == IF b.delivery = "none" /\ b.addressed = {} THEN Idle ELSE b

Init ==
  /\ process = "down" /\ starts = 0 /\ default = FALSE /\ fate = [r \in Replies |-> {}]
  /\ published = {} /\ queue = <<>> /\ files = {} /\ leftovers = {} /\ bus = Idle /\ persisted = {}
  /\ whole = {} /\ arriving = [reply |-> NoReply, upto |-> 0] /\ arrivals = [r \in Replies |-> 0]
  /\ dropped = {} /\ failures = 0
  /\ chat = "typing" /\ asked = 0 /\ responses = <<>>
  /\ shown = [q \in Answers |-> NoReply]
  /\ printed = {} /\ recovered = {} /\ timeouts = 0
  /\ WsInit

-----------------------------------------------------------------------------
(* The processes.                                                          *)

Start(kind) ==
  /\ process = "down" /\ starts < MaxStarts
  /\ process' = kind /\ starts' = starts + 1
  /\ leftovers' = files
  /\ UNCHANGED <<default, fate, published, queue, files, bus, persisted, tgVars, chatVars, wsVars>>

(* A crash, a stop, or the end of the chat.  What was not answered is not  *)
(* answered later; a new chat has a new session.                           *)
End ==
  /\ process # "down" /\ process' = "down"
  /\ queue' = <<>> /\ leftovers' = {} /\ bus' = Idle
  /\ chat' = "typing" /\ responses' = <<>>
  /\ published' = published \cup 1 .. asked
  /\ fate' = [r \in Replies |->
       fate[r] \cup (IF r = bus.reply /\ bus.addressed # {} THEN {"cut"} ELSE {})
               \cup (IF r \in Range(responses) THEN {"unread"} ELSE {})]
  /\ HangUp
  /\ UNCHANGED <<starts, default, files, persisted, tgVars, asked, shown, printed, recovered, timeouts>>

(* The first message of a platform, or the user, sets the default.  The    *)
(* configuration is loaded again within the debounce time (Routing).       *)
SetDefault ==
  /\ process = "server" /\ ~default /\ default' = TRUE
  /\ UNCHANGED <<process, starts, fate, busVars, tgVars, chatVars, wsVars>>

-----------------------------------------------------------------------------
(* The bus.                                                                *)

Publish(r) ==
  /\ published' = published \cup {r}
  /\ queue' = Append(queue, r)
  /\ UNCHANGED <<files, leftovers, bus, persisted>>

(* A turn of the server ends, post_message is called, or an outcome is     *)
(* routed; the last also in the chat, for the outbox is shared.            *)
PublishOther(r) ==
  /\ process = "server" \/ (process = "chat" /\ r \in Notices)
  /\ r \in Others \ published
  /\ Publish(r)
  /\ UNCHANGED <<procVars, tgVars, chatVars, wsVars>>

(* The turns of the chat's session end in the order of the questions: they *)
(* wait for the session's lock.                                            *)
PublishAnswer(q) ==
  /\ process = "chat" /\ q <= asked /\ q \notin published /\ 1 .. (q - 1) \subseteq published
  /\ Publish(q)
  /\ UNCHANGED <<procVars, tgVars, chatVars, wsVars>>

(* run takes an event, when all leftovers are handed out; _persist_outbound *)
(* writes it to disk.                                                      *)
Take(r) ==
  /\ bus = Idle /\ leftovers = {} /\ queue # <<>> /\ Head(queue) = r
  /\ queue' = Tail(queue) /\ bus' = Taken(r)
  /\ files' = files \cup {r} /\ persisted' = persisted \cup {r}
  /\ UNCHANGED <<procVars, published, leftovers, tgVars, chatVars, wsVars>>

(* The disk refuses: no handler sees the event. *)
TakeFails(r) ==
  /\ bus = Idle /\ leftovers = {} /\ queue # <<>> /\ Head(queue) = r
  /\ failures < MaxFailures /\ failures' = failures + 1
  /\ queue' = Tail(queue)
  /\ UNCHANGED <<procVars, published, files, leftovers, bus, persisted,
                 whole, arriving, arrivals, dropped, chatVars, wsVars>>

(* _recover, in the order of glob, which is any. *)
Recover(r) ==
  /\ process # "down" /\ bus = Idle /\ r \in leftovers
  /\ leftovers' = leftovers \ {r} /\ bus' = Taken(r)
  /\ recovered' = IF process = "chat" THEN recovered \cup {r} ELSE recovered
  /\ UNCHANGED <<procVars, published, queue, files, persisted, tgVars,
                 chat, asked, responses, shown, printed, timeouts, wsVars>>

-----------------------------------------------------------------------------
(* The server: DeliveryWorker and WebSocketWorker.                         *)

(* Nothing to send on: no channel of that platform, and so the reply is    *)
(* acknowledged.                                                           *)
NoChannel(r) == Home[r] = "cli" \/ Home[r] \in Sources
NoAddress(r) == Home[r] = "cron" /\ ~default

(* Both handlers up to their first await.  Without an address the reply is *)
(* not acknowledged and stays on disk.                                     *)
Notify(r) ==
  /\ process = "server" /\ bus = Taken(r)
  /\ bus' = Gathered([bus EXCEPT !.stage = "handled",
                                 !.delivery = IF NoChannel(r) \/ NoAddress(r) THEN "none" ELSE "sending",
                                 !.addressed = BoundTo(Home[r], r \in Notices)])
  /\ files' = IF NoChannel(r) THEN files \ {r} ELSE files
  /\ fate' = IF NoChannel(r) /\ BoundTo(Home[r], r \in Notices) = {} THEN Befalls("nobody", {r}) ELSE fate
  /\ UNCHANGED <<process, starts, default, published, queue, leftovers, persisted, tgVars, chatVars, wsVars>>

(* The k-th chunk of r reaches the platform. *)
Arrives(r, k) ==
  LET inRow == IF k = 1 THEN 1
               ELSE IF arriving = [reply |-> r, upto |-> k - 1] THEN k ELSE 0
  IN /\ arriving' = [reply |-> r, upto |-> inRow]
     /\ arrivals' = IF k = 1 THEN [arrivals EXCEPT ![r] = @ + 1] ELSE arrivals
     /\ whole' = IF inRow = Chunks[r] THEN whole \cup {r} ELSE whole

Reply(r) ==
  /\ bus.reply = r /\ bus.delivery = "sending" /\ bus.sent < Chunks[r]
  /\ Arrives(r, bus.sent + 1)
  /\ bus' = [bus EXCEPT !.sent = @ + 1]
  /\ UNCHANGED <<procVars, published, queue, files, leftovers, persisted, dropped, failures, chatVars, wsVars>>

(* Broken on purpose: the retry goes on behind the chunk that failed. *)
ReplyFailsSkipping(r) ==
  /\ bus.reply = r /\ bus.delivery = "sending" /\ bus.sent < Chunks[r]
  /\ failures < MaxFailures /\ failures' = failures + 1
  /\ bus' = [bus EXCEPT !.tries = @ + 1, !.sent = @ + 1]
  /\ UNCHANGED <<procVars, published, queue, files, leftovers, persisted,
                 whole, arriving, arrivals, dropped, chatVars, wsVars>>

(* Broken on purpose: the failure is logged and taken for a delivery. *)
ReplyFailsQuietly(r) ==
  /\ bus.reply = r /\ bus.delivery = "sending" /\ bus.sent < Chunks[r]
  /\ failures < MaxFailures /\ failures' = failures + 1
  /\ bus' = [bus EXCEPT !.delivery = "dropping"]
  /\ UNCHANGED <<procVars, published, queue, files, leftovers, persisted,
                 whole, arriving, arrivals, dropped, chatVars, wsVars>>

(* channel.reply raises: after the backoff the whole reply is sent again,  *)
(* and given up after MAX_RETRIES.                                         *)
ReplyFails(r) ==
  /\ bus.reply = r /\ bus.delivery = "sending" /\ bus.sent < Chunks[r]
  /\ failures < MaxFailures /\ failures' = failures + 1
  /\ IF bus.tries + 1 < MaxTries
     THEN bus' = [bus EXCEPT !.tries = @ + 1, !.sent = 0] /\ UNCHANGED dropped
     ELSE bus' = [bus EXCEPT !.delivery = "dropping"] /\ dropped' = dropped \cup {r}
  /\ UNCHANGED <<procVars, published, queue, files, leftovers, persisted,
                 whole, arriving, arrivals, chatVars, wsVars>>

(* ack, whether the reply was delivered or given up. *)
Ack(r) ==
  /\ bus.reply = r
  /\ bus.delivery = "dropping" \/ (bus.delivery = "sending" /\ bus.sent = Chunks[r])
  /\ bus' = Gathered([bus EXCEPT !.delivery = "none"])
  /\ files' = files \ {r}
  /\ UNCHANGED <<procVars, published, queue, leftovers, persisted, tgVars, chatVars, wsVars>>

(* send_json to one of the connections that were bound at the start. *)
Send(c) ==
  /\ c \in bus.addressed
  /\ bus' = Gathered([bus EXCEPT !.addressed = @ \ {c}])
  /\ fate' = Befalls("reached", {bus.reply})
  /\ UNCHANGED <<process, starts, default, published, queue, files, leftovers, persisted, tgVars, chatVars, wsVars>>

SendFails(c) ==
  /\ c \in bus.addressed
  /\ bus' = Gathered([bus EXCEPT !.addressed = @ \ {c}])
  /\ fate' = Befalls("refused", {bus.reply})
  /\ Forget(c)
  /\ UNCHANGED <<process, starts, default, published, queue, files, leftovers, persisted, tgVars, chatVars>>

(* A connection that is still sent to is not mistaken for a new one. *)
Connection(c) ==
  /\ process = "server"
  /\ \/ c \notin bus.addressed /\ \E s \in Sources : Connect(c, s)
     \/ \E s \in Sources : Receive(c, s)
     \/ Disconnect(c)
  /\ UNCHANGED <<procVars, busVars, tgVars, chatVars>>

-----------------------------------------------------------------------------
(* The chat.                                                               *)

Ask ==
  /\ process = "chat" /\ chat = "typing" /\ asked < Questions
  /\ chat' = "waiting" /\ asked' = asked + 1
  /\ UNCHANGED <<procVars, busVars, tgVars, responses, shown, printed, recovered, timeouts, wsVars>>

(* Broken on purpose: notices go the way of answers. *)
HandleAll(r) ==
  /\ process = "chat" /\ bus = Taken(r)
  /\ responses' = Append(responses, r)
  /\ files' = files \ {r} /\ bus' = Idle
  /\ UNCHANGED <<procVars, published, queue, leftovers, persisted, tgVars,
                 chat, asked, shown, printed, recovered, timeouts, wsVars>>

(* handle_outbound_event: a notice is shown at once, anything else is the  *)
(* answer somebody waits for; both are acknowledged.                       *)
HandleOutbound(r) ==
  /\ process = "chat" /\ bus = Taken(r)
  /\ IF r \in Notices
     THEN printed' = printed \cup {r} /\ UNCHANGED responses
     ELSE responses' = Append(responses, r) /\ UNCHANGED printed
  /\ files' = files \ {r} /\ bus' = Idle
  /\ UNCHANGED <<procVars, published, queue, leftovers, persisted, tgVars,
                 chat, asked, shown, recovered, timeouts, wsVars>>

(* The first response, whatever it answers. *)
Show ==
  /\ process = "chat" /\ chat = "waiting" /\ responses # <<>>
  /\ shown' = [shown EXCEPT ![asked] = Head(responses)]
  /\ printed' = printed \cup {Head(responses)}
  /\ responses' = Tail(responses) /\ chat' = "typing"
  /\ UNCHANGED <<procVars, busVars, tgVars, asked, recovered, timeouts, wsVars>>

(* 120 seconds; the turn goes on. *)
Timeout ==
  /\ process = "chat" /\ chat = "waiting" /\ responses = <<>>
  /\ chat' = "typing" /\ timeouts' = timeouts + 1
  /\ UNCHANGED <<procVars, busVars, tgVars, asked, responses, shown, printed, recovered, wsVars>>

-----------------------------------------------------------------------------
Dispatch(r) ==
  \/ Take(r) \/ TakeFails(r) \/ Recover(r) \/ Notify(r) \/ HandleOutbound(r)
  \/ Reply(r) \/ ReplyFails(r) \/ Ack(r)

BusStep == (\E r \in Replies : Dispatch(r)) \/ (\E c \in Clients : Send(c) \/ SendFails(c))

Next ==
  \/ \E kind \in {"server", "chat"} : Start(kind)
  \/ End \/ SetDefault
  \/ \E r \in Others : PublishOther(r)
  \/ \E q \in Answers : PublishAnswer(q)
  \/ BusStep
  \/ \E c \in Clients : Connection(c)
  \/ Ask \/ Show \/ Timeout

Spec == Init /\ [][Next]_vars

-----------------------------------------------------------------------------
(* Types. *)
TypeOK ==
  /\ process \in {"down", "server", "chat"} /\ starts \in 0 .. MaxStarts
  /\ default \in BOOLEAN /\ fate \in [Replies -> SUBSET Fates]
  /\ published \subseteq Replies /\ queue \in Seq(Replies)
  /\ files \subseteq persisted /\ leftovers \subseteq files /\ persisted \subseteq Replies
  /\ bus \in [stage : {"idle", "taken", "handled"}, reply : Replies \cup {NoReply},
              delivery : {"none", "sending", "dropping"}, tries : 0 .. MaxTries - 1,
              sent : Nat, addressed : SUBSET Clients]
  /\ whole \subseteq Replies /\ dropped \subseteq Replies /\ recovered \subseteq Replies
  /\ arrivals \in [Replies -> Nat] /\ failures \in 0 .. MaxFailures
  /\ chat \in {"typing", "waiting"} /\ asked \in 0 .. Questions
  /\ responses \in Seq(Replies) /\ printed \subseteq Replies
  /\ shown \in [Answers -> Replies \cup {NoReply}] /\ timeouts \in Nat

(* On the screen of a chat, or before its user when it ended.              *)
Before(r) == r \in printed \cup Range(responses) \/ "unread" \in fate[r]

(* What was on disk and is there no more came to somebody.  A reply for    *)
(* Telegram arrived complete or was given up, unless a chat, which takes   *)
(* whatever it finds, showed it.  An answer of the chat came before its    *)
(* user, unless a server took it, which has nothing to send it on.  A      *)
(* reply for a WebSocket client is acknowledged before it is sent: it was  *)
(* sent or refused, its process ended while it sent, or no connection was  *)
(* bound, for a notice no authenticated one.  Crashes and failures between *)
(* any two steps are no further excuse.                                    *)
AcknowledgedHasArrived ==
  \A r \in persisted \ files :
    /\ Home[r] \in {"telegram", "cron"} => r \in whole \cup dropped \/ Before(r)
    /\ Home[r] = "cli" => "nobody" \in fate[r] \/ Before(r)
    /\ Home[r] \in Sources =>
         \/ fate[r] \cap {"nobody", "reached", "refused", "cut"} # {}
         \/ bus.reply = r /\ bus.addressed # {}
         \/ Before(r)

(* The chunks of a reply arrive one behind the other, with none of another *)
(* reply or of an earlier try in between and none left out; a reply is     *)
(* begun again only for a failure or a start.                              *)
ChunksArriveInRow ==
  /\ arriving.reply # NoReply => arriving.upto > 0
  /\ \A r \in Replies : arrivals[r] <= starts + failures

(* An answer in the chat is that of the question or of one before it, and  *)
(* late by no more questions than there were timeouts and replies of an    *)
(* earlier process; a notice never takes the place of an answer.           *)
AnswersLagByTimeouts ==
  \A q \in Answers : shown[q] # NoReply =>
    \/ shown[q] \in recovered
    \/ shown[q] \in Answers /\ shown[q] <= q
       /\ q - shown[q] <= timeouts + Cardinality(recovered)

(* eventbus.py: an acknowledgement is of a successful delivery. *)
AcknowledgedIsDelivered ==
  \A r \in persisted \ files : Home[r] = "telegram" => r \in whole \cup dropped

(* The chat shows the answer to the question before it. *)
AnswerFitsQuestion == \A q \in Answers : shown[q] \in {NoReply, q}
=============================================================================
