---------------------------- MODULE WebSockets ----------------------------
(***************************************************************************)
(* The connections WebSocketWorker keeps, and to which source each is      *)
(* bound: at once and for good when the server has a secret and the client *)
(* showed its token, otherwise by every message it sends.  An event of a   *)
(* source goes to the connections bound to it (Replies).                   *)
(*                                                                         *)
(* A connection is here from its acceptance to the end of its read loop;   *)
(* what the client is told on the way (validation errors, the echo of its  *)
(* own message) changes no state and is left out.                          *)
(***************************************************************************)
CONSTANTS
  Clients,   \* connections
  Sources,   \* the sources of WebSocket clients
  NoSource   \* not bound

ASSUME WebSocketsAssumption == NoSource \notin Sources

VARIABLES
  secret,    \* websocket_auth_secret is configured
  badge,     \* badge[c]: authenticated_source of the connection, for its read loop
  clients,   \* the connections that are accepted
  reading,   \* those whose read loop runs
  sourceOf,  \* source_by_client
  clientsOf, \* clients_by_source
  authenticated \* authenticated_clients

wsVars == <<secret, badge, clients, reading, sourceOf, clientsOf, authenticated>>

WsInit ==
  /\ secret \in BOOLEAN
  /\ badge = [c \in Clients |-> NoSource]
  /\ clients = {} /\ reading = {} /\ authenticated = {}
  /\ sourceOf = [c \in Clients |-> NoSource]
  /\ clientsOf = [s \in Sources |-> {}]

(* Broken on purpose: the old entry of a connection that turns to another  *)
(* source stays.                                                           *)
BindAgain(c, s) ==
  /\ sourceOf' = [sourceOf EXCEPT ![c] = s]
  /\ clientsOf' = [clientsOf EXCEPT ![s] = @ \cup {c}]

(* _bind_client: the previous source loses the connection. *)
Bind(c, s) ==
  /\ sourceOf' = [sourceOf EXCEPT ![c] = s]
  /\ clientsOf' = [x \in Sources |-> IF x = s THEN clientsOf[x] \cup {c} ELSE clientsOf[x] \ {c}]

(* _remove_client, by the read loop's end or by a failed send. *)
Remove(c) ==
  /\ clients' = clients \ {c}
  /\ authenticated' = authenticated \ {c}
  /\ sourceOf' = [sourceOf EXCEPT ![c] = NoSource]
  /\ clientsOf' = [s \in Sources |-> IF s = sourceOf[c] THEN clientsOf[s] \ {c} ELSE clientsOf[s]]

(* websocket_endpoint and handle_connection. *)
Connect(c, s) ==
  /\ c \notin reading
  /\ clients' = clients \cup {c} /\ reading' = reading \cup {c} /\ UNCHANGED secret
  /\ IF secret
     THEN Bind(c, s) /\ authenticated' = authenticated \cup {c} /\ badge' = [badge EXCEPT ![c] = s]
     ELSE UNCHANGED <<badge, sourceOf, clientsOf, authenticated>>

(* A message in the name of s. *)
Receive(c, s) ==
  /\ c \in reading /\ badge[c] = NoSource
  /\ sourceOf[c] # s
  /\ Bind(c, s)
  /\ UNCHANGED <<secret, badge, clients, reading, authenticated>>

(* The client leaves, or says a source that is not its own. *)
Disconnect(c) ==
  /\ c \in reading
  /\ reading' = reading \ {c} /\ badge' = [badge EXCEPT ![c] = NoSource]
  /\ Remove(c) /\ UNCHANGED secret

(* send_json raised: the connection is forgotten, its read loop goes on. *)
Forget(c) == Remove(c) /\ UNCHANGED <<secret, badge, reading>>

(* The process ends. *)
HangUp ==
  /\ badge' = [c \in Clients |-> NoSource]
  /\ clients' = {} /\ reading' = {} /\ authenticated' = {}
  /\ sourceOf' = [c \in Clients |-> NoSource]
  /\ clientsOf' = [s \in Sources |-> {}]
  /\ UNCHANGED secret

(* Those an event of s goes to; a notice of a job only to the authenticated. *)
BoundTo(s, notice) ==
  {c \in IF s \in Sources THEN clientsOf[s] ELSE {} : notice => c \in authenticated}

(* Both tables tell the same, nothing is kept of a connection that ended,  *)
(* and an authenticated connection is bound to the source it proved.       *)
BindingsAgree ==
  /\ \A c \in Clients, s \in Sources : c \in clientsOf[s] <=> sourceOf[c] = s
  /\ \A c \in Clients : sourceOf[c] # NoSource => c \in reading
  /\ authenticated \subseteq clients
  /\ \A c \in authenticated : sourceOf[c] = badge[c]
=============================================================================
