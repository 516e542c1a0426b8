--------------------------- MODULE MCSessionGates ---------------------------
(***************************************************************************)
(* Three turns of agent A in one session or after its compaction; a        *)
(* message to A that waits for a job of B, which waits for a job of A,     *)
(* while another message goes to B; a message with a job of its own.       *)
(***************************************************************************)
EXTENDS SessionGates

CONSTANTS t1, t2, t3, t4, A, B, s1, s2, s3, n1

TwoMessagesAndAResumption == [t \in Turns |-> IF t = t3 THEN "resume" ELSE "chat"]
MessagesAndNestedJobs     == [t \in Turns |-> IF t \in {t2, t3} THEN "job" ELSE "chat"]
MessagesAndAJob           == [t \in Turns |-> IF t = t3 THEN "job" ELSE "chat"]

NoJobs == [t \in Turns |-> NoTurn]
Chain  == [t \in Turns |-> CASE t = t1 -> t2 [] t = t2 -> t3 [] OTHER -> NoTurn]
LastIsChild == [t \in Turns |-> IF t = t1 THEN t3 ELSE NoTurn]

OnePlace  == [a \in Agents |-> 1]
TwoPlaces == [a \in Agents |-> 2]

AllOfA      == [s \in Sessions |-> A]
Alternately == [s \in Sessions |-> IF s \in {s2, s3} THEN B ELSE A]
OneOfA      == [s \in Sessions |-> IF s = s1 THEN A ELSE B]

OneSession  == [t \in Turns |-> IF t = t1 THEN {s1} ELSE {s1, n1}]
OwnSessions ==
  [t \in Turns |-> CASE t = t1 -> {s1} [] t = t2 -> {s2} [] t = t3 -> {n1} [] OTHER -> {s3}]
=============================================================================
