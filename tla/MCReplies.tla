----------------------------- MODULE MCReplies -----------------------------
(***************************************************************************)
(* Two questions in the chat; a reply in two chunks for Telegram, a notice *)
(* for the session of a cron job, and a reply for a WebSocket client.      *)
(***************************************************************************)
EXTENDS Replies

HomeOf == [r \in Replies |-> CASE r = 3 -> "telegram" [] r = 4 -> "cron" [] r = 5 -> "ws1" [] OTHER -> "cli"]
ChunksOf == [r \in Replies |-> IF r = 3 THEN 2 ELSE 1]
=============================================================================
