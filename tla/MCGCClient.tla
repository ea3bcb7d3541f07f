----------------------------- MODULE MCGCClient -----------------------------
(***************************************************************************)
(* GCClient for TLC.                                                       *)
(***************************************************************************)
EXTENDS GCClient

(* Two states are one when they differ only in what no step reads any more: *)
(* activeSteamID and lastWelcome, which are only written here, and what is  *)
(* in a queue that is neither the current one nor waited on, of which a     *)
(* handler still sees whether it is full.  A thread starts to wait only on  *)
(* the current queue, so such a queue is never read again.                  *)
LiveView ==
    LET readable(q) == q = events \/ \E t \in Threads : thread[t].queue = q
    IN <<conn, events, state, reauthCredentials, heartbeat, link, thread,
         [q \in Queues |-> IF readable(q) THEN queue[q] ELSE <<>>],
         [q \in Queues |-> Len(queue[q]) > Capacity]>>
=============================================================================
