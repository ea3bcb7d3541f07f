---------------------------- MODULE GameSnapshots ----------------------------
(***************************************************************************)
(* What refreshing the inventories of games promises, with generations,    *)
(* cancel functions, clients and settings left out.  Of every key at most  *)
(* one request is awaited, the newest; it is answered at most once, and    *)
(* never after it was superseded or given up.  A snapshot changes only by  *)
(* the answer to the awaited request, by being removed, or, for the games  *)
(* a probe looks for, by what the probe found.                             *)
(***************************************************************************)
CONSTANTS
    Keys,       \* accounts with a game each
    Requests,   \* who may ask
    Owners,     \* whose items a snapshot may hold
    NoOwner,    \* of a snapshot without items
    Probed,     \* the keys that a probe may store
    Shared,     \* the keys whose items come from whatever client there is
    Removals    \* the sets of keys that are removed at once

VARIABLES
    snapshot,   \* of every key: its status and whose items it holds
    awaited     \* the requests that are awaited, each with its key

snapshotVars == <<snapshot, awaited>>

Absent      == [status |-> "none", owner |-> NoOwner]
Failed      == [status |-> "error", owner |-> NoOwner]
Items(o)    == [status |-> "ready", owner |-> o]
Without(ks) == {w \in awaited : w[2] \notin ks}

Init ==
    /\ snapshot = [k \in Keys |-> Absent]
    /\ awaited = {}

(* The items of before stay on display while a request is awaited.          *)
Request(k) ==
    /\ snapshot' = [snapshot EXCEPT ![k].status = "loading"]
    /\ \E r \in Requests : awaited' = Without({k}) \cup {<<r, k>>}

Answers(k) == {Failed} \cup {Items(o) : o \in IF k \in Shared THEN Owners ELSE {k[1]}}

Answer(k) ==
    /\ \E answer \in Answers(k) : snapshot' = [snapshot EXCEPT ![k] = answer]
    /\ awaited' = Without({k})

(* All requests are given up, and the keys keep what they show.             *)
GiveUp == UNCHANGED snapshot /\ awaited' = {}

Remove(ks) ==
    /\ snapshot' = [k \in Keys |-> IF k \in ks THEN Absent ELSE snapshot[k]]
    /\ awaited' = Without(ks)

Probe(k) ==
    /\ snapshot' = [snapshot EXCEPT ![k] = Items(k[1])]
    /\ UNCHANGED awaited

Next == \/ GiveUp
        \/ \E w \in awaited : Answer(w[2])
        \/ \E k \in Probed : Probe(k)
        \/ \E k \in Keys : Request(k)
        \/ \E ks \in Removals : Remove(ks)

Spec == Init /\ [][Next]_snapshotVars
=============================================================================
