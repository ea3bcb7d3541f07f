----------------------------- MODULE PriceReads -----------------------------
(***************************************************************************)
(* What the Shared Data Service promises a client that asks for prices,    *)
(* with the cache, the coalescing and the clock left out.  Observations of *)
(* a key are numbered in the order they are made.  An answer is an         *)
(* observation that is not older than the newest one there was when the    *)
(* question was asked, so the prices a client sees never go back in time.  *)
(* A question may also fail.                                               *)
(***************************************************************************)
EXTENDS Naturals

CONSTANTS Keys, Queries, NoKey

VARIABLES
    latest,      \* the newest observation of a key, 0 when there is none
    status,      \* of a question: "unasked", "asked", "answered", "failed"
    asked,       \* its key
    floor,       \* the newest observation when it was asked
    answer       \* its answer, 0 before there is one

readVars == <<latest, status, asked, floor, answer>>

Init ==
    /\ latest = [k \in Keys |-> 0]
    /\ status = [q \in Queries |-> "unasked"]
    /\ asked = [q \in Queries |-> NoKey]
    /\ floor = [q \in Queries |-> 0]
    /\ answer = [q \in Queries |-> 0]

Observe(k) ==
    /\ latest' = [latest EXCEPT ![k] = @ + 1]
    /\ UNCHANGED <<status, asked, floor, answer>>

Ask(q, k) ==
    /\ status[q] = "unasked"
    /\ status' = [status EXCEPT ![q] = "asked"]
    /\ asked' = [asked EXCEPT ![q] = k]
    /\ floor' = [floor EXCEPT ![q] = latest[k]]
    /\ UNCHANGED <<latest, answer>>

Answer(q) ==
    /\ status[q] = "asked"
    /\ \E v \in floor[q] .. latest[asked[q]] :
          v > 0 /\ answer' = [answer EXCEPT ![q] = v]
    /\ status' = [status EXCEPT ![q] = "answered"]
    /\ UNCHANGED <<latest, asked, floor>>

Fail(q) ==
    /\ status[q] = "asked"
    /\ status' = [status EXCEPT ![q] = "failed"]
    /\ UNCHANGED <<latest, asked, floor, answer>>

Next == \/ \E k \in Keys : Observe(k)
        \/ \E q \in Queries : \/ \E k \in Keys : Ask(q, k)
                              \/ Answer(q)
                              \/ Fail(q)

Spec == Init /\ [][Next]_readVars
=============================================================================
