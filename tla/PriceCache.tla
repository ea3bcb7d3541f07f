----------------------------- MODULE PriceCache -----------------------------
(***************************************************************************)
(* The price cache of the Shared Data Service (dataservice/cache.go) over  *)
(* the price scanner (pricescanner/scanner.go).  A query for a key is      *)
(* answered from a fresh entry, waits for a scan that is already running   *)
(* for the key, or leads a scan of its own; a failed scan may be answered  *)
(* from the expired entry the leader found.                                *)
(*                                                                         *)
(* A key stands for what cacheKey makes of the market names, the currency  *)
(* and the app ID; a result for the number of its observation.  Time is    *)
(* counted in units of the clock; a query reads it before it takes the     *)
(* mutex.  Search only reads.                                              *)
(***************************************************************************)
EXTENDS Naturals, FiniteSets

CONSTANTS
    Keys,         \* cache keys
    NoKey,        \* the key of a query that was not made yet
    Queries,      \* executions of PriceCache.Query
    NoQuery,      \* no inflight record
    AppIDOmitted, \* the queries that leave out the app ID
    ScanOutcomes, \* how a scan can end
    TTL,          \* PriceCache.ttl
    StaleTTLs,    \* the stale window, in TTLs
    MaxTime       \* bound: the last time of the clock

ASSUME CacheAssumption ==
    /\ NoKey \notin Keys
    /\ NoQuery \notin Queries
    /\ AppIDOmitted \subseteq Queries
    /\ ScanOutcomes \subseteq {"quotes", "nothing", "error"}
    /\ TTL \in Nat \ {0} /\ StaleTTLs \in Nat /\ MaxTime \in Nat

VARIABLES
    clock,       \* PriceCache.now()
    entries,     \* PriceCache.entries
    active,      \* PriceCache.active: the query whose inflight record it is
    recorded,    \* under which keys and app IDs the ObservationStore has any
    query,       \* the Query executions
    latest,      \* history: how many observations were made of a key
    floor        \* history: latest for its key when a query was made

vars == <<clock, entries, active, recorded, query, latest, floor>>

(* A cacheEntry; obs is 0 for none.  quotes says whether any provider gave  *)
(* a quote, observedAt is history: when it was stored.                      *)
Entry == [obs : Nat, quotes : BOOLEAN, observedAt : Nat, expiresAt : Nat, staleUntil : Nat]
NoEntry == [obs |-> 0, quotes |-> FALSE, observedAt |-> 0, expiresAt |-> 0, staleUntil |-> 0]

PCs == {"unasked", "asked", "waiting", "scanning", "scanned", "done", "answered", "failed"}

(* A Query execution: the locals of Query, the fields of the inflight       *)
(* record it made, and its answer.  outcome is how its scan ended.          *)
Query == [pc : PCs, key : Keys \cup {NoKey}, now : Nat, stale : Entry,
          running : Queries \cup {NoQuery},
          outcome : {"none", "quotes", "nothing", "error"},
          result : Entry, cacheState : {"none", "fresh", "stale"}, err : BOOLEAN]
NoResult == [pc |-> "unasked", key |-> NoKey, now |-> 0, stale |-> NoEntry,
             running |-> NoQuery, outcome |-> "none", result |-> NoEntry,
             cacheState |-> "none", err |-> FALSE]

TypeOK ==
    /\ clock \in Nat
    /\ entries \in [Keys -> Entry]
    /\ active \in [Keys -> Queries \cup {NoQuery}]
    /\ recorded \subseteq [key : Keys, appIDZero : BOOLEAN]
    /\ query \in [Queries -> Query]
    /\ latest \in [Keys -> Nat]
    /\ floor \in [Queries -> Nat]

Init ==
    /\ clock = 0
    /\ entries = [k \in Keys |-> NoEntry]
    /\ active = [k \in Keys |-> NoQuery]
    /\ recorded = {}
    /\ query = [q \in Queries |-> NoResult]
    /\ latest = [k \in Keys |-> 0]
    /\ floor = [q \in Queries |-> 0]
-----------------------------------------------------------------------------
Tick ==
    /\ clock < MaxTime
    /\ clock' = clock + 1
    /\ UNCHANGED <<entries, active, recorded, query, latest, floor>>

Update(q, v) == query' = [query EXCEPT ![q] = v]

Answered(me, result, state) ==
    [me EXCEPT !.pc = "done", !.result = result, !.cacheState = state]

(* Query is called: it makes its key and reads the clock.                   *)
Ask(q, k) ==
    /\ query[q].pc = "unasked"
    /\ Update(q, [query[q] EXCEPT !.pc = "asked", !.key = k, !.now = clock])
    /\ floor' = [floor EXCEPT ![q] = latest[k]]
    /\ UNCHANGED <<clock, entries, active, recorded, latest>>

(* Mutant: a query leads a scan although one is running.                    *)
LookupIgnoresActive(q) ==
    LET me == query[q]
        cached == entries[me.key]
    IN /\ me.pc = "asked"
       /\ IF cached.obs # 0 /\ me.now < cached.expiresAt
          THEN Update(q, Answered(me, cached, "fresh")) /\ UNCHANGED active
          ELSE /\ Update(q, [me EXCEPT !.pc = "scanning", !.stale = cached])
               /\ active' = [active EXCEPT ![me.key] = q]
       /\ UNCHANGED <<clock, entries, recorded, latest, floor>>

(* Mutant: an entry is still fresh at the time it expires.                  *)
LookupAtExpiry(q) ==
    LET me == query[q]
        cached == entries[me.key]
    IN /\ me.pc = "asked"
       /\ IF cached.obs # 0 /\ me.now <= cached.expiresAt
          THEN Update(q, Answered(me, cached, "fresh")) /\ UNCHANGED active
          ELSE /\ active[me.key] = NoQuery
               /\ Update(q, [me EXCEPT !.pc = "scanning", !.stale = cached])
               /\ active' = [active EXCEPT ![me.key] = q]
       /\ UNCHANGED <<clock, entries, recorded, latest, floor>>

(* The locked head of Query: a fresh entry, a scan to wait for, or a scan   *)
(* to lead, for which the entry that was found is kept.                     *)
Lookup(q) ==
    LET me == query[q]
        cached == entries[me.key]
        fresh == cached.obs # 0 /\ me.now < cached.expiresAt
    IN /\ me.pc = "asked"
       /\ \/ /\ fresh
             /\ Update(q, Answered(me, cached, "fresh"))
             /\ UNCHANGED active
          \/ /\ ~fresh /\ active[me.key] # NoQuery
             /\ Update(q, [me EXCEPT !.pc = "waiting", !.running = active[me.key]])
             /\ UNCHANGED active
          \/ /\ ~fresh /\ active[me.key] = NoQuery
             /\ Update(q, [me EXCEPT !.pc = "scanning", !.stale = cached])
             /\ active' = [active EXCEPT ![me.key] = q]
       /\ UNCHANGED <<clock, entries, recorded, latest, floor>>

(* The waiter's select: its context ends, or the inflight record is done    *)
(* and its result and error are the waiter's too.                           *)
WaitCtxDone(q) ==
    /\ query[q].pc = "waiting"
    /\ Update(q, [query[q] EXCEPT !.pc = "done", !.err = TRUE])
    /\ UNCHANGED <<clock, entries, active, recorded, latest, floor>>

(* Mutant: a scan that failed does not wake the waiters.                    *)
WaitDoneNotOnError(q) ==
    LET running == query[query[q].running]
    IN /\ query[q].pc = "waiting"
       /\ running.pc \in {"done", "answered"} /\ ~running.err
       /\ Update(q, Answered(query[q], running.result, running.cacheState))
       /\ UNCHANGED <<clock, entries, active, recorded, latest, floor>>

WaitDone(q) ==
    LET running == query[query[q].running]
    IN /\ query[q].pc = "waiting"
       /\ running.pc \in {"done", "answered", "failed"}
       /\ Update(q, [Answered(query[q], running.result, running.cacheState)
                       EXCEPT !.err = running.err])
       /\ UNCHANGED <<clock, entries, active, recorded, latest, floor>>

(* Scan returns: quotes of some provider, or nothing because every provider *)
(* failed, which is no error of Scan, or an error.                          *)
Scan(q, outcome) ==
    /\ query[q].pc = "scanning"
    /\ Update(q, [query[q] EXCEPT !.pc = "scanned", !.outcome = outcome])
    /\ UNCHANGED <<clock, entries, active, recorded, latest, floor>>

(* The observation store may fail, which is ignored; it is given the app ID *)
(* of the query, zero when it was left out.                                 *)
Record(q, k) ==
    \/ UNCHANGED recorded
    \/ recorded' = recorded \cup {[key |-> k, appIDZero |-> q \in AppIDOmitted]}

(* Mutant: the lifetime is subtracted.                                      *)
NewEntryExpired(obs, quotes) ==
    [obs |-> obs, quotes |-> quotes, observedAt |-> clock, expiresAt |-> clock - TTL,
     staleUntil |-> clock - TTL + StaleTTLs * TTL]

(* GET /v1/prices/history, which takes an app ID that is left out for the   *)
(* one that cacheKey takes it for.                                          *)
History(k) == [key |-> k, appIDZero |-> FALSE] \in recorded

(* The cacheEntry of an observation made now.                               *)
NewEntry(obs, quotes) ==
    [obs |-> obs, quotes |-> quotes, observedAt |-> clock, expiresAt |-> clock + TTL,
     staleUntil |-> clock + TTL + StaleTTLs * TTL]

(* Mutant: the error of a failed scan is not kept in the inflight record.   *)
SettleForgetsError(q) ==
    LET me == query[q]
    IN /\ me.pc = "scanned"
       /\ me.outcome = "error"
       /\ Update(q, Answered(me, me.stale, "fresh"))
       /\ active' = [active EXCEPT ![me.key] = NoQuery]
       /\ UNCHANGED <<clock, entries, recorded, latest, floor>>

(* The leader's last locked section: store the observation, or fall back on *)
(* the entry it had found; settle the inflight record and wake the waiters. *)
Settle(q) ==
    LET me == query[q]
        new == NewEntry(latest[me.key] + 1, me.outcome = "quotes")
    IN /\ me.pc = "scanned"
       /\ \/ /\ me.outcome # "error"
             /\ IF new.quotes THEN Record(q, me.key) ELSE UNCHANGED recorded
             /\ latest' = [latest EXCEPT ![me.key] = new.obs]
             /\ entries' = [entries EXCEPT ![me.key] = new]
             /\ Update(q, Answered(me, new, "fresh"))
          \/ /\ me.outcome = "error" /\ me.stale.obs # 0 /\ me.now < me.stale.staleUntil
             /\ Update(q, Answered(me, me.stale, "stale"))
             /\ UNCHANGED <<entries, recorded, latest>>
          \/ /\ me.outcome = "error" /\ (me.stale.obs = 0 \/ me.now >= me.stale.staleUntil)
             /\ Update(q, [me EXCEPT !.pc = "done", !.cacheState = "fresh", !.err = TRUE])
             /\ UNCHANGED <<entries, recorded, latest>>
       /\ active' = [active EXCEPT ![me.key] = NoQuery]
       /\ UNCHANGED <<clock, floor>>

(* Query returns its result or its error.                                   *)
Return(q) ==
    /\ query[q].pc = "done"
    /\ Update(q, [query[q] EXCEPT !.pc = IF query[q].err THEN "failed" ELSE "answered"])
    /\ UNCHANGED <<clock, entries, active, recorded, latest, floor>>
-----------------------------------------------------------------------------
QueryStep(q) == \/ Lookup(q)
                \/ WaitDone(q)
                \/ \E o \in ScanOutcomes : Scan(q, o)
                \/ Settle(q)
                \/ Return(q)

Next == \/ Tick
        \/ \E q \in Queries : \/ \E k \in Keys : Ask(q, k)
                              \/ WaitCtxDone(q)
                              \/ QueryStep(q)

Spec == Init /\ [][Next]_vars

(* The goroutine of a request is scheduled and a scan ends: every provider  *)
(* has an HTTP timeout, and the request a deadline of 25 seconds.           *)
FairSpec == Spec /\ \A q \in Queries : WF_vars(QueryStep(q))
-----------------------------------------------------------------------------
(* Properties.                                                             *)

(* Identical concurrent queries are coalesced: a key has at most one scan  *)
(* between its start and its locked end, the one the active map names, and *)
(* nobody waits on anything but a scan of the same key (Query's inflight   *)
(* records).                                                               *)
Leading == {"scanning", "scanned"}

Coalesced ==
    \A q \in Queries :
        /\ query[q].pc \in Leading => active[query[q].key] = q
        /\ query[q].pc = "waiting" =>
              /\ query[query[q].running].key = query[q].key
              /\ query[query[q].running].pc \in Leading =>
                    active[query[q].key] = query[q].running

(* An answer is as old as its label says.  "fresh": stored less than a TTL *)
(* before the query was made, or after.  "stale": past its TTL when the    *)
(* query was made, and within the stale window when the query that led the *)
(* refresh was made, although scans, failures and the clock move between   *)
(* the lookup and the answer.                                              *)
LeaderOf(q) == IF query[q].running = NoQuery THEN q ELSE query[q].running

AnswerAge ==
    \A q \in Queries : query[q].pc = "answered" =>
        LET expired == query[q].result.observedAt + TTL
        IN CASE query[q].cacheState = "fresh" -> query[q].now < expired
             [] query[q].cacheState = "stale" ->
                  /\ expired <= query[q].now
                  /\ query[LeaderOf(q)].now < expired + StaleTTLs * TTL
             [] OTHER -> FALSE

(* The cache implements PriceReads: what it answers is never older than    *)
(* the newest observation of the key when the query was made, whichever of *)
(* the entry, another query's scan or the entry kept by a failing leader   *)
(* the answer came from.                                                   *)
readStatus == [q \in Queries |->
    IF query[q].pc \in {"unasked", "answered", "failed"} THEN query[q].pc ELSE "asked"]
readKey    == [q \in Queries |-> query[q].key]
readAnswer == [q \in Queries |-> IF query[q].pc = "answered" THEN query[q].result.obs ELSE 0]

Reads == INSTANCE PriceReads WITH
    status <- readStatus, asked <- readKey, answer <- readAnswer

ImplementsReads == Reads!Spec

(* What makes these inductive.  The entry of a key is its newest            *)
(* observation; a leader is the one the active map names and still holds    *)
(* that entry, which had expired for it and for everyone who waits for it;  *)
(* and what a query has been given is well dated.                           *)
Ended == {"done", "answered", "failed"}

WellDated(e) ==
    e.obs # 0 => /\ e.observedAt <= clock
                 /\ e.expiresAt = e.observedAt + TTL
                 /\ e.staleUntil = e.expiresAt + StaleTTLs * TTL

Expired(q, e) == e.obs # 0 => e.expiresAt <= query[q].now

Served(q, e, state, leader) ==
    /\ 0 < e.obs /\ floor[q] <= e.obs /\ e.obs <= latest[query[q].key]
    /\ WellDated(e)
    /\ \/ state = "fresh" /\ query[q].now < e.expiresAt
       \/ state = "stale" /\ e.expiresAt <= query[q].now
                          /\ query[leader].now < e.staleUntil

EntryInv == \A k \in Keys : entries[k].obs = latest[k] /\ WellDated(entries[k])

AskedInv ==
    \A q \in Queries : query[q].pc # "unasked" =>
        /\ query[q].key \in Keys
        /\ query[q].now <= clock
        /\ floor[q] <= latest[query[q].key]

LeaderInv ==
    \A q \in Queries :
        /\ query[q].pc \in Leading =>
              /\ active[query[q].key] = q
              /\ query[q].stale = entries[query[q].key]
              /\ Expired(q, query[q].stale)
        /\ query[q].pc \in Leading \cup {"unasked", "asked"} => /\ query[q].running = NoQuery
                                                             /\ ~query[q].err

ActiveInv ==
    \A k \in Keys : active[k] # NoQuery =>
        query[active[k]].pc \in Leading /\ query[active[k]].key = k

RunningInv ==
    \A q \in Queries : query[q].running # NoQuery =>
        query[query[q].running].pc \in Leading \cup Ended

WaiterInv ==
    \A q \in Queries : query[q].pc = "waiting" =>
        /\ query[q].running \in Queries
        /\ query[query[q].running].key = query[q].key
        /\ \/ /\ query[query[q].running].pc \in Leading
              /\ Expired(q, entries[query[q].key])
           \/ /\ query[query[q].running].pc \in Ended
              /\ ~query[query[q].running].err =>
                    Served(q, query[query[q].running].result,
                           query[query[q].running].cacheState, query[q].running)

ResultInv ==
    \A q \in Queries :
        /\ query[q].pc \in Ended /\ ~query[q].err =>
              Served(q, query[q].result, query[q].cacheState, LeaderOf(q))
        /\ query[q].pc = "answered" => ~query[q].err

IInv == /\ TypeOK /\ EntryInv /\ AskedInv /\ LeaderInv /\ ActiveInv
        /\ RunningInv /\ WaiterInv /\ ResultInv

(* Every query returns, whatever scans fail and whoever else gives up.     *)
EveryQueryReturns ==
    \A q \in Queries : query[q].pc = "asked" ~> query[q].pc \in {"answered", "failed"}
-----------------------------------------------------------------------------
(* What the repository says of the program and the code does not keep: for *)
(* a counterexample take the outcomes "quotes" and "nothing", which are     *)
(* those of the scanner, and two queries.                                  *)

(* docs/item-price-scanner.md: an expired observation remains eligible as  *)
(* stale data when refresh fails.  A query whose refresh got nothing from  *)
(* any provider answers with the observation it had found.                 *)
StaleServedWhenRefreshFails ==
    \A q \in Queries :
        /\ query[q].pc = "answered" /\ query[q].outcome = "nothing"
        /\ query[q].stale.quotes /\ query[q].now < query[q].stale.staleUntil
        => query[q].result = query[q].stale

(* docs/item-price-scanner.md: observations are appended to the history,   *)
(* which filters by app ID, and an app ID left out is CS2.  What was        *)
(* recorded of a key can be read back under the app ID the key stands for.  *)
RecordedIsFound ==
    \A k \in Keys : (\E r \in recorded : r.key = k) => History(k)
=============================================================================
