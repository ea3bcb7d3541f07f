-------------------------- MODULE PriceCacheProofs --------------------------
(***************************************************************************)
(* Proofs about PriceCache for every set of keys and queries, every TTL    *)
(* and every stale window: type correctness, coalescing, the age of an     *)
(* answer, and that the cache implements PriceReads.                       *)
(***************************************************************************)
EXTENDS PriceCache, TLAPS

LEMMA Window == TTL \in Nat /\ TTL > 0 /\ StaleTTLs * TTL \in Nat
BY CacheAssumption

LEMMA NoEntryType == NoEntry \in Entry
BY DEF NoEntry, Entry

LEMMA TypeInit == Init => TypeOK
<1>1. NoResult \in Query
  BY NoEntryType DEF NoResult, Query, PCs
<1>2. QED
  BY <1>1, NoEntryType DEF Init, TypeOK

(* An action changes one query.                                             *)
LEMMA UpdateOne ==
    ASSUME TypeOK, NEW q \in Queries, NEW v \in Query, Update(q, v)
    PROVE  /\ query' \in [Queries -> Query]
           /\ query'[q] = v
           /\ \A r \in Queries : r # q => query'[r] = query[r]
BY DEF TypeOK, Update

LEMMA AnsweredType ==
    ASSUME NEW me \in Query, NEW e \in Entry, NEW state \in {"fresh", "stale", "none"}
    PROVE  /\ Answered(me, e, state) \in Query
           /\ Answered(me, e, state).pc = "done"
           /\ Answered(me, e, state).result = e
           /\ Answered(me, e, state).cacheState = state
           /\ Answered(me, e, state).key = me.key
           /\ Answered(me, e, state).now = me.now
           /\ Answered(me, e, state).running = me.running
           /\ Answered(me, e, state).err = me.err
BY DEF Answered, Query, PCs

LEMMA NewEntryType ==
    ASSUME TypeOK, NEW obs \in Nat, NEW quotes \in BOOLEAN
    PROVE  /\ NewEntry(obs, quotes) \in Entry
           /\ NewEntry(obs, quotes).obs = obs
           /\ NewEntry(obs, quotes).observedAt = clock
           /\ NewEntry(obs, quotes).expiresAt = clock + TTL
           /\ NewEntry(obs, quotes).staleUntil = clock + TTL + StaleTTLs * TTL
BY Window DEF NewEntry, Entry, TypeOK

(* A step keeps the types.  That a lookup and a wait read an entry and a    *)
(* query that exist is part of the invariant.                               *)
LEMMA TypeStep == ASSUME IInv, [Next]_vars PROVE TypeOK'
<1>0. TypeOK /\ AskedInv /\ WaiterInv
  BY DEF IInv
<1>q. \A q \in Queries : query[q] \in Query
  BY <1>0 DEF TypeOK
<1>1. CASE Tick
  BY <1>0, <1>1 DEF Tick, TypeOK
<1> DEFINE Rest == /\ clock' \in Nat
                   /\ entries' \in [Keys -> Entry]
                   /\ active' \in [Keys -> Queries \cup {NoQuery}]
                   /\ recorded' \subseteq [key : Keys, appIDZero : BOOLEAN]
                   /\ latest' \in [Keys -> Nat]
                   /\ floor' \in [Queries -> Nat]
<1>a. ASSUME NEW q \in Queries, NEW v \in Query, Update(q, v), Rest PROVE TypeOK'
  BY <1>0, <1>a, UpdateOne DEF TypeOK
<1>2. ASSUME NEW q \in Queries, NEW k \in Keys, Ask(q, k) PROVE TypeOK'
  <2>1. [query[q] EXCEPT !.pc = "asked", !.key = k, !.now = clock] \in Query
    <3>1. PICK me \in Query, t \in Nat : me = query[q] /\ t = clock
      BY <1>0, <1>q DEF TypeOK
    <3>2. [me EXCEPT !.pc = "asked", !.key = k, !.now = t] \in Query
      BY DEF Query, PCs
    <3>3. QED
      BY <3>1, <3>2
  <2>2. Rest
    BY <1>0, <1>2 DEF TypeOK, Ask
  <2>3. QED
    BY <1>2, <1>a, <2>1, <2>2 DEF Ask
<1>3. ASSUME NEW q \in Queries, WaitCtxDone(q) PROVE TypeOK'
  <2>1. [query[q] EXCEPT !.pc = "done", !.err = TRUE] \in Query
    <3>1. PICK me \in Query : me = query[q]
      BY <1>q
    <3>2. [me EXCEPT !.pc = "done", !.err = TRUE] \in Query
      BY DEF Query, PCs
    <3>3. QED
      BY <3>1, <3>2
  <2>2. Rest
    BY <1>0, <1>3 DEF TypeOK, WaitCtxDone
  <2>3. QED
    BY <1>3, <1>a, <2>1, <2>2 DEF WaitCtxDone
<1>4. ASSUME NEW q \in Queries, Return(q) PROVE TypeOK'
  <2>1. [query[q] EXCEPT !.pc = IF query[q].err THEN "failed" ELSE "answered"] \in Query
    <3>1. PICK me \in Query : me = query[q]
      BY <1>q
    <3>2. [me EXCEPT !.pc = IF me.err THEN "failed" ELSE "answered"] \in Query
      BY DEF Query, PCs
    <3>3. QED
      BY <3>1, <3>2
  <2>2. Rest
    BY <1>0, <1>4 DEF TypeOK, Return
  <2>3. QED
    BY <1>4, <1>a, <2>1, <2>2 DEF Return
<1>5. ASSUME NEW q \in Queries, NEW o \in ScanOutcomes, Scan(q, o) PROVE TypeOK'
  <2>0. o \in {"quotes", "nothing", "error"}
    BY CacheAssumption
  <2>1. [query[q] EXCEPT !.pc = "scanned", !.outcome = o] \in Query
    <3>1. PICK me \in Query : me = query[q]
      BY <1>q
    <3>2. [me EXCEPT !.pc = "scanned", !.outcome = o] \in Query
      BY <2>0 DEF Query, PCs
    <3>3. QED
      BY <3>1, <3>2
  <2>2. Rest
    BY <1>0, <1>5 DEF TypeOK, Scan
  <2>3. QED
    BY <1>5, <1>a, <2>1, <2>2 DEF Scan
<1>6. ASSUME NEW q \in Queries, WaitDone(q) PROVE TypeOK'
  <2>1. query[query[q].running] \in Query /\ query[q] \in Query
    BY <1>0, <1>6 DEF WaitDone, WaiterInv, TypeOK
  <2> DEFINE r == query[query[q].running]
             w == Answered(query[q], r.result, r.cacheState)
  <2>2. r.result \in Entry /\ r.cacheState \in {"fresh", "stale", "none"} /\ r.err \in BOOLEAN
    BY <2>1 DEF Query
  <2>3. w \in Query
    BY <2>1, <2>2, AnsweredType
  <2>4. Update(q, [w EXCEPT !.err = r.err])
    BY <1>6 DEF WaitDone
  <2>5. Rest
    BY <1>0, <1>6 DEF TypeOK, WaitDone
  <2> HIDE DEF r, w
  <2>6. [w EXCEPT !.err = r.err] \in Query
    BY <2>2, <2>3 DEF Query
  <2>7. QED
    BY <1>a, <2>4, <2>5, <2>6
<1>7. ASSUME NEW q \in Queries, Lookup(q) PROVE TypeOK'
  <2>1. query[q].key \in Keys /\ query[q] \in Query
    BY <1>0, <1>7 DEF Lookup, AskedInv, TypeOK
  <2>2. entries[query[q].key] \in Entry /\ active[query[q].key] \in Queries \cup {NoQuery}
    BY <1>0, <2>1 DEF TypeOK
  <2>3. Rest
    BY <1>0, <1>7, <2>1 DEF TypeOK, Lookup
  <2>4. /\ Answered(query[q], entries[query[q].key], "fresh") \in Query
        /\ [query[q] EXCEPT !.pc = "waiting", !.running = active[query[q].key]] \in Query
        /\ [query[q] EXCEPT !.pc = "scanning", !.stale = entries[query[q].key]] \in Query
    <3>1. Answered(query[q], entries[query[q].key], "fresh") \in Query
      BY <2>1, <2>2, AnsweredType
    <3>2. PICK me \in Query, e \in Entry, r \in Queries \cup {NoQuery} :
             me = query[q] /\ e = entries[query[q].key] /\ r = active[query[q].key]
      BY <2>1, <2>2
    <3>3. [me EXCEPT !.pc = "waiting", !.running = r] \in Query
      BY DEF Query, PCs
    <3>4. [me EXCEPT !.pc = "scanning", !.stale = e] \in Query
      BY DEF Query, PCs
    <3>5. QED
      BY <3>1, <3>2, <3>3, <3>4
  <2>5. QED
    BY <1>7, <1>a, <2>3, <2>4 DEF Lookup
<1>8. ASSUME NEW q \in Queries, Settle(q) PROVE TypeOK'
  <2>1. query[q].key \in Keys /\ query[q] \in Query /\ latest[query[q].key] \in Nat
    BY <1>0, <1>8 DEF Settle, AskedInv, TypeOK
  <2> DEFINE new == NewEntry(latest[query[q].key] + 1, query[q].outcome = "quotes")
  <2>2. new \in Entry /\ new.obs \in Nat
    <3>1. latest[query[q].key] + 1 \in Nat /\ (query[q].outcome = "quotes") \in BOOLEAN
      BY <2>1
    <3>2. QED
      BY <1>0, <3>1, NewEntryType
  <2>3. Rest
    <3>1. \/ latest' = latest /\ entries' = entries
          \/ /\ latest' = [latest EXCEPT ![query[q].key] = new.obs]
             /\ entries' = [entries EXCEPT ![query[q].key] = new]
      BY <1>8 DEF Settle
    <3>0. recorded' \subseteq [key : Keys, appIDZero : BOOLEAN]
      <4>1. [key |-> query[q].key, appIDZero |-> q \in AppIDOmitted]
               \in [key : Keys, appIDZero : BOOLEAN]
        BY <2>1
      <4>2. Record(q, query[q].key) \/ recorded' = recorded
        BY <1>8 DEF Settle
      <4>3. QED
        BY <1>0, <4>1, <4>2 DEF Record, TypeOK
    <3>2. /\ active' = [active EXCEPT ![query[q].key] = NoQuery]
          /\ UNCHANGED <<clock, floor>>
      BY <1>8 DEF Settle
    <3> HIDE DEF new
    <3>3. QED
      BY <1>0, <2>1, <2>2, <3>0, <3>1, <3>2 DEF TypeOK
  <2>4. query[q].stale \in Entry
    BY <2>1 DEF Query
  <2>5. /\ Answered(query[q], new, "fresh") \in Query
        /\ Answered(query[q], query[q].stale, "stale") \in Query
        /\ [query[q] EXCEPT !.pc = "done", !.cacheState = "fresh", !.err = TRUE] \in Query
    <3> HIDE DEF new
    <3>1. Answered(query[q], new, "fresh") \in Query
      BY <2>1, <2>2, AnsweredType
    <3>2. Answered(query[q], query[q].stale, "stale") \in Query
      BY <2>1, <2>4, AnsweredType
    <3>3. PICK me \in Query : me = query[q]
      BY <2>1
    <3>4. [me EXCEPT !.pc = "done", !.cacheState = "fresh", !.err = TRUE] \in Query
      BY DEF Query, PCs
    <3>5. QED
      BY <3>1, <3>2, <3>3, <3>4
  <2>6. QED
    BY <1>8, <1>a, <2>3, <2>5 DEF Settle
<1>9. CASE UNCHANGED vars
  BY <1>0, <1>9 DEF vars, TypeOK
<1>10. QED
  BY <1>1, <1>2, <1>3, <1>4, <1>5, <1>6, <1>7, <1>8, <1>9 DEF Next, QueryStep
-----------------------------------------------------------------------------
LEMMA InitInv == Init => IInv
<1> SUFFICES ASSUME Init PROVE IInv
  OBVIOUS
<1>1. TypeOK
  BY TypeInit
<1>2. \A q \in Queries : query[q] = NoResult
  BY DEF Init
<1>3. \A k \in Keys : entries[k] = NoEntry /\ active[k] = NoQuery /\ latest[k] = 0
  BY DEF Init
<1>4. EntryInv /\ ActiveInv
  BY <1>3 DEF EntryInv, ActiveInv, WellDated, NoEntry
<1>5. AskedInv /\ LeaderInv /\ RunningInv /\ WaiterInv /\ ResultInv
  BY <1>2 DEF AskedInv, LeaderInv, RunningInv, WaiterInv, ResultInv, NoResult, Leading, Ended
<1>6. QED
  BY <1>1, <1>4, <1>5 DEF IInv

LEMMA TickInv == ASSUME IInv, TypeOK', Tick PROVE IInv'
<1>1. /\ clock <= clock' /\ clock \in Nat /\ clock' \in Nat
      /\ UNCHANGED <<entries, active, query, latest, floor>>
  BY DEF Tick, IInv, TypeOK
<1>2. /\ \A q \in Queries : query[q].now \in Nat /\ query[q].result \in Entry
      /\ \A k \in Keys : entries[k] \in Entry
  BY DEF IInv, TypeOK, Query
<1>3. EntryInv' /\ AskedInv'
  BY <1>1, <1>2 DEF IInv, EntryInv, AskedInv, WellDated, Entry
<1>4. LeaderInv' /\ ActiveInv' /\ RunningInv'
  BY <1>1 DEF IInv, LeaderInv, ActiveInv, RunningInv, Expired
<1>s. \A e \in Entry : WellDated(e) => WellDated(e)'
  BY <1>1 DEF WellDated, Entry
<1>5. WaiterInv'
  <2>1. ASSUME NEW q \in Queries, query'[q].pc = "waiting"
        PROVE  /\ query[q].running \in Queries
               /\ query[query[q].running].key = query[q].key
               /\ \/ /\ query[query[q].running].pc \in Leading
                     /\ Expired(q, entries[query[q].key])
                  \/ /\ query[query[q].running].pc \in Ended
                     /\ ~query[query[q].running].err =>
                           Served(q, query[query[q].running].result,
                                  query[query[q].running].cacheState, query[q].running)
    BY <2>1, <1>1 DEF IInv, WaiterInv
  <2>2. ASSUME NEW q \in Queries, NEW e \in Entry, NEW state, NEW l, Served(q, e, state, l)
        PROVE  Served(q, e, state, l)'
    BY <2>2, <1>1, <1>s DEF Served
  <2>3. QED
    BY <2>1, <2>2, <1>1, <1>2 DEF WaiterInv, Expired
<1>6. ResultInv'
  BY <1>1, <1>2 DEF IInv, ResultInv, Served, WellDated, Entry, LeaderOf
<1>7. QED
  BY <1>3, <1>4, <1>5, <1>6 DEF IInv

(* A query that was not made is in nobody's way.                            *)
LEMMA AskInv ==
    ASSUME IInv, TypeOK', NEW q \in Queries, NEW k \in Keys, Ask(q, k) PROVE IInv'
<1>0. TypeOK
  BY DEF IInv
<1>1. PICK me \in Query, t \in Nat : me = query[q] /\ t = clock
  BY <1>0 DEF TypeOK
<1> DEFINE v == [me EXCEPT !.pc = "asked", !.key = k, !.now = t]
<1>2. /\ v \in Query
      /\ v.pc = "asked" /\ v.key = k /\ v.now = clock
      /\ v.running = query[q].running /\ v.err = query[q].err
  <2>1. v \in Query
    BY DEF Query, PCs
  <2>2. v.pc = "asked" /\ v.key = k /\ v.now = t /\ v.running = me.running /\ v.err = me.err
    BY DEF Query, PCs
  <2> HIDE DEF v
  <2>3. QED
    BY <1>1, <2>1, <2>2
<1>3. /\ query'[q] = v
      /\ \A r \in Queries : r # q => query'[r] = query[r]
      /\ floor'[q] = latest[k] /\ \A r \in Queries : r # q => floor'[r] = floor[r]
      /\ query[q].pc = "unasked"
      /\ UNCHANGED <<clock, entries, active, latest>>
  <2>1. Update(q, v)
    BY <1>1 DEF Ask, Update
  <2>2. QED
    BY <1>0, <1>2, <2>1, UpdateOne DEF Ask, TypeOK
<1> HIDE DEF v
<1>4. clock \in Nat /\ \A x \in Keys : latest[x] \in Nat
  BY <1>0 DEF TypeOK
<1>5. EntryInv' /\ AskedInv'
  BY <1>2, <1>3, <1>4 DEF IInv, EntryInv, AskedInv, WellDated
<1>6. LeaderInv' /\ ActiveInv'
  BY <1>0, <1>2, <1>3 DEF IInv, LeaderInv, ActiveInv, Expired, Leading, TypeOK
<1>7. \A r \in Queries : query[r].running # q /\ (r # q => query[r].running \in Queries \cup {NoQuery})
  BY <1>0, <1>3, CacheAssumption DEF IInv, RunningInv, Leading, Ended, TypeOK, Query
<1>8. RunningInv'
  <2>1. query'[q].running = NoQuery
    BY <1>2, <1>3 DEF IInv, LeaderInv
  <2>2. ASSUME NEW r \in Queries, r # q, query'[r].running # NoQuery
        PROVE  query'[query'[r].running].pc \in Leading \cup Ended
    BY <2>2, <1>3, <1>7 DEF IInv, RunningInv
  <2>3. QED
    BY <2>1, <2>2 DEF RunningInv
<1>9. WaiterInv'
  BY <1>2, <1>3, <1>7 DEF IInv, WaiterInv, Served, WellDated, Expired
<1>10. ResultInv'
  BY <1>2, <1>3, <1>7 DEF IInv, ResultInv, Served, WellDated, LeaderOf, Ended
<1>11. QED
  BY <1>5, <1>6, <1>8, <1>9, <1>10 DEF IInv

(* A waiter gives up, a scan ends, or a query returns: nothing another      *)
(* query relies on changes.                                                 *)
LEMMA LocalStepInv ==
    ASSUME IInv, TypeOK', NEW q \in Queries,
           WaitCtxDone(q) \/ Return(q) \/ \E o \in ScanOutcomes : Scan(q, o)
    PROVE  IInv'
<1>0. TypeOK
  BY DEF IInv
<1>1. PICK me \in Query : me = query[q]
  BY <1>0 DEF TypeOK
<1>2. PICK v \in Query :
         /\ Update(q, v)
         /\ v.key = me.key /\ v.now = me.now /\ v.running = me.running
         /\ v.stale = me.stale
         /\ \/ me.pc = "waiting" /\ v.pc = "done" /\ v.err
            \/ /\ me.pc = "done" /\ v.pc \in {"failed", "answered"}
               /\ v.err = me.err /\ v.result = me.result
               /\ v.cacheState = me.cacheState /\ (v.pc = "answered" => ~v.err)
            \/ me.pc = "scanning" /\ v.pc = "scanned" /\ v.err = me.err
  <2>1. CASE WaitCtxDone(q)
    <3> DEFINE w == [me EXCEPT !.pc = "done", !.err = TRUE]
    <3>1. w \in Query
      BY DEF Query, PCs
    <3>2. /\ w.key = me.key /\ w.now = me.now /\ w.running = me.running
          /\ w.stale = me.stale /\ w.pc = "done" /\ w.err
      BY DEF Query, PCs
    <3>3. Update(q, w) /\ me.pc = "waiting"
      BY <1>1, <2>1 DEF WaitCtxDone
    <3> HIDE DEF w
    <3>4. QED
      BY <3>1, <3>2, <3>3
  <2>2. CASE Return(q)
    <3> DEFINE w == [me EXCEPT !.pc = IF me.err THEN "failed" ELSE "answered"]
    <3>1. w \in Query
      BY DEF Query, PCs
    <3>2. /\ w.key = me.key /\ w.now = me.now /\ w.running = me.running
          /\ w.stale = me.stale /\ w.pc = (IF me.err THEN "failed" ELSE "answered")
          /\ w.err = me.err /\ w.result = me.result /\ w.cacheState = me.cacheState
      BY DEF Query, PCs
    <3>3. Update(q, w) /\ me.pc = "done"
      BY <1>1, <2>2 DEF Return
    <3> HIDE DEF w
    <3>4. QED
      BY <3>1, <3>2, <3>3
  <2>3. ASSUME NEW o \in ScanOutcomes, Scan(q, o)
        PROVE  \E v \in Query :
                 /\ Update(q, v)
                 /\ v.key = me.key /\ v.now = me.now /\ v.running = me.running
                 /\ v.stale = me.stale
                 /\ me.pc = "scanning" /\ v.pc = "scanned" /\ v.err = me.err
    <3> DEFINE w == [me EXCEPT !.pc = "scanned", !.outcome = o]
    <3>0. o \in {"quotes", "nothing", "error"}
      BY CacheAssumption
    <3>1. w \in Query
      BY <3>0 DEF Query, PCs
    <3>2. /\ w.key = me.key /\ w.now = me.now /\ w.running = me.running
          /\ w.stale = me.stale /\ w.pc = "scanned" /\ w.err = me.err
      BY DEF Query, PCs
    <3>3. Update(q, w) /\ me.pc = "scanning"
      BY <1>1, <2>3 DEF Scan
    <3> HIDE DEF w
    <3>4. QED
      BY <3>1, <3>2, <3>3
  <2>4. QED
    BY <2>1, <2>2, <2>3
<1>3. /\ query'[q] = v
      /\ \A r \in Queries : r # q => query'[r] = query[r]
      /\ UNCHANGED <<clock, entries, active, latest, floor>>
  BY <1>0, <1>2, UpdateOne DEF WaitCtxDone, Return, Scan
<1>4. /\ \A r \in Queries : /\ query'[r].key = query[r].key /\ query'[r].now = query[r].now
                            /\ query'[r].running = query[r].running
                            /\ query'[r].stale = query[r].stale
      /\ \A r \in Queries : query[r].running \in Queries \cup {NoQuery}
  BY <1>0, <1>1, <1>2, <1>3 DEF TypeOK, Query
<1>5. /\ \A r \in Queries : query'[r].pc \in Leading <=> query[r].pc \in Leading
      /\ \A r \in Queries : query[r].pc \in Ended => query'[r].pc \in Ended
      /\ \A r \in Queries : query'[r].pc \in Leading \cup {"unasked", "asked"}
                             => query'[r].err = query[r].err
                                /\ query[r].pc \in Leading \cup {"unasked", "asked"}
      /\ \A r \in Queries : query'[r].pc = "unasked" <=> query[r].pc = "unasked"
  BY <1>1, <1>2, <1>3 DEF Leading, Ended
<1>6. EntryInv' /\ AskedInv'
  BY <1>3, <1>4, <1>5 DEF IInv, EntryInv, AskedInv, WellDated
<1>7. LeaderInv' /\ ActiveInv'
  BY <1>0, <1>3, <1>4, <1>5 DEF IInv, LeaderInv, ActiveInv, Expired, TypeOK
<1>8. RunningInv'
  BY <1>3, <1>4, <1>5, CacheAssumption DEF IInv, RunningInv
<1>9. ResultInv'
  BY <1>1, <1>2, <1>3, <1>4 DEF IInv, ResultInv, Served, WellDated, LeaderOf, Ended
<1>10. WaiterInv'
  <2>1. ASSUME NEW r \in Queries, query'[r].pc = "waiting"
        PROVE  r # q /\ query[r].pc = "waiting" /\ query[r].running \in Queries
               /\ query[query[r].running].key = query[r].key
    BY <2>1, <1>1, <1>2, <1>3 DEF IInv, WaiterInv
  <2>2. ASSUME NEW r \in Queries, query'[r].pc = "waiting",
               query[query[r].running].pc \in Leading
        PROVE  query'[query[r].running].pc \in Leading /\ Expired(r, entries[query[r].key])
    BY <2>1, <2>2, <1>5 DEF IInv, WaiterInv, Leading, Ended
  <2>3. ASSUME NEW r \in Queries, query'[r].pc = "waiting",
               query[query[r].running].pc \in Ended
        PROVE  LET l == query[r].running
               IN /\ query'[l].pc \in Ended /\ query'[l].err = query[l].err
                  /\ query'[l].result = query[l].result
                  /\ query'[l].cacheState = query[l].cacheState
                  /\ ~query[l].err => Served(r, query[l].result, query[l].cacheState, l)
    BY <2>1, <2>3, <1>1, <1>2, <1>3 DEF IInv, WaiterInv, Leading, Ended
  <2>4. ASSUME NEW r \in Queries, query'[r].pc = "waiting"
        PROVE  query[query[r].running].pc \in Leading \cup Ended
    BY <2>1, <2>4 DEF IInv, WaiterInv
  <2>5. ASSUME NEW r \in Queries, query'[r].pc = "waiting"
        PROVE  LET l == query[r].running
               IN \/ query'[l].pc \in Leading /\ Expired(r, entries[query[r].key])'
                  \/ /\ query'[l].pc \in Ended
                     /\ ~query'[l].err =>
                           Served(r, query[l].result, query[l].cacheState, l)'
    <3>1. CASE query[query[r].running].pc \in Leading
      BY <2>1, <2>2, <2>5, <3>1, <1>3, <1>4 DEF Expired
    <3>2. CASE query[query[r].running].pc \in Ended
      BY <2>1, <2>3, <2>5, <3>2, <1>3, <1>4 DEF Served, WellDated
    <3>3. QED
      BY <2>4, <2>5, <3>1, <3>2
  <2>6. QED
    BY <2>1, <2>5, <1>4 DEF WaiterInv
<1>11. QED
  BY <1>6, <1>7, <1>8, <1>9, <1>10 DEF IInv

(* Waiting for a scan that was found running, or leading one: everything a  *)
(* leader and its waiters rely on holds when they join.                     *)
LEMMA LookupInv ==
    ASSUME IInv, TypeOK', NEW q \in Queries, Lookup(q) PROVE IInv'
<1>0. TypeOK
  BY DEF IInv
<1>1. PICK me \in Query : me = query[q]
  BY <1>0 DEF TypeOK
<1> DEFINE e == entries[me.key]
           running == active[me.key]
<1>2. /\ me.key \in Keys /\ me.running = NoQuery /\ ~me.err /\ me.pc = "asked"
      /\ floor[q] <= latest[me.key] /\ e \in Entry
      /\ running \in Queries \cup {NoQuery}
  <2>1. me.pc = "asked"
    BY <1>1 DEF Lookup
  <2>2. me.key \in Keys /\ floor[q] <= latest[me.key] /\ me.running = NoQuery /\ ~me.err
    BY <1>1, <2>1 DEF IInv, AskedInv, LeaderInv
  <2>3. QED
    BY <1>0, <2>1, <2>2 DEF TypeOK
<1>3. PICK v \in Query :
         /\ Update(q, v)
         /\ v.key = me.key /\ v.now = me.now
         /\ \/ /\ v.pc = "done" /\ v.result = e /\ v.cacheState = "fresh"
               /\ e.obs # 0 /\ me.now < e.expiresAt
               /\ v.running = NoQuery /\ ~v.err /\ active' = active
            \/ /\ v.pc = "waiting" /\ v.running = running /\ running # NoQuery
               /\ (e.obs # 0 => e.expiresAt <= me.now)
               /\ active' = active
            \/ /\ v.pc = "scanning" /\ v.stale = e /\ running = NoQuery
               /\ v.running = NoQuery /\ ~v.err
               /\ (e.obs # 0 => e.expiresAt <= me.now)
               /\ active' = [active EXCEPT ![me.key] = q]
  <2>0. me.now \in Nat /\ e.expiresAt \in Nat
    BY <1>2 DEF Query, Entry
  <2>1. CASE /\ e.obs # 0 /\ me.now < e.expiresAt
             /\ Update(q, Answered(me, e, "fresh")) /\ active' = active
    <3> DEFINE w == Answered(me, e, "fresh")
    <3>1. w \in Query
      BY <1>2, AnsweredType
    <3>2. /\ w.key = me.key /\ w.now = me.now /\ w.running = me.running
          /\ w.err = me.err /\ w.pc = "done" /\ w.result = e /\ w.cacheState = "fresh"
      BY DEF Answered, Query, PCs
    <3>3. Update(q, w)
      BY <2>1
    <3> HIDE DEF w
    <3>4. QED
      BY <3>1, <3>2, <3>3, <2>1, <1>2
  <2>2. CASE /\ ~(e.obs # 0 /\ me.now < e.expiresAt) /\ running # NoQuery
             /\ Update(q, [me EXCEPT !.pc = "waiting", !.running = running])
             /\ active' = active
    <3> DEFINE w == [me EXCEPT !.pc = "waiting", !.running = running]
    <3>1. w \in Query
      BY <1>2 DEF Query, PCs
    <3>2. w.key = me.key /\ w.now = me.now /\ w.pc = "waiting" /\ w.running = running
      BY DEF Query, PCs
    <3>3. Update(q, w)
      BY <2>2
    <3> HIDE DEF w
    <3>4. QED
      BY <3>1, <3>2, <3>3, <2>0, <2>2
  <2>3. CASE /\ ~(e.obs # 0 /\ me.now < e.expiresAt) /\ running = NoQuery
             /\ Update(q, [me EXCEPT !.pc = "scanning", !.stale = e])
             /\ active' = [active EXCEPT ![me.key] = q]
    <3> DEFINE w == [me EXCEPT !.pc = "scanning", !.stale = e]
    <3>1. w \in Query
      BY <1>2 DEF Query, PCs
    <3>2. /\ w.key = me.key /\ w.now = me.now /\ w.pc = "scanning" /\ w.stale = e
          /\ w.running = me.running /\ w.err = me.err
      BY DEF Query, PCs
    <3>3. Update(q, w)
      BY <2>3
    <3> HIDE DEF w
    <3>4. QED
      BY <3>1, <3>2, <3>3, <2>0, <2>3, <1>2
  <2>4. QED
    BY <1>1, <2>1, <2>2, <2>3 DEF Lookup
<1>4. /\ query'[q] = v
      /\ \A r \in Queries : r # q => query'[r] = query[r]
      /\ UNCHANGED <<clock, entries, latest, floor>>
  BY <1>0, <1>3, UpdateOne DEF Lookup
<1>5. \A r \in Queries : /\ query'[r].key = query[r].key /\ query'[r].now = query[r].now
                         /\ query[r].running \in Queries \cup {NoQuery}
                         /\ query[r].running # q
  BY <1>0, <1>1, <1>2, <1>3, <1>4, CacheAssumption
     DEF IInv, RunningInv, TypeOK, Query, Leading, Ended
<1>6. running # NoQuery => /\ running \in Queries /\ running # q
                           /\ query[running].pc \in Leading /\ query[running].key = me.key
  BY <1>1, <1>2 DEF IInv, ActiveInv, Leading
<1> HIDE DEF e, running
<1>7. EntryInv' /\ AskedInv'
  BY <1>1, <1>2, <1>4, <1>5 DEF IInv, EntryInv, AskedInv, WellDated
<1>8. LeaderInv'
  <2>1. ASSUME NEW r \in Queries, r # q, query[r].pc \in Leading
        PROVE  active'[query[r].key] = r
    <3>1. active[query[r].key] = r /\ query[r].key \in Keys
      BY <2>1 DEF IInv, LeaderInv, AskedInv, Leading
    <3>2. active' = active \/ (active' = [active EXCEPT ![me.key] = q] /\ active[me.key] = NoQuery)
      BY <1>3 DEF running
    <3>3. QED
      BY <3>1, <3>2, <1>0, <2>1, CacheAssumption DEF TypeOK
  <2>2. ASSUME v.pc \in Leading PROVE active'[v.key] = q /\ v.stale = e
    BY <2>2, <1>0, <1>2, <1>3 DEF Leading, TypeOK
  <2>3. v.pc \in Leading => (e.obs # 0 => e.expiresAt <= me.now)
    BY <1>3 DEF Leading
  <2>4. v.pc \in Leading \cup {"unasked", "asked"} => v.running = NoQuery /\ ~v.err
    BY <1>3 DEF Leading
  <2>5. e = entries'[v.key]
    BY <1>3, <1>4 DEF e
  <2>6. \A r \in Queries \ {q} :
           /\ query'[r].pc \in Leading =>
              /\ active'[query'[r].key] = r
              /\ query'[r].stale = entries'[query'[r].key]
              /\ query'[r].stale.obs # 0 => query'[r].stale.expiresAt <= query'[r].now
           /\ query'[r].pc \in Leading \cup {"unasked", "asked"}
                => query'[r].running = NoQuery /\ ~query'[r].err
    BY <2>1, <1>4 DEF IInv, LeaderInv, Expired
  <2>7. QED
    BY <2>2, <2>3, <2>4, <2>5, <2>6, <1>3, <1>4 DEF LeaderInv, Expired
<1>9. ActiveInv'
  <2>1. ASSUME NEW k \in Keys, active'[k] # NoQuery, active'[k] = active[k]
        PROVE  query'[active'[k]].pc \in Leading /\ query'[active'[k]].key = k
    BY <2>1, <1>0, <1>1, <1>2, <1>4 DEF IInv, ActiveInv, Leading, TypeOK
  <2>2. ASSUME NEW k \in Keys, active'[k] # active[k]
        PROVE  query'[active'[k]].pc \in Leading /\ query'[active'[k]].key = k
    BY <2>2, <1>0, <1>2, <1>3, <1>4 DEF Leading, TypeOK
  <2>3. QED
    BY <2>1, <2>2 DEF ActiveInv
<1>10. RunningInv'
  <2>1. ASSUME NEW r \in Queries, r # q, query'[r].running # NoQuery
        PROVE  query'[query'[r].running].pc \in Leading \cup Ended
    BY <2>1, <1>4, <1>5 DEF IInv, RunningInv
  <2>2. v.running # NoQuery => query'[v.running].pc \in Leading \cup Ended
    BY <1>2, <1>3, <1>4, <1>6
  <2>3. QED
    BY <2>1, <2>2, <1>4 DEF RunningInv
<1>11. WaiterInv'
  <2>1. ASSUME NEW r \in Queries, r # q, query'[r].pc = "waiting"
        PROVE  /\ query[r].pc = "waiting" /\ query'[r] = query[r]
               /\ query'[query[r].running] = query[query[r].running]
               /\ query[r].running \in Queries
    BY <2>1, <1>4, <1>5 DEF IInv, WaiterInv
  <2>2. v.pc = "waiting" => /\ v.running \in Queries
                            /\ query'[v.running].key = v.key
                            /\ query'[v.running].pc \in Leading
                            /\ (e.obs # 0 => e.expiresAt <= v.now)
                            /\ e = entries'[v.key]
    BY <1>3, <1>4, <1>6 DEF e
  <2>3. ASSUME NEW r \in Queries, r # q, query'[r].pc = "waiting"
        PROVE  /\ query[query[r].running].key = query[r].key
               /\ \/ /\ query[query[r].running].pc \in Leading
                     /\ Expired(r, entries[query[r].key])
                  \/ /\ query[query[r].running].pc \in Ended
                     /\ ~query[query[r].running].err =>
                           Served(r, query[query[r].running].result,
                                  query[query[r].running].cacheState, query[r].running)
    BY <2>1, <2>3 DEF IInv, WaiterInv
  <2>4. ASSUME NEW r \in Queries, r # q, query'[r].pc = "waiting"
        PROVE  /\ query'[query'[r].running].key = query'[r].key
               /\ \/ /\ query'[query'[r].running].pc \in Leading
                     /\ Expired(r, entries[query[r].key])'
                  \/ /\ query'[query'[r].running].pc \in Ended
                     /\ ~query'[query'[r].running].err =>
                           Served(r, query[query[r].running].result,
                                  query[query[r].running].cacheState, query[r].running)'
    BY <2>1, <2>3, <2>4, <1>4 DEF Served, WellDated, Expired
  <2>5. QED
    BY <2>1, <2>2, <2>4, <1>4, <1>5 DEF WaiterInv, Expired
<1>12. ResultInv'
  <2>1. ASSUME v.pc \in Ended
        PROVE  /\ v.result = e /\ v.cacheState = "fresh" /\ v.now < e.expiresAt
               /\ 0 < e.obs /\ floor[q] <= e.obs /\ e.obs <= latest[v.key]
               /\ WellDated(e) /\ v.pc # "answered"
    BY <2>1, <1>0, <1>2, <1>3 DEF e, IInv, EntryInv, Ended, Entry, TypeOK
  <2>2. \A r \in Queries \ {q} : /\ query'[r] = query[r]
                                  /\ query'[LeaderOf(r)].now = query[LeaderOf(r)].now
    BY <1>4, <1>5 DEF LeaderOf
  <2>3. \A r \in Queries \ {q} :
          /\ query[r].pc \in Ended /\ ~query[r].err =>
                Served(r, query[r].result, query[r].cacheState, LeaderOf(r))
          /\ query[r].pc = "answered" => ~query[r].err
    BY DEF IInv, ResultInv
  <2>4. ASSUME NEW r \in Queries, r # q
        PROVE  /\ query'[r].pc \in Ended /\ ~query'[r].err =>
                     Served(r, query[r].result, query[r].cacheState, LeaderOf(r))'
               /\ query'[r].pc = "answered" => ~query'[r].err
    BY <2>2, <2>3, <2>4, <1>4 DEF Served, WellDated, LeaderOf
  <2>5. /\ query'[q].pc \in Ended => Served(q, query[q].result, query[q].cacheState, LeaderOf(q))'
        /\ query'[q].pc # "answered"
    BY <2>1, <1>3, <1>4 DEF Served, WellDated, Ended
  <2>6. QED
    BY <2>4, <2>5 DEF ResultInv
<1>13. QED
  BY <1>7, <1>8, <1>9, <1>10, <1>11, <1>12 DEF IInv

(* A waiter takes over what its leader was given.                           *)
LEMMA WaitDoneInv ==
    ASSUME IInv, TypeOK', NEW q \in Queries, WaitDone(q) PROVE IInv'
<1>0. TypeOK
  BY DEF IInv
<1>1. PICK me \in Query : me = query[q]
  BY <1>0 DEF TypeOK
<1>2. me.pc = "waiting" /\ me.running \in Queries /\ me.running # NoQuery
  BY <1>1, CacheAssumption DEF WaitDone, IInv, WaiterInv
<1>3. PICK l \in Query : l = query[me.running]
  BY <1>0, <1>2 DEF TypeOK
<1>4. /\ l.pc \in Ended
      /\ ~l.err => Served(q, l.result, l.cacheState, me.running)
  BY <1>1, <1>2, <1>3 DEF WaitDone, IInv, WaiterInv, Ended, Leading
<1>5. PICK v \in Query :
         /\ Update(q, v)
         /\ v.key = me.key /\ v.now = me.now /\ v.running = me.running
         /\ v.pc = "done" /\ v.result = l.result /\ v.cacheState = l.cacheState
         /\ v.err = l.err
  <2> DEFINE a == Answered(me, l.result, l.cacheState)
             w == [a EXCEPT !.err = l.err]
  <2>1. l.result \in Entry /\ l.cacheState \in {"fresh", "stale", "none"} /\ l.err \in BOOLEAN
    BY DEF Query
  <2>2. PICK b \in Query : b = a
    BY <2>1, AnsweredType
  <2>3. /\ b.pc = "done" /\ b.result = l.result /\ b.cacheState = l.cacheState
        /\ b.key = me.key /\ b.now = me.now /\ b.running = me.running
    BY <2>2 DEF Answered, Query
  <2>4. Update(q, w)
    BY <1>1, <1>3 DEF WaitDone
  <2> HIDE DEF a
  <2>5. w \in Query
    BY <2>1, <2>2 DEF Query
  <2>6. /\ w.key = b.key /\ w.now = b.now /\ w.running = b.running /\ w.pc = b.pc
        /\ w.result = b.result /\ w.cacheState = b.cacheState /\ w.err = l.err
    BY <2>2 DEF Query
  <2> HIDE DEF w
  <2>7. QED
    BY <2>3, <2>4, <2>5, <2>6
<1>6. /\ query'[q] = v
      /\ \A r \in Queries : r # q => query'[r] = query[r]
      /\ UNCHANGED <<clock, entries, active, latest, floor>>
  BY <1>0, <1>5, UpdateOne DEF WaitDone
<1>7. \A r \in Queries : /\ query'[r].key = query[r].key /\ query'[r].now = query[r].now
                         /\ query'[r].running = query[r].running
                         /\ query[r].running \in Queries \cup {NoQuery}
                         /\ query[r].running # q
  BY <1>0, <1>1, <1>2, <1>5, <1>6, CacheAssumption
     DEF IInv, RunningInv, TypeOK, Query, Leading, Ended
<1>8. EntryInv' /\ AskedInv'
  BY <1>1, <1>2, <1>6, <1>7 DEF IInv, EntryInv, AskedInv, WellDated
<1>9. LeaderInv' /\ ActiveInv'
  <2>1. query[q].pc \notin Leading /\ query'[q].pc \notin Leading \cup {"unasked", "asked"}
    BY <1>1, <1>2, <1>5, <1>6 DEF Leading
  <2>2. LeaderInv'
    BY <2>1, <1>6 DEF IInv, LeaderInv, Expired
  <2>3. \A k \in Keys : active[k] # NoQuery => active[k] \in Queries \ {q}
    BY <2>1, <1>0 DEF IInv, ActiveInv, TypeOK
  <2>4. ActiveInv'
    BY <2>3, <1>6 DEF IInv, ActiveInv
  <2>5. QED
    BY <2>2, <2>4
<1>10. RunningInv'
  BY <1>5, <1>6, <1>7, CacheAssumption DEF IInv, RunningInv
<1>11. WaiterInv'
  BY <1>5, <1>6, <1>7 DEF IInv, WaiterInv, Served, WellDated, Expired
<1>12. ResultInv'
  <2>1. ASSUME NEW r \in Queries, r # q
        PROVE  /\ query'[r].pc \in Ended /\ ~query'[r].err =>
                     Served(r, query[r].result, query[r].cacheState, LeaderOf(r))'
               /\ query'[r].pc = "answered" => ~query'[r].err
    BY <2>1, <1>6, <1>7 DEF IInv, ResultInv, Served, WellDated, LeaderOf
  <2>2. ~query'[q].err => Served(q, query[q].result, query[q].cacheState, LeaderOf(q))'
    BY <1>1, <1>2, <1>4, <1>5, <1>6, <1>7 DEF Served, WellDated, LeaderOf
  <2>3. QED
    BY <2>1, <2>2, <1>5, <1>6 DEF ResultInv
<1>13. QED
  BY <1>8, <1>9, <1>10, <1>11, <1>12 DEF IInv

(* The leader's end.  A new observation is newer than anybody asked for and *)
(* fresh for everyone who waits; the entry kept for a failure is still the  *)
(* newest observation, because nobody else could scan the key.              *)
LEMMA SettleInv ==
    ASSUME IInv, TypeOK', NEW q \in Queries, Settle(q) PROVE IInv'
<1>0. TypeOK
  BY DEF IInv
<1>1. PICK me \in Query : me = query[q]
  BY <1>0 DEF TypeOK
<1> DEFINE k == me.key
<1>2. /\ k \in Keys /\ me.running = NoQuery /\ ~me.err /\ me.pc = "scanned"
      /\ active[k] = q /\ me.stale = entries[k] /\ me.stale.obs = latest[k]
      /\ (me.stale.obs # 0 => me.stale.expiresAt <= me.now)
      /\ me.stale \in Entry /\ WellDated(me.stale)
  <2>1. me.pc = "scanned"
    BY <1>1 DEF Settle
  <2>2. k \in Keys /\ me.running = NoQuery /\ ~me.err /\ active[k] = q
        /\ me.stale = entries[k] /\ Expired(q, me.stale)
    BY <1>1, <2>1 DEF IInv, AskedInv, LeaderInv, Leading
  <2>3. me.stale.obs = latest[k] /\ WellDated(me.stale)
    BY <2>2 DEF IInv, EntryInv
  <2>4. QED
    BY <1>1, <2>1, <2>2, <2>3 DEF Expired, Query
<1>3. PICK new \in Entry :
         /\ new = NewEntry(latest[k] + 1, me.outcome = "quotes")
         /\ new.obs = latest[k] + 1 /\ new.observedAt = clock
         /\ new.expiresAt = clock + TTL /\ new.staleUntil = new.expiresAt + StaleTTLs * TTL
  <2>1. latest[k] + 1 \in Nat /\ (me.outcome = "quotes") \in BOOLEAN
    BY <1>0, <1>2 DEF TypeOK
  <2> DEFINE n == NewEntry(latest[k] + 1, me.outcome = "quotes")
  <2>2. /\ n \in Entry /\ n.obs = latest[k] + 1 /\ n.observedAt = clock
        /\ n.expiresAt = clock + TTL /\ n.staleUntil = clock + TTL + StaleTTLs * TTL
    BY <1>0, <2>1, NewEntryType
  <2>3. n = NewEntry(latest[k] + 1, me.outcome = "quotes")
    OBVIOUS
  <2> HIDE DEF n
  <2>4. QED
    BY <2>2, <2>3
<1>4. PICK v \in Query :
         /\ Update(q, v)
         /\ v.key = k /\ v.now = me.now /\ v.running = NoQuery /\ v.pc = "done"
         /\ \/ /\ v.result = new /\ v.cacheState = "fresh" /\ ~v.err
               /\ entries' = [entries EXCEPT ![k] = new]
               /\ latest' = [latest EXCEPT ![k] = new.obs]
            \/ /\ v.result = me.stale /\ v.cacheState = "stale" /\ ~v.err
               /\ me.stale.obs # 0 /\ me.now < me.stale.staleUntil
               /\ UNCHANGED <<entries, latest>>
            \/ v.err /\ UNCHANGED <<entries, latest>>
  <2>1. CASE /\ Update(q, Answered(me, new, "fresh"))
             /\ entries' = [entries EXCEPT ![k] = new]
             /\ latest' = [latest EXCEPT ![k] = new.obs]
    <3> DEFINE w == Answered(me, new, "fresh")
    <3>1. w \in Query
      BY AnsweredType
    <3>2. /\ w.key = k /\ w.now = me.now /\ w.running = me.running /\ w.pc = "done"
          /\ w.err = me.err /\ w.result = new /\ w.cacheState = "fresh"
      BY DEF Answered, Query, PCs
    <3>3. Update(q, w)
      BY <2>1
    <3> HIDE DEF w
    <3>4. QED
      BY <3>1, <3>2, <3>3, <2>1, <1>2
  <2>2. CASE /\ Update(q, Answered(me, me.stale, "stale"))
             /\ me.stale.obs # 0 /\ me.now < me.stale.staleUntil
             /\ UNCHANGED <<entries, latest>>
    <3> DEFINE w == Answered(me, me.stale, "stale")
    <3>1. w \in Query
      BY <1>2, AnsweredType
    <3>2. /\ w.key = k /\ w.now = me.now /\ w.running = me.running /\ w.pc = "done"
          /\ w.err = me.err /\ w.result = me.stale /\ w.cacheState = "stale"
      BY DEF Answered, Query, PCs
    <3>3. Update(q, w)
      BY <2>2
    <3> HIDE DEF w
    <3>4. QED
      BY <3>1, <3>2, <3>3, <2>2, <1>2
  <2>3. CASE /\ Update(q, [me EXCEPT !.pc = "done", !.cacheState = "fresh", !.err = TRUE])
             /\ UNCHANGED <<entries, latest>>
    <3> DEFINE w == [me EXCEPT !.pc = "done", !.cacheState = "fresh", !.err = TRUE]
    <3>1. w \in Query
      BY DEF Query, PCs
    <3>2. w.key = k /\ w.now = me.now /\ w.running = me.running /\ w.pc = "done" /\ w.err
      BY DEF Query, PCs
    <3>3. Update(q, w)
      BY <2>3
    <3> HIDE DEF w
    <3>4. QED
      BY <3>1, <3>2, <3>3, <2>3, <1>2
  <2>4. QED
    BY <1>1, <1>3, <2>1, <2>2, <2>3 DEF Settle
<1>5. /\ query'[q] = v
      /\ \A r \in Queries : r # q => query'[r] = query[r]
      /\ active' = [active EXCEPT ![k] = NoQuery]
      /\ UNCHANGED <<clock, floor>>
  BY <1>0, <1>1, <1>4, UpdateOne DEF Settle
<1> HIDE DEF k
<1>6. /\ \A x \in Keys : latest[x] \in Nat /\ latest'[x] \in Nat /\ latest[x] <= latest'[x]
      /\ \A x \in Keys : x # k => latest'[x] = latest[x] /\ entries'[x] = entries[x]
      /\ clock \in Nat
  BY <1>0, <1>2, <1>3, <1>4 DEF TypeOK
<1>7. \A r \in Queries : /\ query'[r].key = query[r].key /\ query'[r].now = query[r].now
                         /\ query'[r].running = query[r].running
                         /\ query[r].running \in Queries \cup {NoQuery}
                         /\ query[r].now \in Nat /\ floor[r] \in Nat
                         /\ query[r].result \in Entry
  BY <1>0, <1>1, <1>2, <1>4, <1>5 DEF TypeOK, Query, k
<1>8. EntryInv'
  <2>1. ASSUME NEW x \in Keys, x # k
        PROVE  (entries[x].obs = latest[x] /\ WellDated(entries[x]))'
    BY <2>1, <1>5, <1>6 DEF IInv, EntryInv, WellDated
  <2>2. (entries[k].obs = latest[k] /\ WellDated(entries[k]))'
    BY <1>0, <1>2, <1>3, <1>4, <1>5, <1>6 DEF IInv, EntryInv, WellDated, TypeOK
  <2>3. QED
    BY <2>1, <2>2 DEF EntryInv
<1>9. AskedInv'
  <2>1. ASSUME NEW r \in Queries, query'[r].pc # "unasked"
        PROVE  query[r].pc # "unasked"
    BY <2>1, <1>1, <1>2, <1>5
  <2>2. ASSUME NEW r \in Queries, query'[r].pc # "unasked"
        PROVE  /\ query[r].key \in Keys /\ query[r].now <= clock
               /\ floor[r] <= latest[query[r].key]
    BY <2>1, <2>2 DEF IInv, AskedInv
  <2>3. QED
    BY <2>2, <1>5, <1>6, <1>7 DEF AskedInv
<1>10. \A r \in Queries : r # q /\ query[r].pc \in Leading =>
          query[r].key # k /\ query[r].key \in Keys /\ active[query[r].key] = r
  BY <1>1, <1>2 DEF IInv, LeaderInv, AskedInv, Leading
<1>11. LeaderInv'
  <2>1. ASSUME NEW r \in Queries, r # q, query[r].pc \in Leading
        PROVE  /\ active'[query[r].key] = r
               /\ entries'[query[r].key] = entries[query[r].key]
    BY <2>1, <1>0, <1>5, <1>6, <1>10 DEF TypeOK
  <2>2. v.pc \notin Leading \cup {"unasked", "asked"}
    BY <1>4 DEF Leading
  <2>3. QED
    BY <2>1, <2>2, <1>5 DEF IInv, LeaderInv, Expired
<1>12. ActiveInv'
  <2>1. ASSUME NEW x \in Keys, active'[x] # NoQuery
        PROVE  active[x] # NoQuery /\ active'[x] = active[x] /\ x # k
    BY <2>1, <1>0, <1>2, <1>5 DEF TypeOK
  <2>2. ASSUME NEW x \in Keys, active'[x] # NoQuery PROVE active[x] \in Queries \ {q}
    BY <2>1, <2>2, <1>0, <1>1, <1>2 DEF IInv, ActiveInv, TypeOK, k
  <2>3. QED
    BY <2>1, <2>2, <1>5 DEF IInv, ActiveInv
<1>13. RunningInv'
  BY <1>4, <1>5, <1>7, CacheAssumption DEF IInv, RunningInv, Ended
<1>14. \A r \in Queries, l \in Queries, e \in Entry, state \in {"fresh", "stale", "none"} :
          query[r].key \in Keys /\ Served(r, e, state, l) =>
            /\ 0 < e.obs /\ floor'[r] <= e.obs /\ e.obs <= latest'[query'[r].key]
            /\ e.obs # 0 => /\ e.observedAt <= clock'
                            /\ e.expiresAt = e.observedAt + TTL
                            /\ e.staleUntil = e.expiresAt + StaleTTLs * TTL
            /\ \/ state = "fresh" /\ query'[r].now < e.expiresAt
               \/ state = "stale" /\ e.expiresAt <= query'[r].now
                                  /\ query'[l].now < e.staleUntil
  BY <1>5, <1>6, <1>7 DEF Served, WellDated, Entry
<1>15. ASSUME NEW r \in Queries, query[r].key = k, floor[r] <= latest[k],
              query[r].now <= clock, ~v.err,
              me.stale.obs # 0 => me.stale.expiresAt <= query[r].now
       PROVE  /\ 0 < v.result.obs /\ floor'[r] <= v.result.obs
              /\ v.result.obs <= latest'[query'[r].key]
              /\ v.result.obs # 0 =>
                    /\ v.result.observedAt <= clock'
                    /\ v.result.expiresAt = v.result.observedAt + TTL
                    /\ v.result.staleUntil = v.result.expiresAt + StaleTTLs * TTL
              /\ \/ v.cacheState = "fresh" /\ query'[r].now < v.result.expiresAt
                 \/ v.cacheState = "stale" /\ v.result.expiresAt <= query'[r].now
                                           /\ query'[q].now < v.result.staleUntil
  <2>1. CASE /\ v.result = new /\ v.cacheState = "fresh"
             /\ latest' = [latest EXCEPT ![k] = new.obs]
    BY <2>1, <1>0, <1>2, <1>3, <1>5, <1>6, <1>7, <1>15, Window DEF TypeOK
  <2>2. CASE /\ v.result = me.stale /\ v.cacheState = "stale"
             /\ me.stale.obs # 0 /\ me.now < me.stale.staleUntil
             /\ UNCHANGED <<entries, latest>>
    BY <2>2, <1>1, <1>2, <1>4, <1>5, <1>6, <1>7, <1>15 DEF WellDated
  <2>3. QED
    BY <2>1, <2>2, <1>4, <1>15
<1>16. WaiterInv'
  <2>1. ASSUME NEW r \in Queries, query'[r].pc = "waiting"
        PROVE  /\ r # q /\ query'[r] = query[r] /\ query[r].pc = "waiting"
               /\ query[r].running \in Queries /\ query[r].key \in Keys
               /\ query[r].now <= clock /\ floor[r] <= latest[query[r].key]
               /\ query[query[r].running].key = query[r].key
    BY <2>1, <1>4, <1>5 DEF IInv, WaiterInv, AskedInv
  <2>2. ASSUME NEW r \in Queries, query'[r].pc = "waiting", query[r].running # q
        PROVE  LET l == query[r].running
               IN \/ query'[l].pc \in Leading /\ Expired(r, entries[query[r].key])'
                  \/ /\ query'[l].pc \in Ended
                     /\ ~query'[l].err =>
                           Served(r, query[l].result, query[l].cacheState, l)'
    <3>1. CASE query[query[r].running].pc \in Leading
      BY <2>1, <2>2, <3>1, <1>5, <1>6, <1>10 DEF IInv, WaiterInv, Leading, Ended, Expired
    <3>2. CASE query[query[r].running].pc \notin Leading
      <4>1. PICK l \in Query : l = query[query[r].running]
        BY <2>1, <2>2, <1>0 DEF TypeOK
      <4>2. /\ query'[query[r].running] = l /\ l.pc \in Ended
            /\ l.result \in Entry /\ l.cacheState \in {"fresh", "stale", "none"}
            /\ ~l.err => Served(r, l.result, l.cacheState, query[r].running)
        BY <2>1, <2>2, <3>2, <4>1, <1>5 DEF IInv, WaiterInv, Query
      <4>3. QED
        BY <2>1, <2>2, <4>2, <1>5, <1>14 DEF Served, WellDated
    <3>3. QED
      BY <3>1, <3>2
  <2>3. ASSUME NEW r \in Queries, query'[r].pc = "waiting", query[r].running = q
        PROVE  ~v.err => Served(r, query[q].result, query[q].cacheState, q)'
    <3>1. /\ query[r].key = k /\ (me.stale.obs # 0 => me.stale.expiresAt <= query[r].now)
          /\ floor[r] <= latest[k] /\ query[r].now <= clock
      BY <2>1, <2>3, <1>1, <1>2 DEF IInv, WaiterInv, Expired, Leading, Ended, k
    <3>2. QED
      BY <3>1, <1>5, <1>15 DEF Served, WellDated
  <2>4. v.pc \in Ended
    BY <1>4 DEF Ended
  <2>5. QED
    BY <2>1, <2>2, <2>3, <2>4, <1>5, <1>7 DEF WaiterInv
<1>17. ResultInv'
  <2>1. ASSUME NEW r \in Queries, r # q
        PROVE  /\ query'[r].pc \in Ended /\ ~query'[r].err =>
                     Served(r, query[r].result, query[r].cacheState, LeaderOf(r))'
               /\ query'[r].pc = "answered" => ~query'[r].err
    <3>1. query'[r] = query[r] /\ (query[r].pc = "answered" => ~query[r].err)
      BY <2>1, <1>5 DEF IInv, ResultInv
    <3>2. ASSUME query[r].pc \in Ended, ~query[r].err
          PROVE  /\ Served(r, query[r].result, query[r].cacheState, LeaderOf(r))
                 /\ query[r].key \in Keys /\ LeaderOf(r) \in Queries
                 /\ query[r].result \in Entry
                 /\ query[r].cacheState \in {"fresh", "stale", "none"}
      BY <2>1, <3>2, <1>0, <1>7
         DEF IInv, ResultInv, AskedInv, Ended, LeaderOf, TypeOK, Query
    <3>3. QED
      BY <3>1, <3>2, <1>14, <1>7 DEF Served, WellDated, LeaderOf
  <2>2. ~query'[q].err => Served(q, query[q].result, query[q].cacheState, LeaderOf(q))'
    <3>1. /\ query[q].key = k /\ floor[q] <= latest[k] /\ query[q].now <= clock
          /\ (me.stale.obs # 0 => me.stale.expiresAt <= query[q].now)
      BY <1>1, <1>2 DEF IInv, AskedInv, k
    <3>2. LeaderOf(q)' = q
      BY <1>4, <1>5 DEF LeaderOf
    <3>3. QED
      BY <3>1, <3>2, <1>5, <1>15 DEF Served, WellDated
  <2>3. QED
    BY <2>1, <2>2, <1>4, <1>5 DEF ResultInv
<1>18. QED
  BY <1>8, <1>9, <1>11, <1>12, <1>13, <1>16, <1>17 DEF IInv

LEMMA StepInv == ASSUME IInv, [Next]_vars PROVE IInv'
<1>0. TypeOK'
  BY TypeStep
<1>1. CASE Tick
  BY <1>0, <1>1, TickInv
<1>2. ASSUME NEW q \in Queries, NEW k \in Keys, Ask(q, k) PROVE IInv'
  BY <1>0, <1>2, AskInv
<1>3. ASSUME NEW q \in Queries,
             WaitCtxDone(q) \/ Return(q) \/ \E o \in ScanOutcomes : Scan(q, o)
      PROVE  IInv'
  BY <1>0, <1>3, LocalStepInv
<1>4. ASSUME NEW q \in Queries, Lookup(q) PROVE IInv'
  BY <1>0, <1>4, LookupInv
<1>5. ASSUME NEW q \in Queries, WaitDone(q) PROVE IInv'
  BY <1>0, <1>5, WaitDoneInv
<1>6. ASSUME NEW q \in Queries, Settle(q) PROVE IInv'
  BY <1>0, <1>6, SettleInv
<1>7. CASE UNCHANGED vars
  <2>1. UNCHANGED <<clock, entries, active, query, latest, floor>>
    BY <1>7 DEF vars
  <2>2. EntryInv' /\ AskedInv'
    BY <2>1 DEF IInv, EntryInv, AskedInv, WellDated
  <2>3. LeaderInv' /\ ActiveInv' /\ RunningInv'
    BY <2>1 DEF IInv, LeaderInv, ActiveInv, RunningInv, Expired
  <2>4. WaiterInv'
    BY <2>1 DEF IInv, WaiterInv, Served, WellDated, Expired
  <2>5. ResultInv'
    BY <2>1 DEF IInv, ResultInv, Served, WellDated, LeaderOf
  <2>6. QED
    BY <1>0, <2>2, <2>3, <2>4, <2>5 DEF IInv
<1>8. QED
  BY <1>1, <1>2, <1>3, <1>4, <1>5, <1>6, <1>7 DEF Next, QueryStep

LEMMA Inductive == Spec => []IInv
<1>1. Init => IInv
  BY InitInv
<1>2. IInv /\ [Next]_vars => IInv'
  BY StepInv
<1>3. QED
  BY <1>1, <1>2, PTL DEF Spec

(* Every reachable state is well typed: a query that waits names a query   *)
(* that exists, and a query that looks up names a key that exists.         *)
THEOREM TypeCorrect == Spec => []TypeOK
<1>1. IInv => TypeOK
  BY DEF IInv
<1>2. QED
  BY <1>1, Inductive, PTL

(* At most one scan of a key is under way, whatever queries come and go.   *)
THEOREM CoalescedHolds == Spec => []Coalesced
<1>1. IInv => Coalesced
  BY DEF IInv, LeaderInv, WaiterInv, Coalesced
<1>2. QED
  BY <1>1, Inductive, PTL

(* An answer is as old as its label says, for every TTL and stale window.  *)
THEOREM AnswerAgeHolds == Spec => []AnswerAge
<1>1. ASSUME IInv PROVE AnswerAge
  <2> SUFFICES ASSUME NEW q \in Queries, query[q].pc = "answered"
               PROVE  \/ /\ query[q].cacheState = "fresh"
                         /\ query[q].now < query[q].result.observedAt + TTL
                      \/ /\ query[q].cacheState = "stale"
                         /\ query[q].result.observedAt + TTL <= query[q].now
                         /\ query[LeaderOf(q)].now
                               < query[q].result.observedAt + TTL + StaleTTLs * TTL
    BY DEF AnswerAge
  <2>1. Served(q, query[q].result, query[q].cacheState, LeaderOf(q))
    BY <1>1 DEF IInv, ResultInv, Ended
  <2>2. query[q].result.obs \in Nat
    BY <1>1 DEF IInv, TypeOK, Query, Entry
  <2>3. QED
    BY <2>1, <2>2 DEF Served, WellDated
<1>2. QED
  BY <1>1, Inductive, PTL
-----------------------------------------------------------------------------
LEMMA ReadsInit == Init => Reads!Init
BY DEF Init, Reads!Init, readStatus, readKey, readAnswer, NoResult

LEMMA ReadsStep ==
    ASSUME IInv, [Next]_vars PROVE [Reads!Next]_(Reads!readVars)
<1>0. TypeOK
  BY DEF IInv
<1>1. CASE Tick \/ UNCHANGED vars
  BY <1>1 DEF Tick, vars, Reads!readVars, readStatus, readKey, readAnswer
<1>2. ASSUME NEW q \in Queries, NEW k \in Keys, Ask(q, k) PROVE Reads!Ask(q, k)
  <2>1. PICK me \in Query : me = query[q]
    BY <1>0 DEF TypeOK
  <2> DEFINE w == [me EXCEPT !.pc = "asked", !.key = k, !.now = clock]
  <2>2. w.pc = "asked" /\ w.key = k /\ me.pc = "unasked"
    BY <1>2, <2>1 DEF Query, PCs, Ask
  <2>3. query' = [query EXCEPT ![q] = w] /\ floor' = [floor EXCEPT ![q] = latest[k]]
        /\ latest' = latest
    BY <1>2, <2>1 DEF Ask, Update
  <2> HIDE DEF w
  <2>4. readStatus[q] = "unasked" /\ readStatus' = [readStatus EXCEPT ![q] = "asked"]
    BY <1>0, <2>1, <2>2, <2>3 DEF readStatus, TypeOK
  <2>5. readKey' = [readKey EXCEPT ![q] = k]
    BY <1>0, <2>1, <2>2, <2>3 DEF readKey, TypeOK
  <2>6. readAnswer' = readAnswer
    BY <1>0, <2>1, <2>2, <2>3 DEF readAnswer, TypeOK
  <2>7. QED
    BY <2>3, <2>4, <2>5, <2>6 DEF Reads!Ask
<1>3. ASSUME NEW q \in Queries, Return(q) PROVE Reads!Answer(q) \/ Reads!Fail(q)
  <2>1. PICK me \in Query : me = query[q]
    BY <1>0 DEF TypeOK
  <2> DEFINE w == [me EXCEPT !.pc = IF me.err THEN "failed" ELSE "answered"]
  <2>2. /\ w.pc = (IF me.err THEN "failed" ELSE "answered") /\ w.key = me.key
        /\ w.result = me.result /\ me.pc = "done"
    BY <1>3, <2>1 DEF Query, PCs, Return
  <2>3. query' = [query EXCEPT ![q] = w] /\ UNCHANGED <<floor, latest>>
    BY <1>3, <2>1 DEF Return, Update
  <2> HIDE DEF w
  <2>4. readStatus[q] = "asked" /\ readStatus' = [readStatus EXCEPT ![q] = w.pc]
    BY <1>0, <2>1, <2>2, <2>3 DEF readStatus, TypeOK
  <2>5. readKey' = readKey /\ readKey[q] = me.key
    BY <1>0, <2>1, <2>2, <2>3 DEF readKey, TypeOK
  <2>6. CASE me.err
    <3>1. readAnswer' = readAnswer
      BY <1>0, <2>1, <2>2, <2>3, <2>6 DEF readAnswer, TypeOK
    <3>2. QED
      BY <2>2, <2>3, <2>4, <2>5, <2>6, <3>1 DEF Reads!Fail
  <2>7. CASE ~me.err
    <3>1. readAnswer' = [readAnswer EXCEPT ![q] = me.result.obs]
      BY <1>0, <2>1, <2>2, <2>3, <2>7 DEF readAnswer, TypeOK
    <3>2. Served(q, me.result, me.cacheState, LeaderOf(q))
      BY <2>1, <2>2, <2>7 DEF IInv, ResultInv, Ended
    <3>3. /\ me.result.obs \in Nat /\ floor[q] \in Nat
          /\ 0 < me.result.obs /\ floor[q] <= me.result.obs
          /\ me.result.obs <= latest[me.key]
      BY <1>0, <2>1, <3>2 DEF Served, TypeOK, Query, Entry
    <3>4. latest[me.key] \in Nat
      BY <1>0, <2>1, <2>2 DEF IInv, AskedInv, TypeOK
    <3>5. me.result.obs \in floor[q] .. latest[readKey[q]]
      BY <2>5, <3>3, <3>4
    <3>6. QED
      BY <2>2, <2>3, <2>4, <2>5, <2>7, <3>1, <3>3, <3>5 DEF Reads!Answer
  <2>8. QED
    BY <2>6, <2>7
<1>4. ASSUME NEW q \in Queries, NEW v,
             Update(q, v), v.key = query[q].key,
             {v.pc, query[q].pc} \cap {"unasked", "answered", "failed"} = {},
             UNCHANGED floor
      PROVE  /\ readStatus' = readStatus /\ readKey' = readKey /\ readAnswer' = readAnswer
             /\ floor' = floor
  BY <1>0, <1>4 DEF Update, readStatus, readKey, readAnswer, TypeOK
<1>5. ASSUME NEW q \in Queries,
             WaitCtxDone(q) \/ WaitDone(q) \/ Lookup(q)
               \/ \E o \in ScanOutcomes : Scan(q, o)
      PROVE  UNCHANGED Reads!readVars
  <2>1. PICK me \in Query : me = query[q]
    BY <1>0 DEF TypeOK
  <2>2. \E v : /\ Update(q, v) /\ v.key = me.key
               /\ {v.pc, me.pc} \cap {"unasked", "answered", "failed"} = {}
    <3>1. CASE WaitCtxDone(q)
      <4>1. me.pc = "waiting" /\ Update(q, [me EXCEPT !.pc = "done", !.err = TRUE])
        BY <2>1, <3>1 DEF WaitCtxDone
      <4>2. LET w == [me EXCEPT !.pc = "done", !.err = TRUE]
            IN w.key = me.key /\ w.pc = "done"
        BY DEF Query
      <4>3. QED
        BY <4>1, <4>2
    <3>2. CASE WaitDone(q)
      <4> DEFINE l == query[query[q].running]
                 w == [Answered(me, l.result, l.cacheState) EXCEPT !.err = l.err]
      <4>1. me.pc = "waiting" /\ Update(q, w)
        BY <2>1, <3>2 DEF WaitDone
      <4>2. w.key = me.key /\ w.pc = "done"
        BY DEF Answered, Query
      <4> HIDE DEF w
      <4>3. QED
        BY <4>1, <4>2
    <3>3. CASE Lookup(q)
      <4> DEFINE w1 == Answered(me, entries[me.key], "fresh")
                 w2 == [me EXCEPT !.pc = "waiting", !.running = active[me.key]]
                 w3 == [me EXCEPT !.pc = "scanning", !.stale = entries[me.key]]
      <4>1. me.pc = "asked" /\ (Update(q, w1) \/ Update(q, w2) \/ Update(q, w3))
        BY <2>1, <3>3 DEF Lookup
      <4>2. /\ w1.key = me.key /\ w1.pc = "done"
            /\ w2.key = me.key /\ w2.pc = "waiting"
            /\ w3.key = me.key /\ w3.pc = "scanning"
        BY DEF Answered, Query
      <4> HIDE DEF w1, w2, w3
      <4>3. QED
        BY <4>1, <4>2
    <3>4. ASSUME NEW o \in ScanOutcomes, Scan(q, o)
          PROVE  \E v : /\ Update(q, v) /\ v.key = me.key
                        /\ {v.pc, me.pc} \cap {"unasked", "answered", "failed"} = {}
      <4> DEFINE w == [me EXCEPT !.pc = "scanned", !.outcome = o]
      <4>1. me.pc = "scanning" /\ Update(q, w)
        BY <2>1, <3>4 DEF Scan
      <4>2. w.key = me.key /\ w.pc = "scanned"
        BY DEF Query
      <4> HIDE DEF w
      <4>3. QED
        BY <4>1, <4>2
    <3>5. QED
      BY <1>5, <3>1, <3>2, <3>3, <3>4
  <2>3. UNCHANGED <<latest, floor>>
    BY <1>5 DEF WaitCtxDone, WaitDone, Lookup, Scan
  <2>4. QED
    BY <1>4, <2>1, <2>2, <2>3 DEF Reads!readVars
<1>6. ASSUME NEW q \in Queries, Settle(q)
      PROVE  Reads!Observe(query[q].key) \/ UNCHANGED Reads!readVars
  <2>1. PICK me \in Query : me = query[q]
    BY <1>0 DEF TypeOK
  <2>2. me.pc = "scanned" /\ UNCHANGED floor
    BY <1>6, <2>1 DEF Settle
  <2> DEFINE new == NewEntry(latest[me.key] + 1, me.outcome = "quotes")
             w1 == Answered(me, new, "fresh")
             w2 == Answered(me, me.stale, "stale")
             w3 == [me EXCEPT !.pc = "done", !.cacheState = "fresh", !.err = TRUE]
  <2>3. \/ Update(q, w1) /\ latest' = [latest EXCEPT ![me.key] = new.obs]
        \/ Update(q, w2) /\ UNCHANGED latest
        \/ Update(q, w3) /\ UNCHANGED latest
    BY <1>6, <2>1 DEF Settle
  <2>4. /\ w1.key = me.key /\ w1.pc = "done"
        /\ w2.key = me.key /\ w2.pc = "done"
        /\ w3.key = me.key /\ w3.pc = "done"
    BY DEF Answered, Query
  <2>5. new.obs = latest[me.key] + 1
    BY DEF NewEntry
  <2> HIDE DEF new, w1, w2, w3
  <2>6. /\ readStatus' = readStatus /\ readKey' = readKey /\ readAnswer' = readAnswer
        /\ floor' = floor
    BY <1>4, <2>1, <2>2, <2>3, <2>4
  <2>7. QED
    BY <2>1, <2>3, <2>5, <2>6 DEF Reads!Observe, Reads!readVars
<1>7. ASSUME NEW q \in Queries, Settle(q) PROVE query[q].key \in Keys
  BY <1>7 DEF Settle, IInv, AskedInv
<1>8. QED
  BY <1>1, <1>2, <1>3, <1>5, <1>6, <1>7 DEF Next, QueryStep, Reads!Next

(* The price cache implements PriceReads: a client never reads a price      *)
(* older than the newest one there was when it asked.                       *)
THEOREM CacheImplementsReads == Spec => ImplementsReads
<1>1. Init => Reads!Init
  BY ReadsInit
<1>2. IInv /\ [Next]_vars => [Reads!Next]_(Reads!readVars)
  BY ReadsStep
<1>3. QED
  BY <1>1, <1>2, Inductive, PTL DEF Spec, Reads!Spec, ImplementsReads
=============================================================================
